\* Two processes, each launch call transmitted at most twice, no spot requests.
SPECIFICATION Spec
CONSTANTS
    Runner = {r1, r2}
    Sends = 2
    SpendLimit = 600
    Requests <- MCRequests
    KeyKinds = {"own"}
    SpotModes = {FALSE}
    MaxApprovals = 3
    MaxOpenSpot = 0
SYMMETRY MCSymmetry
INVARIANTS TypeOK SpendBounded
PROPERTY BudgetRefined
