\* Two processes at the same time, launch calls that are not transmitted again.
SPECIFICATION Spec
CONSTANTS
    Runner = {r1, r2}
    Sends = 1
    SpendLimit = 600
    Requests <- MCRequests
    KeyKinds = {"own"}
    SpotModes = {FALSE}
    MaxApprovals = 2
    MaxOpenSpot = 0
INVARIANT WithinSpendLimit
