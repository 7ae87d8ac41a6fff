\* Spot and on-demand requests, with keys of both kinds.
SPECIFICATION Spec
CONSTANTS
    Runner = {r1, r2}
    Sends = 2
    SpendLimit = 600
    Requests <- MCSmallRequests
    KeyKinds = {"own", "alias"}
    SpotModes = {TRUE, FALSE}
    MaxApprovals = 2
    MaxOpenSpot = 4
SYMMETRY MCSymmetry
INVARIANT AuditCovers
