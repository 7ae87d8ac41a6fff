\* Two processes, three commands, one fault.  A behaviour may stop: nobody has
\* to give another command.
SPECIFICATION Spec
CONSTANTS
    i1 = i1
    p1 = p1
    p2 = p2
    Proc = {p1, p2}
    Vol <- Volumes
    Foreign <- Others5
    Inst = {i1}
    Role <- BothRoles
    RoleOf <- AllM
    PerInstance = 2
    MaxNumber <- TwoOrOne
    MaxCommands = 3
    MaxFaults = 1
SYMMETRY Exchange
INVARIANTS TypeOK LeaksAreBounded RecordedVolumesExist OneListPerInstance
CHECK_DEADLOCK FALSE
