\* Two processes, the storage of the namenode, and a volume of somebody else.
SPECIFICATION Spec
CONSTANTS
    i1 = i1
    p1 = p1
    p2 = p2
    Proc = {p1, p2}
    Vol <- Volumes
    Foreign <- Others5
    Inst = {i1}
    Role <- Namenode
    RoleOf <- AllNamenodes
    PerInstance = 1
    MaxNumber <- One
    MaxCommands = 2
    MaxFaults = 0
INVARIANT OthersVolumesStay
CHECK_DEADLOCK FALSE
