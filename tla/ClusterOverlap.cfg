\* Two processes, three commands, one fault.  A behaviour may stop: nobody has
\* to give another command.
SPECIFICATION Spec
CONSTANTS
    p1 = p1
    p2 = p2
    Proc = {p1, p2}
    Inst = {1, 2, 3}
    MasterRoles <- Namenode
    SlaveRoles <- Datanode
    CG = "cluster"
    ClientPorts <- ClientPorts1
    InnerPorts <- InnerPorts1
    Numbers = {1, 2}
    MaxCommands = 3
    MaxFaults = 1
SYMMETRY Exchange
INVARIANTS TypeOK MastersPerProcess PendingIsWatched GroupIsReachable
           OrphansAreExplained SlavesFollowTheirMaster ClientPortsStayOpen
CHECK_DEADLOCK FALSE
