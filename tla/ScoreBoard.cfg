\* Two process ids, which is enough for a table full of children that are gone.
\* When stop() has returned, nothing more happens but a connection.
SPECIFICATION FairSpec
CONSTANTS
    Pid = {1, 2}
    start_servers = 1
    max_clients = 2
    max_requests_per_child = 2
    min_spare_servers = 1
    max_spare_servers = 1
    Batch = 1
    Capacity = 2
INVARIANTS TypeOK ChildrenAreKnown NoOrphans
PROPERTIES ConnectionsAreServed StopEnds
CHECK_DEADLOCK FALSE
