\* Three processes, two faults.  A behaviour may stop: nobody has to ask for
\* another rotation, and the keys are bounded.
SPECIFICATION FairSpec
CONSTANTS
    k0 = k0
    k1 = k1
    k2 = k2
    k3 = k3
    k4 = k4
    k5 = k5
    k6 = k6
    Util = {u1, u2, u3}
    Key = {k0, k1, k2, k3, k4, k5, k6}
    FirstKey = k0
    MaxFaults = 2
INVARIANTS TypeOK RecordedKeysWork WorkingKeysAreRecorded OneKeyPerProcess
           NeverLockedOut
PROPERTY RotationsConverge
CHECK_DEADLOCK FALSE
