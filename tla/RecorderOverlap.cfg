\* Cron keeps polling beside a report; stopped instances stay stopped.
SPECIFICATION FairSpec
CONSTANTS
    i1 = i1
    i2 = i2
    q1 = q1
    q2 = q2
    cron = cron
    cron2 = cron2
    report = report
    Instance = {i1}
    SpotRequest = {q2}
    User <- MCUser
    Owner <- MCOwner
    KeyMatch <- MCKeyMatch
    Subject <- MCSubject
    Recorder = {cron, report}
    MayRestart = FALSE
    MaxTime = 2
    MaxAborts = 1
INVARIANTS TypeOK EndIsReal FinishedTimeCoversRun
PROPERTIES ClearedByStaleList EndsGetRecorded SpotTableConverges
