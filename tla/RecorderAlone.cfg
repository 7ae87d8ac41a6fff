\* One recorder at a time; instances may be restarted.
SPECIFICATION Spec
CONSTANTS
    i1 = i1
    i2 = i2
    q1 = q1
    q2 = q2
    cron = cron
    cron2 = cron2
    report = report
    Instance = {i1, i2}
    SpotRequest = {}
    User <- MCUser
    Owner <- MCOwner
    KeyMatch <- MCKeyMatch
    Subject <- MCSubject
    Recorder = {cron}
    MayRestart = TRUE
    MaxTime = 2
    MaxAborts = 0
PROPERTY LedgerRefined
