--------------------------- MODULE RecorderProofs ---------------------------
(***************************************************************************)
(* What the usage database says of the end of an instance, for any number  *)
(* of instances, requests, accounts and overlapping recorders.             *)
(***************************************************************************)
EXTENDS UsageRecorder, TLAPS

\* Every step keeps the variables within their ranges.
LEMMA TypeStep ==
  ASSUME TypeOK, [Next]_vars
  PROVE  TypeOK'
<1> USE RecorderAssumption DEF Time, States, Up, Over, NULL
<1> USE DEF vars, ec2Vars, dbVars, recVars
<1>1. CASE Tick
  <2>1. ran' \in [Instance -> Nat]
    BY <1>1 DEF Tick, TypeOK
  <2> QED
    BY <1>1, <2>1 DEF Tick, TypeOK
<1>2. ASSUME NEW i \in Instance, LaunchInstance(i)
      PROVE  TypeOK'
  BY <1>2 DEF LaunchInstance, Become, TypeOK
<1>3. ASSUME NEW i \in Instance, StopInstance(i)
      PROVE  TypeOK'
  BY <1>3 DEF StopInstance, Become, TypeOK
<1>4. ASSUME NEW i \in Instance, RestartInstance(i)
      PROVE  TypeOK'
  BY <1>4 DEF RestartInstance, Become, TypeOK
<1>5. ASSUME NEW i \in Instance, TerminateInstance(i)
      PROVE  TypeOK'
  BY <1>5 DEF TerminateInstance, Become, TypeOK
<1>6. ASSUME NEW i \in Instance, ForgetInstance(i)
      PROVE  TypeOK'
  BY <1>6 DEF ForgetInstance, Become, TypeOK
<1>7. ASSUME NEW q \in SpotRequest, SpotStep(q)
      PROVE  TypeOK'
  BY <1>7 DEF SpotStep, TypeOK
<1>8. ASSUME NEW r \in Recorder, FetchInstances(r)
      PROVE  TypeOK'
  <2>1. seen' \in [Recorder -> [Instance -> [state : States, launch : Time]]]
    BY <1>8 DEF FetchInstances, TypeOK, Unseen
  <2> QED
    BY <1>8, <2>1 DEF FetchInstances, TypeOK
<1>9. ASSUME NEW r \in Recorder, ReadClock(r)
      PROVE  TypeOK'
  BY <1>9 DEF ReadClock, TypeOK
<1>10. ASSUME NEW r \in Recorder, NEW i \in Instance, ImportInstance(r, i)
       PROVE  TypeOK'
  <2>1. seen' \in [Recorder -> [Instance -> [state : States, launch : Time]]]
    BY <1>10 DEF ImportInstance, TypeOK, Unseen
  <2>2. WrittenStart(r, i) \in Time /\ WrittenEnd(r, i) \in Time \cup {NULL}
    BY DEF WrittenStart, WrittenEnd, RecordsLife, TypeOK
  <2>3. start' \in [Instance -> Time \cup {NULL}] /\ end' \in [Instance -> Time \cup {NULL}]
    <3>1. start' \in [Instance -> Time \cup {NULL}]
      BY <1>10, <2>2 DEF ImportInstance, TypeOK
    <3>2. end' \in [Instance -> Time \cup {NULL}]
      BY <1>10, <2>2 DEF ImportInstance, TypeOK
    <3> QED
      BY <3>1, <3>2
  <2>4. stopOpen' \in SUBSET Instance
    BY <1>10 DEF ImportInstance, TypeOK
  <2> QED
    BY <1>10, <2>1, <2>3, <2>4 DEF ImportInstance, TypeOK
<1>11. ASSUME NEW r \in Recorder, Exit(r), pending' \in SUBSET SpotRequest,
              aborts' \in 0 .. MaxAborts
       PROVE  TypeOK'
  BY <1>11 DEF Exit, NothingSeen, Unseen, TypeOK
<1>12. ASSUME NEW r \in Recorder, NEW i \in Instance, ImportRaises(r, i)
       PROVE  TypeOK'
  BY <1>11, <1>12 DEF ImportRaises, TypeOK
<1>13. ASSUME NEW r \in Recorder, FetchSpotRequests(r)
       PROVE  TypeOK'
  BY <1>13 DEF FetchSpotRequests, Selected, TypeOK
<1>14. ASSUME NEW r \in Recorder, ReplaceSpotRequests(r)
       PROVE  TypeOK'
  <2>1. pending' \in SUBSET SpotRequest
    BY <1>14 DEF ReplaceSpotRequests, TypeOK
  <2> QED
    BY <1>11, <1>14, <2>1 DEF ReplaceSpotRequests, TypeOK
<1>15. ASSUME NEW r \in Recorder, Abort(r)
       PROVE  TypeOK'
  BY <1>11, <1>15 DEF Abort, TypeOK
<1>16. CASE UNCHANGED vars
  BY <1>16 DEF TypeOK
<1> QED
  BY <1>1, <1>2, <1>3, <1>4, <1>5, <1>6, <1>7, <1>8, <1>9, <1>10, <1>12, <1>13,
     <1>14, <1>15, <1>16 DEF Next, Ec2Step, Proceed

\* The type invariant.
THEOREM TypeCorrect == Spec => []TypeOK
<1>1. Init => TypeOK
  BY RecorderAssumption
     DEF Init, TypeOK, NothingSeen, Unseen, Time, States, Up, Over, NULL
<1>2. TypeOK /\ [Next]_vars => TypeOK'
  BY TypeStep
<1> QED
  BY <1>1, <1>2, PTL DEF Spec

-----------------------------------------------------------------------------
(* The end time is true *)

\* What a list that shows an instance as terminated knows: it had ended, and
\* had done so by the time the recorder read the clock.
ListIsReal ==
    \A r \in Recorder, i \in Instance :
        /\ seen[r][i].state \in States \ {"gone"}
        /\ seen[r][i].state = "terminated" =>
              /\ state[i] \in Over
              /\ term[i] <= clock
              /\ pc[r] = "importing" => term[i] <= now[r]

\* Recorders read the clock in the past.
ClockIsRead == \A r \in Recorder : now[r] <= clock

\* Instances ended in the past.
TermIsPast == \A i \in Instance : state[i] \in Over => term[i] <= clock

EndInv == EndIsReal /\ ListIsReal /\ ClockIsRead /\ TermIsPast

\* At the start nothing has ended, nothing is listed and nothing is recorded.
LEMMA EndInvInit == Init => EndInv
  BY DEF Init, EndInv, EndIsReal, ListIsReal, ClockIsRead, TermIsPast, NothingSeen, Unseen,
         Over, Up, States, NULL

\* The steps of EC2 and the clock.
LEMMA EndInvEc2 ==
  ASSUME TypeOK, EndInv, Ec2Step
  PROVE  EndInv'
<1> USE RecorderAssumption DEF Time, States, Up, Over, NULL
<1> USE DEF vars, ec2Vars, dbVars, recVars, EndInv, EndIsReal, ListIsReal, ClockIsRead,
            TermIsPast, TypeOK
<1>1. CASE Tick
  BY <1>1 DEF Tick
<1>2. ASSUME NEW i \in Instance, LaunchInstance(i)
      PROVE  EndInv'
  BY <1>2 DEF LaunchInstance, Become
<1>3. ASSUME NEW i \in Instance, StopInstance(i)
      PROVE  EndInv'
  BY <1>3 DEF StopInstance, Become
<1>4. ASSUME NEW i \in Instance, RestartInstance(i)
      PROVE  EndInv'
  BY <1>4 DEF RestartInstance, Become
<1>5. ASSUME NEW i \in Instance, TerminateInstance(i)
      PROVE  EndInv'
  BY <1>5 DEF TerminateInstance, Become
<1>6. ASSUME NEW i \in Instance, ForgetInstance(i)
      PROVE  EndInv'
  BY <1>6 DEF ForgetInstance, Become
<1>7. ASSUME NEW q \in SpotRequest, SpotStep(q)
      PROVE  EndInv'
  BY <1>7 DEF SpotStep
<1> QED
  BY <1>1, <1>2, <1>3, <1>4, <1>5, <1>6, <1>7 DEF Ec2Step

\* The steps of a recorder.
LEMMA EndInvRecorder ==
  ASSUME TypeOK, EndInv, NEW r \in Recorder, Proceed(r) \/ Abort(r)
  PROVE  EndInv'
<1> USE RecorderAssumption DEF Time, States, Up, Over, NULL
<1> USE DEF vars, ec2Vars, dbVars, recVars, EndInv, EndIsReal, ListIsReal, ClockIsRead,
            TermIsPast, TypeOK
<1>1. CASE FetchInstances(r)
  <2> DEFINE listed == Selected(r, {i \in Instance : state[i] \in Up \cup {"terminated"}})
  <2>1. ASSUME NEW i \in Instance
        PROVE  \/ seen'[r][i] = Unseen
               \/ /\ state[i] \in Up \cup {"terminated"}
                  /\ seen'[r][i] = [state |-> state[i], launch |-> launch[i]]
    BY <1>1 DEF FetchInstances, Selected
  <2>2. \A s \in Recorder : s # r => seen'[s] = seen[s] /\ pc'[s] = pc[s]
    BY <1>1 DEF FetchInstances
  <2>3. pc'[r] = "fetched" /\ UNCHANGED <<clock, state, term, end, now>>
    BY <1>1 DEF FetchInstances
  <2>4. ListIsReal'
    <3> SUFFICES ASSUME NEW s \in Recorder, NEW j \in Instance
                 PROVE  /\ seen'[s][j].state \in States \ {"gone"}
                        /\ seen'[s][j].state = "terminated" =>
                              /\ state'[j] \in Over
                              /\ term'[j] <= clock'
                              /\ pc'[s] = "importing" => term'[j] <= now'[s]
      OBVIOUS
    <3>1. CASE s # r
      BY <2>2, <2>3, <3>1
    <3>2. CASE s = r /\ seen'[r][j] = Unseen
      BY <3>2 DEF Unseen
    <3>3. CASE s = r /\ seen'[r][j] # Unseen
      <4>1. /\ state[j] \in Up \cup {"terminated"}
            /\ seen'[r][j] = [state |-> state[j], launch |-> launch[j]]
        BY <2>1, <3>3, Zenon
      <4>2. seen'[s][j].state = state[j]
        BY <3>3, <4>1
      <4> QED
        BY <2>3, <3>3, <4>1, <4>2
    <3> QED
      BY <3>1, <3>2, <3>3
  <2> QED
    BY <2>3, <2>4
<1>2. CASE ReadClock(r)
  BY <1>2 DEF ReadClock
<1>3. ASSUME NEW i \in Instance, ImportInstance(r, i)
      PROVE  EndInv'
  <2>1. WrittenEnd(r, i) # NULL => /\ state[i] \in Over
                                   /\ term[i] <= WrittenEnd(r, i)
                                   /\ WrittenEnd(r, i) <= clock
    BY <1>3 DEF WrittenEnd, RecordsEnd, RecordsLife, ImportInstance
  <2>2. \A j \in Instance : end'[j] = end[j] \/ (j = i /\ end'[j] = WrittenEnd(r, i))
    BY <1>3 DEF ImportInstance
  <2>3. UNCHANGED <<clock, state, term, now, pc>>
    BY <1>3 DEF ImportInstance
  <2>4. EndIsReal'
    BY <2>1, <2>2, <2>3
  <2>5. \A s \in Recorder, j \in Instance : seen'[s][j] \in {seen[s][j], Unseen}
    BY <1>3 DEF ImportInstance
  <2>6. ListIsReal'
    <3> SUFFICES ASSUME NEW s \in Recorder, NEW j \in Instance
                 PROVE  /\ seen'[s][j].state \in States \ {"gone"}
                        /\ seen'[s][j].state = "terminated" =>
                              /\ state'[j] \in Over
                              /\ term'[j] <= clock'
                              /\ pc'[s] = "importing" => term'[j] <= now'[s]
      OBVIOUS
    <3>1. CASE seen'[s][j] = Unseen
      BY <3>1 DEF Unseen
    <3>2. CASE seen'[s][j] = seen[s][j]
      BY <2>3, <3>2
    <3> QED
      BY <2>5, <3>1, <3>2
  <2> QED
    BY <2>3, <2>4, <2>6
<1>4. CASE Exit(r)
  BY <1>4 DEF Exit, NothingSeen, Unseen
<1>5. CASE FetchSpotRequests(r)
  BY <1>5 DEF FetchSpotRequests
<1> QED
  BY <1>1, <1>2, <1>3, <1>4, <1>5
     DEF Proceed, Abort, ImportRaises, ReplaceSpotRequests

\* A stutter keeps it.
LEMMA EndInvStutter ==
  ASSUME EndInv, UNCHANGED vars
  PROVE  EndInv'
  BY DEF vars, ec2Vars, dbVars, recVars, EndInv, EndIsReal, ListIsReal, ClockIsRead,
         TermIsPast

\* The invariant behind EndIsReal holds in every behaviour.
LEMMA EndInvHolds == Spec => []EndInv
<1>1. TypeOK /\ EndInv /\ [Next]_vars => EndInv'
  BY EndInvEc2, EndInvRecorder, EndInvStutter DEF Next
<1> QED
  BY <1>1, EndInvInit, TypeCorrect, PTL DEF Spec

\* An end time in the database is never made up, however the recorders overlap
\* and whatever is done to the instances.
THEOREM EndTimesAreReal == Spec => []EndIsReal
<1>1. EndInv => EndIsReal
  BY DEF EndInv
<1> QED
  BY <1>1, EndInvHolds, PTL

-----------------------------------------------------------------------------
(* How an end time gets lost *)

\* The only step that changes an end time is the import of that instance.
LEMMA EndChange ==
  ASSUME TypeOK, [Next]_vars, NEW i \in Instance, end'[i] # end[i]
  PROVE  \E r \in Recorder : ImportInstance(r, i) /\ WritesRow(r, i)
                             /\ end'[i] = WrittenEnd(r, i)
<1> USE DEF vars, ec2Vars, dbVars, recVars
<1>1. ~ Ec2Step
  BY DEF Ec2Step, Tick, LaunchInstance, StopInstance, RestartInstance,
         TerminateInstance, ForgetInstance, SpotStep, Become
<1>2. PICK r \in Recorder : Proceed(r) \/ Abort(r)
  BY <1>1 DEF Next
<1>3. PICK j \in Instance : ImportInstance(r, j)
  BY <1>2 DEF Proceed, FetchInstances, ReadClock, ImportRaises, FetchSpotRequests,
              ReplaceSpotRequests, Abort, Exit
<1>4. j = i /\ WritesRow(r, j)
  BY <1>3 DEF ImportInstance, TypeOK
<1> QED
  BY <1>3, <1>4 DEF ImportInstance, TypeOK

\* An end time is lost only to a list that is older than the end.
THEOREM EndsAreClearedByStaleLists == Spec => ClearedByStaleList
<1>1. TypeOK /\ EndInv /\ [Next]_vars =>
        [\A i \in Instance :
            end[i] # NULL /\ end'[i] = NULL =>
               \E r \in Recorder : i \in Todo(r) /\ seen[r][i].state \in Up
                                   /\ state[i] \in Over]_vars
  <2> SUFFICES ASSUME TypeOK, EndInv, [Next]_vars,
                      NEW i \in Instance, end[i] # NULL, end'[i] = NULL
               PROVE  \E r \in Recorder : i \in Todo(r) /\ seen[r][i].state \in Up
                                          /\ state[i] \in Over
    OBVIOUS
  <2>1. PICK r \in Recorder : /\ ImportInstance(r, i) /\ WritesRow(r, i)
                              /\ end'[i] = WrittenEnd(r, i)
    BY EndChange
  <2>2. i \in Todo(r)
    BY <2>1 DEF ImportInstance
  <2>3. seen[r][i].state # "terminated"
    BY <2>1 DEF WritesRow, RecordsEnd, RecordsLife
  <2>4. seen[r][i].state \in Up
    BY <2>2, <2>3 DEF EndInv, ListIsReal, Todo, States, Up, Over
  <2>5. state[i] \in Over
    BY DEF EndInv, EndIsReal
  <2> QED
    BY <2>2, <2>4, <2>5
<1> QED
  BY <1>1, TypeCorrect, EndInvHolds, PTL DEF Spec, ClearedByStaleList

-----------------------------------------------------------------------------
(* Recorders that do not overlap on any instance *)

\* No instance is on the lists of two recorders.
Apart == \A r, s \in Recorder : r # s => Selected(r, Instance) \cap Selected(s, Instance) = {}

\* A recorder lists what its filter selects, and nothing that has an end time
\* except as terminated.
ListIsFresh ==
    \A r \in Recorder, i \in Instance :
        i \in Todo(r) => /\ i \in Selected(r, Instance)
                         /\ end[i] # NULL => seen[r][i].state = "terminated"

\* One step of any process keeps the lists fresh.
LEMMA FreshStep ==
  ASSUME Apart, TypeOK, EndInv, ListIsFresh, [Next]_vars
  PROVE  ListIsFresh'
<1> USE DEF vars, ec2Vars, dbVars, recVars
<1> SUFFICES ASSUME NEW r \in Recorder, NEW i \in Instance, i \in Todo(r)'
             PROVE  /\ i \in Selected(r, Instance)
                    /\ end'[i] # NULL => seen'[r][i].state = "terminated"
  BY DEF ListIsFresh, Selected
\* Either the entry is an old one, or r has just fetched it.
<1>1. \/ seen'[r][i] = seen[r][i]
      \/ FetchInstances(r)
  <2>1. seen'[r][i] # Unseen
    BY DEF Todo, Unseen
  <2>2. CASE Ec2Step
    BY <2>2 DEF Ec2Step, Tick, LaunchInstance, StopInstance, RestartInstance,
                TerminateInstance, ForgetInstance, SpotStep, Become
  <2>3. ASSUME NEW s \in Recorder, Proceed(s) \/ Abort(s)
        PROVE  seen'[r][i] = seen[r][i] \/ FetchInstances(r)
    <3>1. CASE FetchInstances(s)
      BY <3>1 DEF FetchInstances, TypeOK
    <3>2. ASSUME NEW j \in Instance, ImportInstance(s, j)
          PROVE  seen'[r][i] = seen[r][i]
      BY <2>1, <3>2 DEF ImportInstance, TypeOK
    <3>3. CASE Exit(s)
      BY <2>1, <3>3 DEF Exit, NothingSeen, TypeOK
    <3> QED
      BY <2>3, <3>1, <3>2, <3>3 DEF Proceed, Abort, ReadClock, ImportRaises,
                                    FetchSpotRequests, ReplaceSpotRequests
  <2> QED
    BY <2>2, <2>3 DEF Next
<1>2. CASE FetchInstances(r)
  <2>1. /\ i \in Selected(r, {j \in Instance : state[j] \in Up \cup {"terminated"}})
        /\ seen'[r][i] = [state |-> state[i], launch |-> launch[i]]
    <3>1. seen'[r][i].state # "unborn"
      BY DEF Todo
    <3> QED
      BY <1>2, <3>1 DEF FetchInstances, Unseen, TypeOK
  <2>2. end' = end
    BY <1>2 DEF FetchInstances
  <2>3. end[i] # NULL => state[i] = "terminated"
    BY <2>1 DEF EndInv, EndIsReal, Selected, Over, Up
  <2>4. i \in Selected(r, Instance)
    BY <2>1 DEF Selected
  <2> QED
    BY <2>1, <2>2, <2>3, <2>4
<1>3. CASE seen'[r][i] = seen[r][i]
  <2>1. i \in Todo(r)
    BY <1>3 DEF Todo
  <2>2. CASE end'[i] = end[i]
    BY <1>3, <2>1, <2>2 DEF ListIsFresh
  <2>3. CASE end'[i] # end[i]
    <3>1. PICK s \in Recorder : ImportInstance(s, i)
      BY <2>3, EndChange
    <3>2. s = r
      BY <2>1, <3>1 DEF ImportInstance, ListIsFresh, Apart
    <3>3. seen'[r][i] = Unseen
      BY <3>1, <3>2 DEF ImportInstance, TypeOK
    <3> QED
      BY <3>3 DEF Todo, Unseen
  <2> QED
    BY <2>2, <2>3
<1> QED
  BY <1>1, <1>2, <1>3

\* Recorders that share no instance always work from fresh lists.
LEMMA FreshHolds ==
  ASSUME Apart
  PROVE  Spec => []ListIsFresh
<1>1. Init => ListIsFresh
  BY DEF Init, ListIsFresh, Todo, NothingSeen, Unseen
<1>2. TypeOK /\ EndInv /\ ListIsFresh /\ [Next]_vars => ListIsFresh'
  BY FreshStep
<1> QED
  BY <1>1, <1>2, TypeCorrect, EndInvHolds, PTL DEF Spec

\* An instance is over once TerminateInstance has happened, and stays over.
LEMMA OverStep ==
  ASSUME TypeOK, [Next]_vars
  PROVE  LET over == {i \in Instance : state[i] \in Over}
         IN  \/ over' = over
             \/ end' = end /\ \E i \in Instance \ over : over' = over \cup {i}
<1> DEFINE over == {i \in Instance : state[i] \in Over}
<1> USE DEF vars, ec2Vars, dbVars, recVars
<1>1. ASSUME NEW i \in Instance, TerminateInstance(i)
      PROVE  end' = end /\ i \notin over /\ over' = over \cup {i}
  BY <1>1 DEF TerminateInstance, Become, TypeOK, Over, Up
<1>2. ASSUME NEW i \in Instance,
             LaunchInstance(i) \/ StopInstance(i) \/ RestartInstance(i) \/ ForgetInstance(i)
      PROVE  over' = over
  BY <1>2 DEF LaunchInstance, StopInstance, RestartInstance, ForgetInstance, Become,
              TypeOK, Over, Up
<1>3. Tick \/ (\E q \in SpotRequest : SpotStep(q)) => over' = over
  BY DEF Tick, SpotStep
<1>4. (\E r \in Recorder : Proceed(r) \/ Abort(r)) => over' = over
  BY DEF Proceed, Abort, Exit, FetchInstances, ReadClock, ImportInstance, ImportRaises,
         FetchSpotRequests, ReplaceSpotRequests
<1>5. UNCHANGED vars => over' = over
  OBVIOUS
<1> QED
  BY <1>1, <1>2, <1>3, <1>4, <1>5 DEF Next, Ec2Step

\* As long as no two recorders list the same instance, an end time is final:
\* the database implements the ledger.
THEOREM DatabaseIsLedger ==
  ASSUME Apart
  PROVE  Spec => LedgerRefined
<1>1. Init => L!LedgerInit
  BY DEF Init, L!LedgerInit, Over, NULL, L!Unrecorded
<1>2. TypeOK /\ EndInv /\ ListIsFresh /\ [Next]_vars => [L!LedgerNext]_L!ledgerVars
  <2> DEFINE over == {i \in Instance : state[i] \in Over}
  <2> SUFFICES ASSUME TypeOK, EndInv, ListIsFresh, [Next]_vars
               PROVE  [L!LedgerNext]_L!ledgerVars
    OBVIOUS
  <2>1. CASE over' # over
    <3>1. end' = end /\ \E i \in Instance \ over : over' = over \cup {i}
      BY <2>1, OverStep
    <3> QED
      BY <3>1 DEF L!LedgerNext, L!End
  <2>2. CASE over' = over /\ end' = end
    BY <2>2 DEF L!ledgerVars
  <2>3. CASE over' = over /\ end' # end
    <3>1. PICK i \in Instance : end'[i] # end[i]
      <4>1. end \in [Instance -> Time \cup {NULL}] /\ end' \in [Instance -> Time \cup {NULL}]
        BY TypeStep DEF TypeOK
      <4> QED
        BY <2>3, <4>1
    <3>2. PICK r \in Recorder : /\ ImportInstance(r, i) /\ WritesRow(r, i)
                                /\ end'[i] = WrittenEnd(r, i)
      BY <3>1, EndChange
    <3>3. seen[r][i].state = "terminated" \/ end[i] = NULL
      BY <3>2 DEF ListIsFresh, ImportInstance
    <3>4. seen[r][i].state = "terminated"
      BY <3>1, <3>2, <3>3 DEF WrittenEnd, RecordsEnd, RecordsLife
    <3>5. end[i] = NULL /\ end'[i] \in Nat /\ i \in over
      BY <3>2, <3>4 DEF WritesRow, WrittenEnd, RecordsEnd, RecordsLife, TypeOK, Time, EndInv, ListIsReal
    <3>6. end' = [end EXCEPT ![i] = end'[i]]
      BY <3>2 DEF ImportInstance, TypeOK
    <3> QED
      BY <2>3, <3>5, <3>6 DEF L!LedgerNext, L!Record, L!Unrecorded, NULL
  <2> QED
    BY <2>1, <2>2, <2>3
<1> QED
  BY <1>1, <1>2, TypeCorrect, EndInvHolds, FreshHolds, PTL
     DEF Spec, LedgerRefined, L!LedgerSpec

-----------------------------------------------------------------------------
(* The charged time *)

\* An instance cannot have run for longer than it has existed.
RanInLife ==
    \A i \in Instance :
        /\ state[i] = "unborn" => ran[i] = 0
        /\ state[i] \in Up => ran[i] <= clock - launch[i]
        /\ state[i] \in Over => ran[i] <= term[i] - launch[i]

\* Without restarts there is one launch time, on every list and in the table.
OneLaunch ==
    \A i \in Instance :
        /\ \A r \in Recorder :
              i \in Todo(r) => seen[r][i].launch = launch[i] /\ state[i] # "unborn"
        /\ end[i] # NULL => start[i] = launch[i] /\ state[i] # "unborn"

ChargeInv == RanInLife /\ OneLaunch

\* EC2 and the clock keep it: time runs for what is running, and ends once.
LEMMA ChargeEc2 ==
  ASSUME ~ MayRestart, TypeOK, EndInv, ChargeInv, Ec2Step
  PROVE  ChargeInv'
<1> USE DEF vars, ec2Vars, dbVars, recVars, ChargeInv, RanInLife, OneLaunch, Todo,
            Time, Up, Over, States, NULL, TypeOK
<1>1. CASE Tick
  BY <1>1 DEF Tick
<1>2. ASSUME NEW i \in Instance, LaunchInstance(i)
      PROVE  ChargeInv'
  BY <1>2 DEF LaunchInstance, Become
<1>3. ASSUME NEW i \in Instance, StopInstance(i)
      PROVE  ChargeInv'
  BY <1>3 DEF StopInstance, Become
<1>4. ASSUME NEW i \in Instance, RestartInstance(i)
      PROVE  ChargeInv'
  BY <1>4 DEF RestartInstance
<1>5. ASSUME NEW i \in Instance, TerminateInstance(i)
      PROVE  ChargeInv'
  BY <1>5 DEF TerminateInstance, Become
<1>6. ASSUME NEW i \in Instance, ForgetInstance(i)
      PROVE  ChargeInv'
  BY <1>6 DEF ForgetInstance, Become
<1>7. ASSUME NEW q \in SpotRequest, SpotStep(q)
      PROVE  ChargeInv'
  BY <1>7 DEF SpotStep
<1> QED
  BY <1>1, <1>2, <1>3, <1>4, <1>5, <1>6, <1>7 DEF Ec2Step

\* A recorder keeps it: it only copies launch times and clock readings.
LEMMA ChargeRecorder ==
  ASSUME TypeOK, ChargeInv, NEW r \in Recorder, Proceed(r) \/ Abort(r)
  PROVE  ChargeInv'
<1> USE DEF vars, ec2Vars, dbVars, recVars
<1>1. RanInLife'
  BY DEF ChargeInv, RanInLife, Proceed, Abort, Exit, FetchInstances, ReadClock,
         ImportInstance, ImportRaises, FetchSpotRequests, ReplaceSpotRequests
\* Every entry of every list is an old one or has just been fetched.
<1>2. ASSUME NEW s \in Recorder, NEW i \in Instance
      PROVE  \/ seen'[s][i] \in {seen[s][i], Unseen}
             \/ /\ seen'[s][i] = [state |-> state[i], launch |-> launch[i]]
                /\ state[i] # "unborn"
  <2>1. CASE FetchInstances(r)
    <3>1. CASE s = r
      BY <2>1, <3>1 DEF FetchInstances, Selected, Up, TypeOK
    <3>2. CASE s # r
      BY <2>1, <3>2 DEF FetchInstances, TypeOK
    <3> QED
      BY <3>1, <3>2
  <2>2. ASSUME NEW j \in Instance, ImportInstance(r, j)
        PROVE  seen'[s][i] \in {seen[s][i], Unseen}
    BY <2>2 DEF ImportInstance, TypeOK
  <2>3. CASE Exit(r)
    BY <2>3 DEF Exit, NothingSeen, TypeOK
  <2> QED
    BY <2>1, <2>2, <2>3 DEF Proceed, Abort, ReadClock, ImportRaises,
                            FetchSpotRequests, ReplaceSpotRequests
<1>3. launch' = launch /\ state' = state
  BY DEF Proceed, Abort, Exit, FetchInstances, ReadClock, ImportInstance, ImportRaises,
         FetchSpotRequests, ReplaceSpotRequests
<1>4. ASSUME NEW s \in Recorder, NEW i \in Instance, i \in Todo(s)'
      PROVE  seen'[s][i].launch = launch'[i] /\ state'[i] # "unborn"
  <2>1. CASE seen'[s][i] = Unseen
    BY <1>4, <2>1 DEF Todo, Unseen
  <2>2. CASE seen'[s][i] = seen[s][i]
    BY <1>3, <1>4, <2>2 DEF Todo, ChargeInv, OneLaunch
  <2>3. CASE /\ seen'[s][i] = [state |-> state[i], launch |-> launch[i]]
             /\ state[i] # "unborn"
    BY <1>3, <2>3
  <2> QED
    BY <1>2, <2>1, <2>2, <2>3
<1>5. ASSUME NEW i \in Instance, end'[i] # NULL
      PROVE  start'[i] = launch'[i] /\ state'[i] # "unborn"
  <2>1. CASE UNCHANGED <<start, end>>
    BY <1>3, <1>5, <2>1 DEF ChargeInv, OneLaunch
  <2>2. ASSUME NEW j \in Instance, ImportInstance(r, j)
        PROVE  start'[i] = launch'[i] /\ state'[i] # "unborn"
    <3>1. seen[r][j].launch = launch[j] /\ state[j] # "unborn"
      BY <2>2 DEF ImportInstance, ChargeInv, OneLaunch
    <3>2. CASE i = j /\ WritesRow(r, j)
      BY <1>3, <2>2, <3>1, <3>2 DEF ImportInstance, WrittenStart, TypeOK
    <3>3. CASE ~ (i = j /\ WritesRow(r, j))
      <4>1. start'[i] = start[i] /\ end'[i] = end[i]
        BY <2>2, <3>3 DEF ImportInstance, TypeOK
      <4> QED
        BY <1>3, <1>5, <4>1 DEF ChargeInv, OneLaunch
    <3> QED
      BY <3>2, <3>3
  <2> QED
    BY <2>1, <2>2 DEF Proceed, Abort, Exit, FetchInstances, ReadClock, ImportRaises,
                      FetchSpotRequests, ReplaceSpotRequests
<1> QED
  BY <1>1, <1>4, <1>5 DEF ChargeInv, OneLaunch

\* As long as stopped instances are not restarted, a finished instance is
\* charged for no less than the time it ran, whatever lists were imported when.
THEOREM FinishedTimeIsEnough ==
  ASSUME ~ MayRestart
  PROVE  Spec => []FinishedTimeCoversRun
<1>1. Init => ChargeInv
  BY DEF Init, ChargeInv, RanInLife, OneLaunch, Todo, NothingSeen, Unseen, Up, Over
<1>2. TypeOK /\ EndInv /\ ChargeInv /\ [Next]_vars => ChargeInv'
  <2>1. ChargeInv /\ UNCHANGED vars => ChargeInv'
    BY DEF vars, ec2Vars, dbVars, recVars, ChargeInv, RanInLife, OneLaunch, Todo
  <2> QED
    BY <2>1, ChargeEc2, ChargeRecorder DEF Next
<1>3. TypeOK /\ EndInv /\ ChargeInv => FinishedTimeCoversRun
  <2> SUFFICES ASSUME TypeOK, EndInv, ChargeInv, NEW i \in Instance, end[i] # NULL
               PROVE  end[i] - start[i] >= ran[i]
    BY DEF FinishedTimeCoversRun, FinishedTime
  <2>1. start[i] = launch[i] /\ state[i] \in Over /\ term[i] <= end[i]
    BY DEF ChargeInv, OneLaunch, EndInv, EndIsReal
  <2>2. ran[i] <= term[i] - launch[i]
    BY <2>1 DEF ChargeInv, RanInLife
  <2> QED
    BY <2>1, <2>2 DEF TypeOK, Time, NULL
<1> QED
  BY <1>1, <1>2, <1>3, TypeCorrect, EndInvHolds, PTL DEF Spec
=============================================================================
