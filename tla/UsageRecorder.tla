--------------------------- MODULE UsageRecorder ---------------------------
(***************************************************************************)
(* The usage database: update_instances and update_spot_requests of        *)
(* ec2-wrappers/record_usage.py, run by the cron job (usage_cron.py) and   *)
(* by reports on one account (user_report), against a database they share  *)
(* and an EC2 whose instances start, stop, restart and end meanwhile.      *)
(*                                                                         *)
(* A recorder fetches a list of instances, reads the clock, and imports    *)
(* the instances one transaction at a time; then it fetches the spot       *)
(* requests and replaces the table of pending ones in one transaction.     *)
(* What it imports is what it fetched, however old that is by then.        *)
(*                                                                         *)
(* Times are ticks of a bounded clock.  The columns last_seen, is_spot and *)
(* instance_type are left out: no guard and no hour depends on them.       *)
(***************************************************************************)
EXTENDS Integers, FiniteSets

CONSTANTS Instance,    \* the instances that may be launched
          SpotRequest, \* the spot requests that may be made
          User,        \* accounts that a report is about
          Owner,       \* Owner[x]: user_from_key of the key of x
          KeyMatch,    \* KeyMatch[u]: what the filter "<u>*" selects
          Recorder,    \* the processes that update the database
          Subject,     \* Subject[r]: the account r reports on, or "everyone"
          MayRestart,  \* whether stopped instances are started again
          MaxTime,     \* bound: the last tick of the clock
          MaxAborts    \* bound: recorders killed or refused in a behaviour

ASSUME RecorderAssumption ==
    /\ Owner \in [Instance \cup SpotRequest -> User]
    /\ KeyMatch \in [User -> SUBSET (Instance \cup SpotRequest)]
    /\ Subject \in [Recorder -> User \cup {"everyone"}]
    /\ MayRestart \in BOOLEAN
    /\ MaxTime \in Nat
    /\ MaxAborts \in Nat

VARIABLES clock,      \* the time
          state,      \* state[i]: where instance i is in its life at EC2
          launch,     \* launch[i]: EC2's launch_time
          ran,        \* ran[i]: ticks that i has been running, in all
          term,       \* term[i]: when i terminated
          reqState,   \* reqState[q]: where spot request q is
          start,      \* instances.start_time, NULL where there is no row
          end,        \* instances.end_time
          stopOpen,   \* instances with an instance_stopped row whose
                      \* running_time is NULL
          pending,    \* the rows of pending_spot_requests
          pc,         \* pc[r]: where recorder r is
          seen,       \* seen[r]: what r fetched and has not imported yet
          now,        \* now[r]: r's variable `now'
          reqs,       \* reqs[r]: the fetched open spot requests
          aborts      \* recorders killed or refused so far

ec2Vars == <<state, launch, ran, term>>
dbVars  == <<start, end, stopOpen>>
recVars == <<pc, seen, now, reqs>>
vars    == <<clock, ec2Vars, reqState, dbVars, pending, recVars, aborts>>

NULL == -1
Time == 0 .. MaxTime

\* pending, running, stopping and shutting-down are alike to the code.
Up     == {"running", "stopped"}
Over   == {"terminated", "gone"}
States == {"unborn"} \cup Up \cup Over

\* What the filter of recorder r selects of a set of instances or requests.
Selected(r, S) == IF Subject[r] = "everyone" THEN S ELSE S \cap KeyMatch[Subject[r]]

Unseen == [state |-> "unborn", launch |-> 0]
NothingSeen == [i \in Instance |-> Unseen]

\* The instances of r's list that are still to import.
Todo(r) == {i \in Instance : seen[r][i].state # "unborn"}

Init == /\ clock = 0
        /\ state = [i \in Instance |-> "unborn"]
        /\ launch = [i \in Instance |-> 0]
        /\ ran = [i \in Instance |-> 0]
        /\ term = [i \in Instance |-> 0]
        /\ reqState = [q \in SpotRequest |-> "unborn"]
        /\ start = [i \in Instance |-> NULL]
        /\ end = [i \in Instance |-> NULL]
        /\ stopOpen = {}
        /\ pending = {}
        /\ pc = [r \in Recorder |-> "idle"]
        /\ seen = [r \in Recorder |-> NothingSeen]
        /\ now = [r \in Recorder |-> 0]
        /\ reqs = [r \in Recorder |-> {}]
        /\ aborts = 0

-----------------------------------------------------------------------------
(* EC2 and the clock *)

Tick == /\ clock < MaxTime
        /\ clock' = clock + 1
        /\ ran' = [i \in Instance |-> IF state[i] = "running" THEN ran[i] + 1 ELSE ran[i]]
        /\ UNCHANGED <<state, launch, term, reqState, dbVars, pending, recVars, aborts>>

\* An instance moves from one of the states `from' to `to'.
Become(i, from, to) ==
    /\ state[i] \in from
    /\ state' = [state EXCEPT ![i] = to]
    /\ UNCHANGED <<clock, ran, reqState, dbVars, pending, recVars, aborts>>

LaunchInstance(i) == /\ Become(i, {"unborn"}, "running")
                     /\ launch' = [launch EXCEPT ![i] = clock]
                     /\ UNCHANGED term

StopInstance(i) == /\ Become(i, {"running"}, "stopped")
                   /\ UNCHANGED <<launch, term>>

\* EC2 gives a restarted instance a new launch time.
RestartInstance(i) == /\ MayRestart
                      /\ Become(i, {"stopped"}, "running")
                      /\ launch' = [launch EXCEPT ![i] = clock]
                      /\ UNCHANGED term

TerminateInstance(i) == /\ Become(i, Up, "terminated")
                        /\ term' = [term EXCEPT ![i] = clock]
                        /\ UNCHANGED launch

\* After an hour EC2 no longer lists a terminated instance.
ForgetInstance(i) == /\ Become(i, {"terminated"}, "gone")
                     /\ UNCHANGED <<launch, term>>

SpotStep(q) ==
    /\ \/ reqState[q] = "unborn" /\ reqState' = [reqState EXCEPT ![q] = "open"]
       \/ reqState[q] = "open" /\ reqState' = [reqState EXCEPT ![q] = "closed"]
    /\ UNCHANGED <<clock, ec2Vars, dbVars, pending, recVars, aborts>>

-----------------------------------------------------------------------------
(* The recorders *)

\* update_instances: get_all_instances answers.  The list still shows the
\* terminated instances, and no longer the ones that are gone.
FetchInstances(r) ==
    /\ pc[r] = "idle"
    /\ pc' = [pc EXCEPT ![r] = "fetched"]
    /\ LET listed == Selected(r, {i \in Instance : state[i] \in Up \cup {"terminated"}})
       IN  seen' = [seen EXCEPT ![r] =
                      [i \in Instance |->
                         IF i \in listed THEN [state |-> state[i], launch |-> launch[i]]
                                         ELSE Unseen]]
    /\ UNCHANGED <<clock, ec2Vars, reqState, dbVars, pending, now, reqs, aborts>>

\* now = datetime.datetime.utcnow(), once for the whole list.
ReadClock(r) ==
    /\ pc[r] = "fetched"
    /\ pc' = [pc EXCEPT ![r] = "importing"]
    /\ now' = [now EXCEPT ![r] = clock]
    /\ UNCHANGED <<clock, ec2Vars, reqState, dbVars, pending, seen, reqs, aborts>>

\* The statement that closes an instance_stopped row, which SQLite does not
\* accept (SET must come before WHERE).
ClosesStop(r, i) == seen[r][i].state = "running" /\ i \in stopOpen

\* The guards of the two INSERT OR REPLACE statements: a terminated instance
\* is recorded when no end time is there yet, any other instance always.
RecordsEnd(r, i) == seen[r][i].state = "terminated" /\ end[i] = NULL

RecordsLifeMutant(r, i) == ~ RecordsEnd(r, i)
RecordsLife(r, i) == seen[r][i].state # "terminated"

WritesRowMutant(r, i) == TRUE
WritesRowKnownMutant(r, i) == (RecordsEnd(r, i) /\ start[i] # NULL) \/ RecordsLife(r, i)

\* Whether the row of i is written.
WritesRow(r, i) == RecordsEnd(r, i) \/ RecordsLife(r, i)

WrittenEndMutant(r, i) == IF seen[r][i].state = "running" THEN NULL ELSE now[r]
WrittenEndLateMutant(r, i) == IF RecordsLife(r, i) THEN NULL ELSE now[r] + 1

\* The end_time of the row that is left: the second statement, without an
\* end_time, puts the default, NULL, there.
WrittenEnd(r, i) == IF RecordsLife(r, i) THEN NULL ELSE now[r]

WrittenStartMutant(r, i) == now[r]

\* Its start_time is the launch time in the list.
WrittenStart(r, i) == seen[r][i].launch

\* One instance, one transaction.
ImportInstance(r, i) ==
    /\ pc[r] = "importing"
    /\ i \in Todo(r)
    /\ ~ ClosesStop(r, i)
    /\ IF WritesRow(r, i)
         THEN /\ start' = [start EXCEPT ![i] = WrittenStart(r, i)]
              /\ end' = [end EXCEPT ![i] = WrittenEnd(r, i)]
         ELSE UNCHANGED <<start, end>>
    /\ stopOpen' = IF seen[r][i].state = "stopped" THEN stopOpen \cup {i} ELSE stopOpen
    /\ seen' = [seen EXCEPT ![r][i] = Unseen]
    /\ UNCHANGED <<clock, ec2Vars, reqState, pending, pc, now, reqs, aborts>>

\* The process is over, and with it its variables.
Exit(r) == /\ pc' = [pc EXCEPT ![r] = "idle"]
           /\ seen' = [seen EXCEPT ![r] = NothingSeen]
           /\ now' = [now EXCEPT ![r] = 0]
           /\ reqs' = [reqs EXCEPT ![r] = {}]
           /\ UNCHANGED <<clock, ec2Vars, reqState, dbVars>>

\* The statement that is not SQL raises, and nothing catches it: the open
\* transaction is rolled back, the rest of the list and the spot requests are
\* not imported.
ImportRaises(r, i) ==
    /\ pc[r] = "importing"
    /\ i \in Todo(r)
    /\ ClosesStop(r, i)
    /\ Exit(r)
    /\ UNCHANGED <<pending, aborts>>

\* update_spot_requests: get_all_spot_instance_requests answers.
FetchSpotRequests(r) ==
    /\ pc[r] = "importing"
    /\ Todo(r) = {}
    /\ pc' = [pc EXCEPT ![r] = "replacing"]
    /\ reqs' = [reqs EXCEPT ![r] =
                  Selected(r, {q \in SpotRequest : reqState[q] = "open"})]
    /\ UNCHANGED <<clock, ec2Vars, reqState, dbVars, pending, seen, now, aborts>>

DeletedMutant(r) == {}

\* The rows deleted first: a report deletes those of its own account only,
\* although its filter may have selected requests of longer account names.
Deleted(r) == IF Subject[r] = "everyone" THEN pending
              ELSE {q \in pending : Owner[q] = Subject[r]}

\* One transaction deletes and inserts; then the process is done.
ReplaceSpotRequests(r) ==
    /\ pc[r] = "replacing"
    /\ pending' = (pending \ Deleted(r)) \cup reqs[r]
    /\ Exit(r)
    /\ UNCHANGED aborts

\* The process is killed, EC2 refuses a call, or SQLite reports a lock.
Abort(r) == /\ pc[r] # "idle"
            /\ aborts < MaxAborts
            /\ aborts' = aborts + 1
            /\ Exit(r)
            /\ UNCHANGED pending

-----------------------------------------------------------------------------

Ec2Step == \/ Tick
           \/ \E i \in Instance : \/ LaunchInstance(i) \/ StopInstance(i)
                                  \/ RestartInstance(i) \/ TerminateInstance(i)
                                  \/ ForgetInstance(i)
           \/ \E q \in SpotRequest : SpotStep(q)

\* The steps of a recorder that nothing disturbs.
Proceed(r) == \/ FetchInstances(r) \/ ReadClock(r)
              \/ \E i \in Instance : ImportInstance(r, i) \/ ImportRaises(r, i)
              \/ FetchSpotRequests(r) \/ ReplaceSpotRequests(r)

Next == \/ Ec2Step
        \/ \E r \in Recorder : Proceed(r) \/ Abort(r)

Spec == Init /\ [][Next]_vars

\* cron starts update after update, and a process that runs gets on; reports
\* run when somebody asks, and nothing at EC2 has to happen.
Cron == {r \in Recorder : Subject[r] = "everyone"}

FairSpec == Spec /\ \A r \in Cron : WF_vars(Proceed(r))

-----------------------------------------------------------------------------

\* The values the variables range over; a list that is not empty belongs to a
\* process that runs.
TypeOK ==
    /\ clock \in Time
    /\ state \in [Instance -> States]
    /\ launch \in [Instance -> Time]
    /\ ran \in [Instance -> Nat]
    /\ term \in [Instance -> Time]
    /\ reqState \in [SpotRequest -> {"unborn", "open", "closed"}]
    /\ start \in [Instance -> Time \cup {NULL}]
    /\ end \in [Instance -> Time \cup {NULL}]
    /\ stopOpen \in SUBSET Instance
    /\ pending \in SUBSET SpotRequest
    /\ pc \in [Recorder -> {"idle", "fetched", "importing", "replacing"}]
    /\ seen \in [Recorder -> [Instance -> [state : States, launch : Time]]]
    /\ now \in [Recorder -> Time]
    /\ reqs \in [Recorder -> SUBSET SpotRequest]
    /\ aborts \in 0 .. MaxAborts

\* An end time in the database is true: the instance had ended when it was
\* recorded, by a list and a clock that the recorder read in that order.
EndIsReal == \A i \in Instance :
                end[i] # NULL => state[i] \in Over /\ term[i] <= end[i] /\ end[i] <= clock

\* The view finished_instance_times: the time between start_time and end_time.
\* The stopped hours it subtracts are 0 throughout, because running_time, the
\* end of a stop, is never set (see ClosesStop).
FinishedTime(i) == end[i] - start[i]

\* A finished instance is charged for at least the time it ran.
FinishedTimeCoversRun == \A i \in Instance : end[i] # NULL => FinishedTime(i) >= ran[i]

\* An end time that is in the database goes away only when a recorder imports
\* a list that was fetched before the instance ended.
ClearedByStaleList ==
    [][\A i \in Instance :
          end[i] # NULL /\ end'[i] = NULL =>
             \E r \in Recorder : i \in Todo(r) /\ seen[r][i].state \in Up
                                 /\ state[i] \in Over]_vars

\* The database as a ledger of ends.
L == INSTANCE Ledger WITH over <- {i \in Instance : state[i] \in Over}, ended <- end

\* An end time is recorded once and is final ("We can safely import each
\* instance as a transaction", record_usage.py).
LedgerRefined == L!LedgerSpec

\* As long as the cron job keeps polling, an instance that ends and is listed
\* as terminated long enough is in the end recorded as ended for good.
EndsGetRecorded == \A i \in Instance : <>[](state[i] = "terminated" => end[i] # NULL)

\* The table of pending spot requests comes to agree with EC2, although every
\* recorder replaces its part of it from a list that may be old.
SpotTableConverges ==
    <>[](pending = {q \in SpotRequest : reqState[q] = "open"})
=============================================================================
