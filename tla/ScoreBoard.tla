---------------------------- MODULE ScoreBoard ----------------------------
(***************************************************************************)
(* The engine of the HTTP proxy that runs on instances (microproxy):       *)
(* HTTP::Proxy::Engine::ScoreBoard, under the loop of HTTP::Proxy::start.  *)
(*                                                                         *)
(* A parent forks children that take turns to accept a connection.  A      *)
(* child tells its status through a pipe; the parent keeps the last one in *)
(* its table of kids and forks or kills by that table.  A record may still *)
(* be in the pipe when its child has been reaped: it puts the process id   *)
(* back into the table.  Process ids are used again.                       *)
(***************************************************************************)
EXTENDS Integers, Sequences, FiniteSets

CONSTANTS Pid,             \* process ids
          start_servers, max_clients, max_requests_per_child,
          min_spare_servers, max_spare_servers,
          Batch,           \* records that one read takes (10)
          Capacity         \* records that fit into the pipe

ASSUME ScoreBoardAssumption ==
    /\ IsFiniteSet(Pid)
    /\ {start_servers, max_clients, min_spare_servers, max_spare_servers} \subseteq Nat
    /\ {max_requests_per_child, Batch, Capacity} \subseteq Nat \ {0}

VARIABLES parent,   \* the phase the parent is in
          loop,     \* the parent has not been told to stop
          kids,     \* the parent's table: kids[k], the status of k or None
          child,    \* child[k]: the process k
          pipe,     \* status records <<pid, status>>
          waiting   \* a connection waits to be accepted

vars == <<parent, loop, kids, child, pipe, waiting>>

None == "none"
KidStatus == {None, "I", "A", "B"}
NoProcess == [at |-> None, did |-> 0, loop |-> TRUE]
Zombie == [at |-> "zombie", did |-> 0, loop |-> TRUE]

Init == /\ parent = "read" /\ loop = TRUE
        /\ kids = [k \in Pid |-> None]
        /\ child = [k \in Pid |-> NoProcess]
        /\ pipe = <<>> /\ waiting = FALSE

Known == {k \in Pid : kids[k] # None}
Exists(k) == child[k].at # None
Live == {k \in Pid : child[k].at \notin {None, "zombie"}}
Zombies == {k \in Pid : child[k].at = "zombie"}
Idlers == {k \in Pid : kids[k] = "I"}

-----------------------------------------------------------------------------
(* A child: _run_child                                                     *)

At(k, pc) == child[k].at = pc
ToState(k, pc) == child' = [child EXCEPT ![k].at = pc]
Exit(k) == child' = [child EXCEPT ![k] = Zombie]

Holds(k) == child[k].at \in {"locked", "tellA", "accept"}

\* flock LOCK_EX
Flock(k) == /\ At(k, "flock") /\ \A j \in Pid : ~Holds(j)
            /\ ToState(k, "locked")
            /\ UNCHANGED <<parent, loop, kids, pipe, waiting>>

\* last unless $proxy->loop()
GoOn(k) == /\ At(k, "locked") /\ child[k].loop
           /\ ToState(k, "tellA")
           /\ UNCHANGED <<parent, loop, kids, pipe, waiting>>

Last(k) == /\ At(k, "locked") /\ ~child[k].loop
           /\ Exit(k)
           /\ UNCHANGED <<parent, loop, kids, pipe, waiting>>

\* syswrite waits until there is room in the pipe.
Tell(k, status) == /\ Len(pipe) < Capacity
                   /\ pipe' = Append(pipe, <<k, status>>)
                   /\ UNCHANGED <<parent, loop, kids, waiting>>

TellAccept(k) == At(k, "tellA") /\ Tell(k, "A") /\ ToState(k, "accept")

\* accept, and then flock LOCK_UN
Accept(k) == /\ At(k, "accept") /\ waiting
             /\ waiting' = FALSE
             /\ ToState(k, "tellB")
             /\ UNCHANGED <<parent, loop, kids, pipe>>

TellBusy(k) == At(k, "tellB") /\ Tell(k, "B") /\ ToState(k, "serve")

\* serve_connections looks at loop before each request of the connection.
Serve(k) == /\ At(k, "serve")
            /\ ToState(k, IF child[k].loop THEN "client" ELSE "tellI")
            /\ UNCHANGED <<parent, loop, kids, pipe, waiting>>

\* get_request, and print of the response, wait for the client as long as it
\* takes.
ClientActs(k) == /\ At(k, "client")
                 /\ ToState(k, "serve")
                 /\ UNCHANGED <<parent, loop, kids, pipe, waiting>>

ClientLeaves(k) == /\ At(k, "client")
                   /\ ToState(k, "tellI")
                   /\ UNCHANGED <<parent, loop, kids, pipe, waiting>>

\* The child dies of a request.
ServeDies(k) == /\ At(k, "client")
                /\ Exit(k)
                /\ UNCHANGED <<parent, loop, kids, pipe, waiting>>

NextTurnMutant(c) == IF c.did <= max_requests_per_child
                     THEN [c EXCEPT !.at = "flock", !.did = @ + 1]
                     ELSE Zombie

\* while (++$did <= max_requests_per_child)
NextTurn(c) == IF c.did < max_requests_per_child
               THEN [c EXCEPT !.at = "flock", !.did = @ + 1]
               ELSE Zombie

TellIdle(k) == At(k, "tellI") /\ Tell(k, "I")
               /\ child' = [child EXCEPT ![k] = NextTurn(@)]

\* SIGINT.  The handler clears loop, and the system call the child waits in
\* fails: flock is tried again in another turn, accept ends the child, a write to
\* a full pipe is given up.  While a request is read the signal kills; just before,
\* and while the response is written, it is noted and the child waits on.
Interrupted(c) ==
    LET told == [c EXCEPT !.loop = FALSE]
    IN  CASE c.at \in {None, "zombie"} -> {c}
          [] c.at = "flock" -> {told, NextTurn(told)}
          [] c.at = "accept" -> {Zombie}
          [] c.at = "client" -> {told, Zombie}
          [] c.at = "tellA" /\ Len(pipe) = Capacity -> {[told EXCEPT !.at = "accept"]}
          [] c.at = "tellB" /\ Len(pipe) = Capacity -> {[told EXCEPT !.at = "serve"]}
          [] c.at = "tellI" /\ Len(pipe) = Capacity -> {NextTurn(told)}
          [] OTHER -> {told}

OwnStep(k) == \/ Flock(k) \/ GoOn(k) \/ Last(k) \/ TellAccept(k) \/ Accept(k)
              \/ TellBusy(k) \/ Serve(k) \/ TellIdle(k)

ClientStep(k) == ClientActs(k) \/ ClientLeaves(k) \/ ServeDies(k)

ChildStep(k) == OwnStep(k) \/ ClientStep(k)

-----------------------------------------------------------------------------
(* The parent: run                                                         *)

Phase(p) == parent' = p

\* Of several records of a child the last one counts.
Updated(n) ==
    LET Of(k) == {j \in 1 .. n : pipe[j][1] = k}
    IN  {t \in [Pid -> KidStatus] : \A k \in Pid :
            \/ Of(k) = {} /\ t[k] = kids[k]
            \/ \E j \in Of(k) : (\A i \in Of(k) : i <= j) /\ t[k] = pipe[j][2]}

\* First phase: sysread takes what is there, at most 50 bytes.
ReadStatus == /\ parent = "read" /\ pipe # <<>>
              /\ LET n == IF Len(pipe) < Batch THEN Len(pipe) ELSE Batch
                 IN  /\ kids' \in Updated(n)
                     /\ pipe' = SubSeq(pipe, n + 1, Len(pipe))
              /\ Phase("reap")
              /\ UNCHANGED <<loop, child, waiting>>

\* can_read(1) finds nothing within a second.
ReadNothing == /\ parent = "read" /\ pipe = <<>>
               /\ Phase("reap")
               /\ UNCHANGED <<loop, kids, child, pipe, waiting>>

Waitpid(k) == /\ At(k, "zombie")
              /\ child' = [child EXCEPT ![k] = NoProcess]
              /\ kids' = [kids EXCEPT ![k] = None]

\* Second phase
Reap == /\ parent = "reap"
        /\ \E k \in Pid : Waitpid(k)
        /\ UNCHANGED <<parent, loop, pipe, waiting>>

ReapDone == /\ parent = "reap" /\ Zombies = {}
            /\ Phase("verify")
            /\ UNCHANGED <<loop, kids, child, pipe, waiting>>

VerifiedMutant == [k \in Pid |-> IF kids[k] = "I" THEN None ELSE kids[k]]

\* kill 0: a zombie still counts as a process.
Verified == [k \in Pid |-> IF Exists(k) THEN kids[k] ELSE None]

VerifyKidsMutant == /\ parent = "verify"
                    /\ Phase("fork")
                    /\ UNCHANGED <<loop, kids, child, pipe, waiting>>

\* Third phase, if verify_delay has passed,
VerifyKids == /\ parent = "verify"
              /\ kids' = Verified
              /\ Phase("fork")
              /\ UNCHANGED <<loop, child, pipe, waiting>>

\* and if not.
SkipVerify == /\ parent = "verify"
              /\ Phase("fork")
              /\ UNCHANGED <<loop, kids, child, pipe, waiting>>

\* Fourth phase
MayFork == /\ \/ Cardinality(Idlers) < min_spare_servers
              \/ Cardinality(Known) < start_servers
           /\ Cardinality(Known) < max_clients

\* HTTP::Proxy::start: another run, or the end of the loop.  max_connections is 0,
\* its default: the number of connections is not limited.
RunEnds == Phase(IF loop THEN "read" ELSE "stop")

\* A new process has the parent's loop.  Its id may be in the table already.
ForkKid == /\ parent = "fork" /\ MayFork
           /\ \E k \in Pid :
                 /\ ~Exists(k)
                 /\ child' = [child EXCEPT ![k] = [at |-> "flock", did |-> 1, loop |-> loop]]
                 /\ kids' = [kids EXCEPT ![k] = "I"]
           /\ RunEnds
           /\ UNCHANGED <<loop, pipe, waiting>>

TooManyIdlers == /\ Cardinality(Idlers) > max_spare_servers
                 /\ Cardinality(Known) > start_servers

\* Enough if nothing has happened for verify_delay.
LazyIdlers == /\ Cardinality(Idlers) > min_spare_servers
              /\ Cardinality(Known) > start_servers

KillIdler == /\ parent = "fork" /\ (TooManyIdlers \/ LazyIdlers)
             /\ \E k \in Idlers : \E c \in Interrupted(child[k]) :
                   child' = [child EXCEPT ![k] = c]
             /\ RunEnds
             /\ UNCHANGED <<loop, kids, pipe, waiting>>

\* Nothing to do, or not yet; or fork has failed.
LeaveKids == /\ parent = "fork" /\ ~TooManyIdlers
             /\ RunEnds
             /\ UNCHANGED <<loop, kids, child, pipe, waiting>>

-----------------------------------------------------------------------------
(* The parent: stop                                                        *)

StopTargetsMutant == Idlers

\* kill INT => keys %$kids
StopTargets == Known

Stop == /\ parent = "stop"
        /\ LET after(k) == IF k \in StopTargets THEN Interrupted(child[k]) ELSE {child[k]}
           IN  child' \in {c \in [Pid -> UNION {after(k) : k \in Pid}] :
                              \A k \in Pid : c[k] \in after(k)}
        /\ Phase("wait")
        /\ UNCHANGED <<loop, kids, pipe, waiting>>

StopReap == /\ parent = "wait"
            /\ \E k \in Pid : Waitpid(k)
            /\ UNCHANGED <<parent, loop, pipe, waiting>>

StopDoneMutant == /\ parent = "wait" /\ Idlers = {}
                  /\ Phase("done")
                  /\ UNCHANGED <<loop, kids, child, pipe, waiting>>

\* while (%$kids)
StopDone == /\ parent = "wait" /\ Known = {}
            /\ Phase("done")
            /\ UNCHANGED <<loop, kids, child, pipe, waiting>>

RunStep == \/ ReadStatus \/ ReadNothing \/ Reap \/ ReapDone \/ VerifyKids \/ SkipVerify
           \/ ForkKid \/ KillIdler \/ LeaveKids

ParentStep == RunStep \/ Stop \/ StopReap \/ StopDone

-----------------------------------------------------------------------------
(* Users                                                                   *)

Connect == /\ ~waiting /\ waiting' = TRUE
           /\ UNCHANGED <<parent, loop, kids, child, pipe>>

\* SIGINT or SIGTERM to the parent.
TellToStop == /\ loop /\ loop' = FALSE
              /\ UNCHANGED <<parent, kids, child, pipe, waiting>>

Next == ParentStep \/ (\E k \in Pid : ChildStep(k)) \/ Connect \/ TellToStop

\* Processes are scheduled; the clock advances, so that it is time to verify and
\* to fork again and again, and fork does not fail for ever.  Clients need not do
\* anything.
Fairness == /\ WF_vars(ParentStep) /\ SF_vars(VerifyKids) /\ SF_vars(ForkKid)
            /\ \A k \in Pid : WF_vars(OwnStep(k))

Spec == Init /\ [][Next]_vars
FairSpec == Spec /\ Fairness

-----------------------------------------------------------------------------
(* Properties                                                              *)

ChildState == {None, "flock", "locked", "tellA", "accept", "tellB", "serve", "client",
               "tellI", "zombie"}
ChildProcess == [at : ChildState, did : 0 .. max_requests_per_child, loop : BOOLEAN]

\* The types of the variables; one child holds the lock.
TypeOK == /\ parent \in {"read", "reap", "verify", "fork", "stop", "wait", "done"}
          /\ loop \in BOOLEAN /\ waiting \in BOOLEAN
          /\ kids \in [Pid -> KidStatus]
          /\ child \in [Pid -> ChildProcess]
          /\ pipe \in Seq(Pid \X {"I", "A", "B"}) /\ Len(pipe) <= Capacity
          /\ \A j, k \in Pid : Holds(j) /\ Holds(k) => j = k

\* The parent counts a table that lags behind.  Children that have ended are in
\* it, and process ids of children long gone, but no child is missing, which
\* run() would not count and stop() would not wait for.
ChildrenAreKnown == \A k \in Pid : Exists(k) => k \in Known

\* There are never more child processes than max_clients ("don't go above").
NeverTooMany == Cardinality({k \in Pid : Exists(k)}) <= max_clients

\* When stop() has returned there are no children left.
NoOrphans == parent = "done" => \A k \in Pid : ~Exists(k)

\* Children that have a connection.
Engaged == {k \in Pid : child[k].at \in {"serve", "client"}}

\* A connection is accepted, or the proxy told to stop, although the table may
\* be full of process ids of children that are gone: what can keep a connection
\* waiting is max_clients others whose clients do not let go.  (With
\* min_spare_servers 0 fewer would do.)
ConnectionsAreServed ==
    <>[](waiting /\ loop) => <>[](Cardinality(Engaged) >= max_clients)

\* What may keep stop() from its end: a process id without a child in the table,
\* a child that the signal reached just before it called accept, and one that
\* noted the signal and waits for its client.
Phantoms == {k \in Known : ~Exists(k)}
Deaf == {k \in Pid : At(k, "accept") /\ ~child[k].loop}
Hung == {k \in Pid : At(k, "client") /\ ~child[k].loop}

\* stop() ends, unless one of these keeps it for good, or children wait for room
\* in the pipe, which nobody reads any more: every other child hears of the signal
\* and comes to a point where it looks at loop.
StopEnds == <>[](parent = "wait") =>
    <>[](Phantoms # {} \/ Deaf # {} \/ Hung # {} \/ Len(pipe) = Capacity)
=============================================================================
