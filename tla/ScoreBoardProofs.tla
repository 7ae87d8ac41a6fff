------------------------- MODULE ScoreBoardProofs -------------------------
(***************************************************************************)
(* What the proxy's engine guarantees for any number of process ids, any   *)
(* configuration of servers and spares and any size of the pipe.           *)
(***************************************************************************)
EXTENDS ScoreBoard, TLAPS, FiniteSetTheorems

Same(c, d) == /\ d \in ChildProcess
              /\ d.at = None <=> c.at = None
              /\ d.at \in {"locked", "tellA", "accept"} => c.at \in {"locked", "tellA", "accept"}

LEMMA Numbers == max_requests_per_child \in Nat /\ max_requests_per_child >= 1
BY ScoreBoardAssumption

LEMMA GoneIsProcess == NoProcess \in ChildProcess /\ Zombie \in ChildProcess
<1>1. 0 \in 0 .. max_requests_per_child
  BY Numbers
<1> QED  BY <1>1 DEF NoProcess, Zombie, ChildProcess, ChildState

\* The next turn of a child that exists is one that waits for the lock, or its end.
LEMMA NextTurnSame ==
    ASSUME NEW c \in ChildProcess, c.at # None
    PROVE  Same(c, NextTurn(c)) /\ NextTurn(c).at \in {"flock", "zombie"}
<1>1. CASE c.did < max_requests_per_child
  <2> DEFINE t == [c EXCEPT !.at = "flock", !.did = @ + 1]
  <2>1. c.did + 1 \in 0 .. max_requests_per_child
    BY <1>1, Numbers DEF ChildProcess
  <2>2. t \in ChildProcess /\ t.at = "flock"
    BY <2>1 DEF ChildProcess, ChildState
  <2> QED  BY <1>1, <2>2 DEF NextTurn, Same, None
<1>2. CASE ~(c.did < max_requests_per_child)
  BY <1>2, GoneIsProcess DEF NextTurn, Same, None, Zombie
<1> QED  BY <1>1, <1>2

\* A signal makes no process and takes none away, and gives nobody the lock.
LEMMA InterruptedSame ==
    ASSUME NEW c \in ChildProcess, NEW d \in Interrupted(c)
    PROVE  Same(c, d)
<1> DEFINE told == [c EXCEPT !.loop = FALSE]
<1>1. told \in ChildProcess /\ told.at = c.at
  BY DEF ChildProcess
<1>2. Same(c, c) /\ Same(c, told)
  BY <1>1 DEF Same
<1>3. c.at # None => Same(c, Zombie)
  BY GoneIsProcess DEF Same, None, Zombie
<1>4. c.at # None => Same(c, NextTurn(told))
  BY <1>1, NextTurnSame DEF Same
<1>5. c.at = "tellA" => Same(c, [told EXCEPT !.at = "accept"])
  BY <1>1 DEF Same, ChildProcess, ChildState, None
<1>6. c.at = "tellB" => Same(c, [told EXCEPT !.at = "serve"])
  BY <1>1 DEF Same, ChildProcess, ChildState, None
<1>7. \/ c.at \in {None, "zombie"} /\ d = c
      \/ c.at = "flock" /\ d \in {told, NextTurn(told)}
      \/ c.at = "accept" /\ d = Zombie
      \/ c.at = "client" /\ d \in {told, Zombie}
      \/ c.at = "tellA" /\ d = [told EXCEPT !.at = "accept"]
      \/ c.at = "tellB" /\ d = [told EXCEPT !.at = "serve"]
      \/ c.at = "tellI" /\ d = NextTurn(told)
      \/ d = told
  BY DEF Interrupted
<1> QED  BY <1>2, <1>3, <1>4, <1>5, <1>6, <1>7 DEF None

-----------------------------------------------------------------------------

Processes == {k \in Pid : Exists(k)}

OneHolds == \A j, k \in Pid : Holds(j) /\ Holds(k) => j = k

\* The inductive invariant.
IInv == /\ TypeOK /\ ChildrenAreKnown /\ NeverTooMany
        /\ parent = "done" => Known = {}

PipeOK == pipe \in Seq(Pid \X {"I", "A", "B"}) /\ Len(pipe) <= Capacity

\* One process changes.
LEMMA OneChanges ==
    ASSUME TypeOK, NEW k \in Pid, NEW d, Same(child[k], d),
           child' = [child EXCEPT ![k] = d]
    PROVE  /\ child' \in [Pid -> ChildProcess] /\ OneHolds'
           /\ \A j \in Pid : Exists(j)' <=> Exists(j)
<1>1. child \in [Pid -> ChildProcess] /\ OneHolds
  BY DEF TypeOK, OneHolds
<1>2. child' \in [Pid -> ChildProcess]
  BY <1>1 DEF Same
<1>3. \A j \in Pid : /\ child'[j].at = None <=> child[j].at = None
                     /\ child'[j].at \in {"locked", "tellA", "accept"}
                        => child[j].at \in {"locked", "tellA", "accept"}
  BY <1>1 DEF Same
<1>4. \A j \in Pid : (Exists(j)' <=> Exists(j)) /\ (Holds(j)' => Holds(j))
  BY <1>3 DEF Exists, Holds
<1>5. OneHolds'
  BY <1>1, <1>4 DEF OneHolds
<1> QED  BY <1>2, <1>4, <1>5

\* A step that leaves the parent, its table and the processes that exist alone.
LEMMA SameProcesses ==
    ASSUME IInv, UNCHANGED <<parent, loop, kids>>,
           \A j \in Pid : Exists(j)' <=> Exists(j),
           child' \in [Pid -> ChildProcess], OneHolds', PipeOK', waiting' \in BOOLEAN
    PROVE  IInv'
<1>1. Known' = Known
  BY DEF Known
<1>2. Processes' = Processes
  BY DEF Processes
<1>3. NeverTooMany'
  BY <1>2 DEF IInv, NeverTooMany, Processes
<1>4. ChildrenAreKnown'
  BY <1>1 DEF IInv, ChildrenAreKnown
<1>5. TypeOK'
  BY DEF IInv, TypeOK, OneHolds, PipeOK
<1> QED  BY <1>1, <1>3, <1>4, <1>5 DEF IInv

LEMMA TellOK ==
    ASSUME TypeOK, NEW k \in Pid, NEW status \in {"I", "A", "B"}, Tell(k, status)
    PROVE  PipeOK' /\ UNCHANGED <<parent, loop, kids, waiting>>
<1>1. Capacity \in Nat
  BY ScoreBoardAssumption
<1>2. <<k, status>> \in Pid \X {"I", "A", "B"}
  OBVIOUS
<1>3. pipe \in Seq(Pid \X {"I", "A", "B"}) /\ Len(pipe) < Capacity
  BY DEF TypeOK, Tell
<1>4. pipe' = Append(pipe, <<k, status>>) /\ UNCHANGED <<parent, loop, kids, waiting>>
  BY DEF Tell
<1> QED  BY <1>1, <1>2, <1>3, <1>4 DEF PipeOK

\* To another place in the loop of _run_child, without the lock or with a lock
\* that was held already.
LEMMA ToStateSame ==
    ASSUME TypeOK, NEW k \in Pid, NEW pc \in ChildState \ {None}, ToState(k, pc),
           child[k].at # None,
           pc \in {"locked", "tellA", "accept"} => Holds(k)
    PROVE  \E d : Same(child[k], d) /\ child' = [child EXCEPT ![k] = d]
<1>1. child[k] \in ChildProcess
  BY DEF TypeOK
<1> DEFINE d == [child[k] EXCEPT !.at = pc]
<1>2. d \in ChildProcess /\ d.at = pc
  BY <1>1 DEF ChildProcess
<1>3. Same(child[k], d)
  BY <1>2 DEF Same, Holds
<1>4. child' = [child EXCEPT ![k] = d]
  BY DEF ToState
<1> QED  BY <1>3, <1>4

LEMMA ExitSame ==
    ASSUME TypeOK, NEW k \in Pid, Exit(k), child[k].at # None
    PROVE  \E d : Same(child[k], d) /\ child' = [child EXCEPT ![k] = d]
<1>1. Same(child[k], Zombie)
  BY GoneIsProcess DEF Same, Zombie, None
<1> QED  BY <1>1 DEF Exit

LEMMA FlockInv ==
    ASSUME IInv, NEW k \in Pid, Flock(k)
    PROVE  IInv'
<1>1. child \in [Pid -> ChildProcess] /\ child[k].at = "flock" /\ (\A j \in Pid : ~Holds(j))
  BY DEF IInv, TypeOK, Flock, At
<1>2. child' = [child EXCEPT ![k] = [child[k] EXCEPT !.at = "locked"]]
  BY DEF Flock, ToState
<1>3. [child[k] EXCEPT !.at = "locked"] \in ChildProcess
      /\ [child[k] EXCEPT !.at = "locked"].at = "locked"
  BY <1>1 DEF ChildProcess, ChildState
<1>4. child' \in [Pid -> ChildProcess]
  BY <1>1, <1>2, <1>3
<1>5. child'[k].at = "locked" /\ (\A j \in Pid : j # k => child'[j] = child[j])
  BY <1>1, <1>2, <1>3
<1>6. \A j \in Pid : Holds(j)' => j = k
  BY <1>1, <1>5 DEF Holds
<1>7. \A j \in Pid : Exists(j)' <=> Exists(j)
  BY <1>1, <1>5 DEF Exists, None
<1>8. OneHolds'
  BY <1>6 DEF OneHolds
<1>9. UNCHANGED <<parent, loop, kids, pipe, waiting>>
  BY DEF Flock
<1>10. PipeOK' /\ waiting' \in BOOLEAN
  BY <1>9 DEF IInv, TypeOK, PipeOK
<1> QED  BY <1>4, <1>7, <1>8, <1>9, <1>10, SameProcesses

LEMMA ChildStepInv ==
    ASSUME IInv, NEW k \in Pid, ChildStep(k)
    PROVE  IInv'
<1>t. TypeOK /\ child[k] \in ChildProcess
  BY DEF IInv, TypeOK
<1>p. UNCHANGED pipe => PipeOK'
  BY <1>t DEF TypeOK, PipeOK
<1>w. waiting \in BOOLEAN
  BY <1>t DEF TypeOK
<1> DEFINE Change == \E d : Same(child[k], d) /\ child' = [child EXCEPT ![k] = d]
<1>c. ASSUME Change, UNCHANGED <<parent, loop, kids>>, PipeOK', waiting' \in BOOLEAN
      PROVE  IInv'
  <2>1. PICK d : Same(child[k], d) /\ child' = [child EXCEPT ![k] = d]
    BY <1>c
  <2>2. /\ child' \in [Pid -> ChildProcess] /\ OneHolds'
        /\ \A j \in Pid : Exists(j)' <=> Exists(j)
    BY <1>t, <2>1, OneChanges
  <2> QED  BY <1>c, <2>2, SameProcesses
<1>1. CASE Flock(k)
  BY <1>1, FlockInv
<1>2. CASE GoOn(k)
  <2>1. Change
    BY <1>t, <1>2, ToStateSame DEF GoOn, At, Holds, ChildState, None
  <2> QED  BY <1>2, <1>c, <1>p, <1>w, <2>1 DEF GoOn
<1>3. CASE Last(k)
  <2>1. Change
    BY <1>t, <1>3, ExitSame DEF Last, At, None
  <2> QED  BY <1>3, <1>c, <1>p, <1>w, <2>1 DEF Last
<1>4. CASE TellAccept(k)
  <2>1. Change
    BY <1>t, <1>4, ToStateSame DEF TellAccept, At, Holds, ChildState, None
  <2>2. PipeOK' /\ UNCHANGED <<parent, loop, kids, waiting>>
    BY <1>t, <1>4, TellOK DEF TellAccept
  <2> QED  BY <1>c, <1>w, <2>1, <2>2
<1>5. CASE Accept(k)
  <2>1. Change
    BY <1>t, <1>5, ToStateSame DEF Accept, At, Holds, ChildState, None
  <2> QED  BY <1>5, <1>c, <1>p, <2>1 DEF Accept
<1>6. CASE TellBusy(k)
  <2>1. Change
    BY <1>t, <1>6, ToStateSame DEF TellBusy, At, Holds, ChildState, None
  <2>2. PipeOK' /\ UNCHANGED <<parent, loop, kids, waiting>>
    BY <1>t, <1>6, TellOK DEF TellBusy
  <2> QED  BY <1>c, <1>w, <2>1, <2>2
<1>7. CASE Serve(k) \/ ClientActs(k) \/ ClientLeaves(k)
  <2>1. PICK pc \in {"serve", "client", "tellI"} : ToState(k, pc)
    BY <1>7 DEF Serve, ClientActs, ClientLeaves
  <2>2. child[k].at \in {"serve", "client"}
    BY <1>7 DEF Serve, ClientActs, ClientLeaves, At
  <2>3. Change
    BY <1>t, <2>1, <2>2, ToStateSame DEF ChildState, None
  <2> QED  BY <1>7, <1>c, <1>p, <1>w, <2>3 DEF Serve, ClientActs, ClientLeaves
<1>8. CASE ServeDies(k)
  <2>1. Change
    BY <1>t, <1>8, ExitSame DEF ServeDies, At, None
  <2> QED  BY <1>8, <1>c, <1>p, <1>w, <2>1 DEF ServeDies
<1>9. CASE TellIdle(k)
  <2>1. Change
    BY <1>t, <1>9, NextTurnSame DEF TellIdle, At, None
  <2>2. PipeOK' /\ UNCHANGED <<parent, loop, kids, waiting>>
    BY <1>t, <1>9, TellOK DEF TellIdle
  <2> QED  BY <1>c, <1>w, <2>1, <2>2
<1> QED  BY <1>1, <1>2, <1>3, <1>4, <1>5, <1>6, <1>7, <1>8, <1>9
         DEF ChildStep, OwnStep, ClientStep

-----------------------------------------------------------------------------

LEMMA FewProcesses == 
    /\ IsFiniteSet(Pid) /\ IsFiniteSet(Known) /\ IsFiniteSet(Processes)
    /\ Cardinality(Known) \in Nat /\ Cardinality(Processes) \in Nat
    /\ max_clients \in Nat
<1>1. IsFiniteSet(Pid) /\ max_clients \in Nat
  BY ScoreBoardAssumption
<1>2. Known \in SUBSET Pid /\ Processes \in SUBSET Pid
  BY DEF Known, Processes
<1>3. IsFiniteSet(Known) /\ IsFiniteSet(Processes)
  BY <1>1, <1>2, FS_Subset
<1> QED  BY <1>1, <1>3, FS_CardinalityType

\* A step after which there are no more processes than before.
LEMMA NoMore ==
    ASSUME IInv, \A j \in Pid : Exists(j)' => Exists(j)
    PROVE  NeverTooMany'
<1>1. Processes' \in SUBSET Processes
  BY DEF Processes
<1>2. Cardinality(Processes') <= Cardinality(Processes)
  BY <1>1, FewProcesses, FS_Subset
<1>3. IsFiniteSet(Processes')
  BY <1>1, FewProcesses, FS_Subset
<1>4. Cardinality(Processes') \in Nat
  BY <1>3, FS_CardinalityType
<1>5. Cardinality(Processes) <= max_clients
  BY DEF IInv, NeverTooMany, Processes
<1>6. Cardinality(Processes') <= max_clients
  BY <1>2, <1>4, <1>5, FewProcesses
<1> QED  BY <1>6 DEF NeverTooMany, Processes

\* The parent changes its table or its phase only.
LEMMA TableChanges ==
    ASSUME IInv, UNCHANGED <<loop, child, waiting>>, PipeOK',
           kids' \in [Pid -> KidStatus],
           parent' \in {"read", "reap", "verify", "fork", "stop", "wait", "done"},
           \A k \in Pid : Exists(k) => kids'[k] # None,
           parent' = "done" => Known' = {}
    PROVE  IInv'
<1>1. \A k \in Pid : (Exists(k)' <=> Exists(k)) /\ (Holds(k)' <=> Holds(k))
  BY DEF Exists, Holds
<1>2. NeverTooMany'
  BY <1>1, NoMore
<1>3. ChildrenAreKnown'
  BY <1>1 DEF ChildrenAreKnown, Known
<1>4. TypeOK'
  BY <1>1 DEF IInv, TypeOK, PipeOK
<1> QED  BY <1>2, <1>3, <1>4 DEF IInv

\* The records that are read leave every child in the table.
LEMMA UpdatedKnown ==
    ASSUME TypeOK, NEW n \in 0 .. Len(pipe), NEW t \in Updated(n)
    PROVE  /\ t \in [Pid -> KidStatus]
           /\ \A k \in Pid : kids[k] # None => t[k] # None
<1>1. t \in [Pid -> KidStatus]
  BY DEF Updated
<1>2. \A k \in Pid : t[k] = kids[k] \/ \E j \in 1 .. n : t[k] = pipe[j][2]
  BY DEF Updated
<1>3. \A j \in 1 .. n : pipe[j] \in Pid \X {"I", "A", "B"}
  BY DEF TypeOK
<1>4. \A j \in 1 .. n : pipe[j][2] # None
  BY <1>3 DEF None
<1> QED  BY <1>1, <1>2, <1>4

LEMMA ReadStatusInv ==
    ASSUME IInv, ReadStatus
    PROVE  IInv'
<1> DEFINE n == IF Len(pipe) < Batch THEN Len(pipe) ELSE Batch
<1>1. TypeOK /\ pipe \in Seq(Pid \X {"I", "A", "B"}) /\ Len(pipe) <= Capacity
  BY DEF IInv, TypeOK
<1>2. Batch \in Nat /\ Capacity \in Nat /\ Len(pipe) \in Nat
  BY <1>1, ScoreBoardAssumption
<1>3. n \in 0 .. Len(pipe)
  BY <1>2
<1>4. /\ kids' \in Updated(n) /\ pipe' = SubSeq(pipe, n + 1, Len(pipe))
      /\ parent' = "reap" /\ UNCHANGED <<loop, child, waiting>>
  BY DEF ReadStatus, Phase
<1> HIDE DEF n
<1>5. PipeOK'
  BY <1>1, <1>2, <1>3, <1>4 DEF PipeOK
<1>6. kids' \in [Pid -> KidStatus] /\ \A k \in Pid : kids[k] # None => kids'[k] # None
  BY <1>1, <1>3, <1>4, UpdatedKnown
<1>7. \A k \in Pid : Exists(k) => kids'[k] # None
  BY <1>6 DEF IInv, ChildrenAreKnown, Known
<1> QED  BY <1>4, <1>5, <1>6, <1>7, TableChanges

\* Who is reaped is no process any more, and leaves the table.
LEMMA WaitpidInv ==
    ASSUME IInv, NEW k \in Pid, Waitpid(k), parent # "done",
           UNCHANGED <<parent, loop, pipe, waiting>>
    PROVE  IInv'
<1>1. TypeOK /\ child \in [Pid -> ChildProcess] /\ kids \in [Pid -> KidStatus]
  BY DEF IInv, TypeOK
<1>2. child' = [child EXCEPT ![k] = NoProcess] /\ kids' = [kids EXCEPT ![k] = None]
  BY DEF Waitpid
<1>3. child' \in [Pid -> ChildProcess] /\ kids' \in [Pid -> KidStatus]
  BY <1>1, <1>2, GoneIsProcess DEF KidStatus
<1>4. child'[k].at = None
  BY <1>1, <1>2 DEF NoProcess
<1>5. \A j \in Pid : j # k => child'[j] = child[j] /\ kids'[j] = kids[j]
  BY <1>1, <1>2
<1>6. \A j \in Pid : Exists(j)' => j # k /\ Exists(j)
  BY <1>4, <1>5 DEF Exists
<1>7. \A j \in Pid : Holds(j)' => Holds(j)
  BY <1>4, <1>5 DEF Holds, None
<1>8. NeverTooMany'
  BY <1>6, NoMore
<1>9. ChildrenAreKnown'
  BY <1>5, <1>6 DEF IInv, ChildrenAreKnown, Known
<1>10. TypeOK'
  BY <1>1, <1>3, <1>7 DEF TypeOK
<1> QED  BY <1>8, <1>9, <1>10 DEF IInv

\* A new child has a place in the table, and there was room for one: those that
\* exist were all counted.
LEMMA ForkKidInv ==
    ASSUME IInv, ForkKid
    PROVE  IInv'
<1> DEFINE new == [at |-> "flock", did |-> 1, loop |-> loop]
<1>1. PICK k \in Pid : /\ ~Exists(k) /\ child' = [child EXCEPT ![k] = new]
                       /\ kids' = [kids EXCEPT ![k] = "I"]
  BY DEF ForkKid
<1>2. TypeOK /\ child \in [Pid -> ChildProcess] /\ kids \in [Pid -> KidStatus] /\ loop \in BOOLEAN
  BY DEF IInv, TypeOK
<1>3. 1 \in 0 .. max_requests_per_child
  BY Numbers
<1>4. new \in ChildProcess /\ new.at = "flock"
  BY <1>2, <1>3 DEF ChildProcess, ChildState
<1> HIDE DEF new
<1>5. child' \in [Pid -> ChildProcess] /\ kids' \in [Pid -> KidStatus]
  BY <1>1, <1>2, <1>4 DEF KidStatus
<1>6. /\ child'[k].at = "flock" /\ kids'[k] = "I"
      /\ \A j \in Pid : j # k => child'[j] = child[j] /\ kids'[j] = kids[j]
  BY <1>1, <1>2, <1>4
<1>7. \A j \in Pid : Holds(j)' => Holds(j)
  BY <1>6 DEF Holds
<1>8. parent' \in {"read", "stop"} /\ UNCHANGED <<loop, pipe, waiting>>
  BY DEF ForkKid, RunEnds, Phase
<1>9. TypeOK'
  BY <1>2, <1>5, <1>7, <1>8 DEF TypeOK
<1>10. ChildrenAreKnown'
  BY <1>6 DEF IInv, ChildrenAreKnown, Known, Exists, None
<1>11. Processes' = Processes \cup {k}
  BY <1>1, <1>6 DEF Processes, Exists, None
<1>12. Cardinality(Processes') = Cardinality(Processes) + 1
  <2>1. k \notin Processes
    BY <1>1 DEF Processes
  <2> QED  BY <1>11, <2>1, FewProcesses, FS_AddElement
<1>13. Processes \in SUBSET Known
  BY DEF IInv, ChildrenAreKnown, Processes, Known
<1>14. Cardinality(Processes) <= Cardinality(Known)
  BY <1>13, FewProcesses, FS_Subset
<1>15. Cardinality(Known) < max_clients
  BY DEF ForkKid, MayFork
<1>16. Cardinality(Processes') \in Nat
  BY <1>11, FewProcesses, FS_AddElement, FS_CardinalityType
<1>17. Cardinality(Processes') <= max_clients
  BY <1>11, <1>12, <1>14, <1>15, <1>16, FewProcesses
<1>18. NeverTooMany'
  BY <1>17 DEF NeverTooMany, Processes
<1> QED  BY <1>8, <1>9, <1>10, <1>18 DEF IInv

\* Signals to any of the children.
LEMMA SignalsInv ==
    ASSUME IInv, DOMAIN child' = Pid, child' = [k \in Pid |-> child'[k]],
           \A k \in Pid : Same(child[k], child'[k]),
           UNCHANGED <<loop, kids, pipe, waiting>>,
           parent' \in {"read", "stop", "wait"}
    PROVE  IInv'
<1>1. child' \in [Pid -> ChildProcess]
  BY DEF Same
<1>2. \A k \in Pid : (Exists(k)' <=> Exists(k)) /\ (Holds(k)' => Holds(k))
  BY DEF Same, Exists, Holds
<1>3. NeverTooMany'
  BY <1>2, NoMore
<1>4. ChildrenAreKnown'
  BY <1>2 DEF IInv, ChildrenAreKnown, Known
<1>5. TypeOK'
  BY <1>1, <1>2 DEF IInv, TypeOK
<1> QED  BY <1>3, <1>4, <1>5 DEF IInv

LEMMA KillIdlerInv ==
    ASSUME IInv, KillIdler
    PROVE  IInv'
<1>1. PICK k \in Idlers : \E c \in Interrupted(child[k]) : child' = [child EXCEPT ![k] = c]
  BY DEF KillIdler
<1>2. PICK c \in Interrupted(child[k]) : child' = [child EXCEPT ![k] = c]
  BY <1>1
<1>3. k \in Pid /\ child \in [Pid -> ChildProcess]
  BY <1>1 DEF Idlers, IInv, TypeOK
<1>4. Same(child[k], c) /\ \A j \in Pid : Same(child[j], child[j])
  BY <1>2, <1>3, InterruptedSame DEF Same
<1>5. DOMAIN child' = Pid /\ child' = [j \in Pid |-> child'[j]]
  BY <1>2, <1>3
<1>6. \A j \in Pid : Same(child[j], child'[j])
  BY <1>2, <1>3, <1>4
<1>7. UNCHANGED <<loop, kids, pipe, waiting>> /\ parent' \in {"read", "stop", "wait"}
  BY DEF KillIdler, RunEnds, Phase
<1> QED  BY <1>5, <1>6, <1>7, SignalsInv

LEMMA StopInv ==
    ASSUME IInv, Stop
    PROVE  IInv'
<1> DEFINE after(k) == IF k \in StopTargets THEN Interrupted(child[k]) ELSE {child[k]}
<1>1. child' \in [Pid -> UNION {after(k) : k \in Pid}] /\ \A k \in Pid : child'[k] \in after(k)
  BY DEF Stop
<1>2. \A k \in Pid : child[k] \in ChildProcess
  BY DEF IInv, TypeOK
<1>3. \A k \in Pid : Same(child[k], child[k])
  BY <1>2 DEF Same
<1>4. \A k \in Pid : Same(child[k], child'[k])
  BY <1>1, <1>2, <1>3, InterruptedSame
<1>5. DOMAIN child' = Pid /\ child' = [k \in Pid |-> child'[k]]
  BY <1>1
<1>6. UNCHANGED <<loop, kids, pipe, waiting>> /\ parent' \in {"read", "stop", "wait"}
  BY DEF Stop, Phase
<1> QED  BY <1>4, <1>5, <1>6, SignalsInv

LEMMA ParentStepInv ==
    ASSUME IInv, ParentStep
    PROVE  IInv'
<1>t. TypeOK /\ kids \in [Pid -> KidStatus] /\ PipeOK
  BY DEF IInv, TypeOK, PipeOK
<1>k. \A k \in Pid : Exists(k) => kids[k] # None
  BY DEF IInv, ChildrenAreKnown, Known
<1>u. ASSUME UNCHANGED <<loop, kids, child, pipe, waiting>>,
             parent' \in {"read", "reap", "verify", "fork", "stop", "wait"}
      PROVE  IInv'
  <2>1. PipeOK'
    BY <1>t, <1>u DEF PipeOK
  <2> QED  BY <1>t, <1>k, <1>u, <2>1, TableChanges
<1>1. CASE ReadStatus
  BY <1>1, ReadStatusInv
<1>2. CASE ReadNothing
  BY <1>2, <1>u DEF ReadNothing, Phase
<1>3. CASE Reap
  BY <1>3, WaitpidInv DEF Reap
<1>4. CASE ReapDone
  BY <1>4, <1>u DEF ReapDone, Phase
<1>5. CASE VerifyKids
  <2>1. kids' \in [Pid -> KidStatus] /\ \A k \in Pid : Exists(k) => kids'[k] = kids[k]
    BY <1>5, <1>t DEF VerifyKids, Verified, KidStatus
  <2>2. PipeOK' /\ UNCHANGED <<loop, child, waiting>> /\ parent' = "fork"
    BY <1>5, <1>t DEF VerifyKids, Phase, PipeOK
  <2> QED  BY <1>k, <2>1, <2>2, TableChanges
<1>6. CASE SkipVerify
  BY <1>6, <1>u DEF SkipVerify, Phase
<1>7. CASE ForkKid
  BY <1>7, ForkKidInv
<1>8. CASE KillIdler
  BY <1>8, KillIdlerInv
<1>9. CASE LeaveKids
  BY <1>9, <1>u DEF LeaveKids, RunEnds, Phase
<1>10. CASE Stop
  BY <1>10, StopInv
<1>11. CASE StopReap
  BY <1>11, WaitpidInv DEF StopReap
<1>12. CASE StopDone
  <2>1. Known' = {} /\ PipeOK'
    BY <1>12, <1>t DEF StopDone, Known, PipeOK
  <2> QED  BY <1>12, <1>t, <1>k, <2>1, TableChanges DEF StopDone, Phase
<1> QED  BY <1>1, <1>2, <1>3, <1>4, <1>5, <1>6, <1>7, <1>8, <1>9, <1>10, <1>11, <1>12
         DEF ParentStep, RunStep

LEMMA UsersInv ==
    ASSUME IInv, Connect \/ TellToStop
    PROVE  IInv'
<1>1. UNCHANGED <<parent, kids, child, pipe>> /\ loop' \in BOOLEAN /\ waiting' \in BOOLEAN
  BY DEF IInv, TypeOK, Connect, TellToStop
<1>2. \A k \in Pid : (Exists(k)' <=> Exists(k)) /\ (Holds(k)' <=> Holds(k))
  BY <1>1 DEF Exists, Holds
<1>3. NeverTooMany'
  BY <1>2, NoMore
<1>4. ChildrenAreKnown' /\ Known' = Known
  BY <1>1, <1>2 DEF IInv, ChildrenAreKnown, Known
<1>5. TypeOK'
  BY <1>1, <1>2 DEF IInv, TypeOK
<1> QED  BY <1>1, <1>3, <1>4, <1>5 DEF IInv

LEMMA InitInv == Init => IInv
<1> SUFFICES ASSUME Init PROVE IInv
  OBVIOUS
<1>1. \A k \in Pid : child[k] = NoProcess
  BY DEF Init
<1>2. \A k \in Pid : ~Exists(k) /\ ~Holds(k)
  BY <1>1 DEF Exists, Holds, NoProcess, None
<1>3. Processes = {}
  BY <1>2 DEF Processes
<1>4. NeverTooMany
  <2>1. 0 <= max_clients
    BY FewProcesses
  <2>2. Cardinality(Processes) = 0
    BY <1>3, FS_EmptySet
  <2> QED  BY <2>1, <2>2 DEF NeverTooMany, Processes
<1>5. ChildrenAreKnown
  BY <1>2 DEF ChildrenAreKnown
<1>6. pipe \in Seq(Pid \X {"I", "A", "B"}) /\ Len(pipe) <= Capacity
  BY ScoreBoardAssumption DEF Init
<1>7. kids \in [Pid -> KidStatus]
  BY DEF Init, KidStatus
<1>8. child \in [Pid -> ChildProcess]
  BY GoneIsProcess DEF Init
<1>9. TypeOK
  BY <1>2, <1>6, <1>7, <1>8 DEF Init, TypeOK
<1> QED  BY <1>4, <1>5, <1>9 DEF Init, IInv

\* The inductive invariant of the engine.
THEOREM Invariance == Spec => []IInv
<1>1. IInv /\ [Next]_vars => IInv'
  <2> SUFFICES ASSUME IInv, [Next]_vars PROVE IInv'
    OBVIOUS
  <2>1. CASE ParentStep
    BY <2>1, ParentStepInv
  <2>2. CASE \E k \in Pid : ChildStep(k)
    BY <2>2, ChildStepInv
  <2>3. CASE Connect \/ TellToStop
    BY <2>3, UsersInv
  <2>4. CASE UNCHANGED vars
    <3>1. \A k \in Pid : (Exists(k)' <=> Exists(k)) /\ (Holds(k)' <=> Holds(k))
      BY <2>4 DEF Exists, Holds, vars
    <3>2. NeverTooMany'
      BY <3>1, NoMore
    <3>3. ChildrenAreKnown' /\ Known' = Known
      BY <2>4, <3>1 DEF IInv, ChildrenAreKnown, Known, vars
    <3>4. TypeOK'
      BY <2>4, <3>1 DEF IInv, TypeOK, vars
    <3> QED  BY <2>4, <3>2, <3>3, <3>4 DEF IInv, vars
  <2> QED  BY <2>1, <2>2, <2>3, <2>4 DEF Next
<1> QED  BY <1>1, InitInv, PTL DEF Spec

\* The parent's table, the pipe and the processes have their types, and one child
\* at a time holds the lock under which it accepts.
THEOREM TypeCorrect == Spec => []TypeOK
BY Invariance, PTL DEF IInv

\* However late the records of the pipe are read, and whichever process ids are
\* used again, the table that run() counts and stop() waits for misses no child.
THEOREM NoChildIsMissed == Spec => []ChildrenAreKnown
BY Invariance, PTL DEF IInv

\* "Not too many please": although run() counts a table that lags behind, there
\* are never more children than max_clients.
THEOREM AtMostMaxClients == Spec => []NeverTooMany
BY Invariance, PTL DEF IInv

\* If stop() returns, it leaves no child behind.
THEOREM StopLeavesNone == Spec => []NoOrphans
<1>1. IInv => NoOrphans
  BY DEF IInv, ChildrenAreKnown, NoOrphans
<1> QED  BY <1>1, Invariance, PTL

-----------------------------------------------------------------------------
(* Stopping is short                                                       *)

\* While stop() waits, no child is left that has not been told to stop.
EveryoneIsTold == parent \in {"wait", "done"} => \A k \in Live : ~child[k].loop

\* How far a process that has been told to stop is from its end.
ToEnd(c) == CASE c.at = "zombie" -> 1
              [] c.at = "locked" -> 2
              [] c.at = "flock" -> 3
              [] c.at = "tellI" -> 4
              [] c.at = "serve" -> 5
              [] c.at = "client" -> 6
              [] c.at = "tellB" -> 7
              [] c.at = "accept" -> 8
              [] c.at = "tellA" -> 9
              [] OTHER -> 0

StopFalls ==
    parent = "wait" =>
        \/ UNCHANGED child
        \/ \E k \in Pid : /\ ToEnd(child'[k]) < ToEnd(child[k])
                          /\ \A j \in Pid \ {k} : child'[j] = child[j]

LEMMA ToEndIs ==
    ASSUME NEW c
    PROVE  /\ c.at = None => ToEnd(c) = 0
           /\ c.at = "zombie" => ToEnd(c) = 1
           /\ c.at = "locked" => ToEnd(c) = 2
           /\ c.at = "flock" => ToEnd(c) = 3
           /\ c.at = "tellI" => ToEnd(c) = 4
           /\ c.at = "serve" => ToEnd(c) = 5
           /\ c.at = "client" => ToEnd(c) = 6
           /\ c.at = "tellB" => ToEnd(c) = 7
           /\ c.at = "accept" => ToEnd(c) = 8
           /\ c.at = "tellA" => ToEnd(c) = 9
BY DEF ToEnd, None

LEMMA NextTurnLoop ==
    ASSUME NEW c \in ChildProcess
    PROVE  NextTurn(c).at = "zombie" \/ (NextTurn(c).at = "flock" /\ NextTurn(c).loop = c.loop)
BY DEF NextTurn, Zombie, ChildProcess

\* The handler of SIGINT clears loop in every process there is.
LEMMA InterruptedIsTold ==
    ASSUME NEW c \in ChildProcess, NEW d \in Interrupted(c)
    PROVE  d.at \in {None, "zombie"} \/ ~d.loop
<1> DEFINE told == [c EXCEPT !.loop = FALSE]
<1>1. told \in ChildProcess /\ ~told.loop
  BY DEF ChildProcess
<1>2. ~[told EXCEPT !.at = "accept"].loop /\ ~[told EXCEPT !.at = "serve"].loop
  BY <1>1 DEF ChildProcess
<1>3. NextTurn(told).at = "zombie" \/ ~NextTurn(told).loop
  BY <1>1, NextTurnLoop
<1>4. \/ c.at \in {None, "zombie"} /\ d = c
      \/ d \in {told, Zombie, NextTurn(told), [told EXCEPT !.at = "accept"],
                [told EXCEPT !.at = "serve"]}
  BY DEF Interrupted
<1> DEFINE Accepting == [told EXCEPT !.at = "accept"]
           Serving == [told EXCEPT !.at = "serve"]
           Turned == NextTurn(told)
<1>5. \/ c.at \in {None, "zombie"} /\ d = c
      \/ d \in {told, Zombie, Turned, Accepting, Serving}
  BY <1>4
<1>6. /\ ~told.loop /\ ~Accepting.loop /\ ~Serving.loop
      /\ Turned.at = "zombie" \/ ~Turned.loop
  BY <1>1, <1>2, <1>3
<1>7. Zombie.at = "zombie"
  BY DEF Zombie
<1> HIDE DEF told, Accepting, Serving, Turned
<1> QED  BY <1>5, <1>6, <1>7

\* A step of a child changes that child alone, and its loop never; without loop it is a step
\* to its end.
LEMMA ChildMoves ==
    ASSUME TypeOK, NEW k \in Pid, ChildStep(k)
    PROVE  /\ parent' = parent /\ k \in Live
           /\ \A j \in Pid \ {k} : child'[j] = child[j]
           /\ child'[k].at \in {None, "zombie"} \/ child'[k].loop = child[k].loop
           /\ ~child[k].loop => ToEnd(child'[k]) < ToEnd(child[k])
<1>t. child \in [Pid -> ChildProcess] /\ child[k] \in ChildProcess
  BY DEF TypeOK
<1>1. ASSUME NEW d, child' = [child EXCEPT ![k] = d], parent' = parent,
             child[k].at \notin {None, "zombie"},
             d.at \in {None, "zombie"} \/ d.loop = child[k].loop,
             ~child[k].loop => ToEnd(d) < ToEnd(child[k])
      PROVE  /\ parent' = parent /\ k \in Live
             /\ \A j \in Pid \ {k} : child'[j] = child[j]
             /\ child'[k].at \in {None, "zombie"} \/ child'[k].loop = child[k].loop
             /\ ~child[k].loop => ToEnd(child'[k]) < ToEnd(child[k])
  <2>1. child'[k] = d /\ \A j \in Pid \ {k} : child'[j] = child[j]
    BY <1>t, <1>1
  <2> QED  BY <1>1, <2>1 DEF Live
<1>2. ASSUME NEW pc, ToState(k, pc), parent' = parent,
             <<child[k].at, pc>> \in {<<"flock", "locked">>, <<"tellA", "accept">>,
                <<"accept", "tellB">>, <<"tellB", "serve">>, <<"serve", "tellI">>,
                <<"client", "serve">>, <<"client", "tellI">>}
             \/ (child[k].at \in {"locked", "serve"} /\ child[k].loop)
      PROVE  /\ parent' = parent /\ k \in Live
             /\ \A j \in Pid \ {k} : child'[j] = child[j]
             /\ child'[k].at \in {None, "zombie"} \/ child'[k].loop = child[k].loop
             /\ ~child[k].loop => ToEnd(child'[k]) < ToEnd(child[k])
  <2> DEFINE d == [child[k] EXCEPT !.at = pc]
  <2>1. d.at = pc /\ d.loop = child[k].loop
    BY <1>t DEF ChildProcess
  <2>2. child' = [child EXCEPT ![k] = d]
    BY <1>2 DEF ToState
  <2> HIDE DEF d
  <2>3. ~child[k].loop => ToEnd(d) < ToEnd(child[k])
    BY <1>2, <2>1, ToEndIs
  <2>4. child[k].at \notin {None, "zombie"}
    BY <1>2 DEF None
  <2> QED  BY <1>1, <1>2, <2>1, <2>2, <2>3, <2>4
<1>3. CASE \/ Flock(k) \/ GoOn(k) \/ TellAccept(k) \/ Accept(k) \/ TellBusy(k) \/ Serve(k)
           \/ ClientActs(k) \/ ClientLeaves(k)
  BY <1>2, <1>3 DEF Flock, GoOn, TellAccept, Accept, TellBusy, Serve, ClientActs, ClientLeaves,
                    Tell, At
<1>4. CASE Last(k) \/ ServeDies(k)
  <2>1. child' = [child EXCEPT ![k] = Zombie] /\ parent' = parent
    BY <1>4 DEF Last, ServeDies, Exit
  <2>2. child[k].at \in {"locked", "client"} /\ Zombie.at = "zombie"
    BY <1>4 DEF Last, ServeDies, At, Zombie
  <2>3. ToEnd(Zombie) < ToEnd(child[k])
    BY <2>2, ToEndIs
  <2> QED  BY <1>1, <2>1, <2>2, <2>3 DEF None
<1>5. CASE TellIdle(k)
  <2>1. /\ child' = [child EXCEPT ![k] = NextTurn(child[k])] /\ parent' = parent
        /\ child[k].at = "tellI"
    BY <1>5 DEF TellIdle, Tell, At
  <2>2. NextTurn(child[k]).at = "zombie"
        \/ (NextTurn(child[k]).at = "flock" /\ NextTurn(child[k]).loop = child[k].loop)
    BY <1>t, NextTurnLoop
  <2>3. ToEnd(NextTurn(child[k])) < ToEnd(child[k])
    BY <2>1, <2>2, ToEndIs
  <2> QED  BY <1>1, <2>1, <2>2, <2>3 DEF None
<1> QED  BY <1>3, <1>4, <1>5 DEF ChildStep, OwnStep, ClientStep

LEMMA StopReapMoves ==
    ASSUME TypeOK, StopReap
    PROVE  /\ parent' = "wait"
           /\ \E k \in Pid : /\ child'[k] = NoProcess /\ child[k].at = "zombie"
                             /\ \A j \in Pid \ {k} : child'[j] = child[j]
<1>1. PICK k \in Pid : child[k].at = "zombie" /\ child' = [child EXCEPT ![k] = NoProcess]
  BY DEF StopReap, Waitpid, At
<1> QED  BY <1>1 DEF TypeOK, StopReap

LEMMA EveryoneIsToldStep ==
    ASSUME IInv, EveryoneIsTold, [Next]_vars
    PROVE  EveryoneIsTold'
<1>t. TypeOK /\ ChildrenAreKnown
  BY DEF IInv
<1>1. CASE Stop
  <2>1. \A k \in Pid : child'[k] \in IF k \in StopTargets THEN Interrupted(child[k])
                                     ELSE {child[k]}
    BY <1>1 DEF Stop
  <2>2. \A k \in Pid : child[k].at # None => k \in StopTargets
    BY <1>t DEF ChildrenAreKnown, Exists, StopTargets
  <2>3. \A k \in Pid : child'[k].at \in {None, "zombie"} \/ ~child'[k].loop
    BY <1>t, <2>1, <2>2, InterruptedIsTold DEF TypeOK
  <2> QED  BY <2>3 DEF EveryoneIsTold, Live
<1>2. CASE StopReap
  <2>1. PICK k \in Pid : /\ child'[k] = NoProcess /\ parent = "wait"
                         /\ \A j \in Pid \ {k} : child'[j] = child[j]
    BY <1>t, <1>2, StopReapMoves DEF StopReap
  <2> QED  BY <2>1 DEF EveryoneIsTold, Live, NoProcess
<1>3. ASSUME NEW k \in Pid, ChildStep(k)
      PROVE  EveryoneIsTold'
  BY <1>t, <1>3, ChildMoves DEF EveryoneIsTold, Live
<1>4. CASE RunStep
  <2>1. parent' \notin {"wait", "done"}
    BY <1>4 DEF RunStep, ReadStatus, ReadNothing, Reap, ReapDone, VerifyKids, SkipVerify,
       ForkKid, KillIdler, LeaveKids, RunEnds, Phase
  <2> QED  BY <2>1 DEF EveryoneIsTold
<1>5. CASE StopDone \/ Connect \/ TellToStop \/ UNCHANGED vars
  <2>1. child' = child /\ (parent' \in {"wait", "done"} => parent \in {"wait", "done"})
    BY <1>5 DEF StopDone, Connect, TellToStop, vars
  <2> QED  BY <2>1 DEF EveryoneIsTold, Live
<1> QED  BY <1>1, <1>2, <1>3, <1>4, <1>5 DEF Next, ParentStep

LEMMA StopStep ==
    ASSUME IInv, EveryoneIsTold, [Next]_vars
    PROVE  [StopFalls]_vars
<1>t. TypeOK
  BY DEF IInv
<1> SUFFICES ASSUME parent = "wait", Next  PROVE StopFalls
  BY DEF StopFalls
<1>1. CASE StopReap
  <2>1. PICK k \in Pid : /\ child'[k] = NoProcess /\ child[k].at = "zombie"
                         /\ \A j \in Pid \ {k} : child'[j] = child[j]
    BY <1>t, <1>1, StopReapMoves
  <2>2. ToEnd(child'[k]) = 0 /\ ToEnd(child[k]) = 1
    BY <2>1, ToEndIs DEF NoProcess
  <2> QED  BY <2>1, <2>2 DEF StopFalls
<1>2. ASSUME NEW k \in Pid, ChildStep(k)
      PROVE  StopFalls
  <2>1. ~child[k].loop
    BY <1>t, <1>2, ChildMoves DEF EveryoneIsTold
  <2> QED  BY <1>t, <1>2, <2>1, ChildMoves DEF StopFalls
<1>3. CASE StopDone \/ Connect \/ TellToStop
  BY <1>3 DEF StopDone, Connect, TellToStop, StopFalls
<1>4. ~RunStep /\ ~Stop
  BY DEF RunStep, ReadStatus, ReadNothing, Reap, ReapDone, VerifyKids, SkipVerify,
     ForkKid, KillIdler, LeaveKids, Stop
<1> QED  BY <1>1, <1>2, <1>3, <1>4 DEF Next, ParentStep

\* stop() has told every child there is, those forked a moment before and those whose records
\* are still in the pipe included.  From then on no process is made and each one is at most
\* nine steps from being reaped, with at most one connection accepted and one answer of its
\* client waited for among them: nothing draws stop() out, and what keeps it from its end is a
\* process that cannot take a step, or a process id in the table without a process.
THEOREM StopIsShort == Spec => []EveryoneIsTold /\ [][StopFalls]_vars
<1>1. Init => EveryoneIsTold
  BY DEF Init, EveryoneIsTold
<1>2. IInv /\ EveryoneIsTold /\ [Next]_vars => EveryoneIsTold' /\ [StopFalls]_vars
  BY EveryoneIsToldStep, StopStep
<1> QED  BY <1>1, <1>2, Invariance, PTL DEF Spec
=============================================================================
