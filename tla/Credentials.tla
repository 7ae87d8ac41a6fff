---------------------------- MODULE Credentials ----------------------------
(***************************************************************************)
(* The access keys of one student account: "ec2_util.py --rotate-secret"   *)
(* over User.delete_access_key and User.create_access_key of               *)
(* ec2-wrappers/subaccounts.py, any number of such processes side by side. *)
(*                                                                         *)
(* A process reads the account's keys from the database (Start), then for  *)
(* each of them has IAM delete the key and deletes the row, and at last    *)
(* has IAM create a key and inserts its row.  IAM and the database are two *)
(* stores that no transaction spans, and the list of keys is as old as the *)
(* process.  Faults are lost answers to an IAM call, which boto sends      *)
(* again, processes that die, and keys the student deletes without the     *)
(* tool, as get_user_policy() permits ("iam:*AccessKey*").                 *)
(***************************************************************************)
EXTENDS Integers, Sequences, FiniteSets

CONSTANTS Util,       \* ec2_util.py processes of the account
          Key,        \* the access keys IAM can issue
          FirstKey,   \* the key the account starts with
          MaxFaults   \* bound: faults in a behaviour

ASSUME CredentialsAssumption == /\ IsFiniteSet(Util) /\ Util # {}
                                /\ IsFiniteSet(Key)
                                /\ FirstKey \in Key
                                /\ MaxFaults \in Nat

VARIABLES proc,    \* proc[p]: where ec2_util.py process p is
          iam,     \* the keys that IAM accepts
          issued,  \* the keys that IAM has ever issued
          rows,    \* the rows of access_keys, in the order SELECT returns them
          harmed,  \* the keys that a fault has hit
          faults   \* number of faults

vars == <<proc, iam, issued, rows, harmed, faults>>

Elements(s) == {s[n] : n \in DOMAIN s}

Recorded == Elements(rows)

Idle == [pc |-> "idle"]

Init == /\ proc = [p \in Util |-> Idle]
        /\ iam = {FirstKey}
        /\ issued = {FirstKey}
        /\ rows = <<FirstKey>>
        /\ harmed = {}
        /\ faults = 0

Become(p, s) == proc' = [proc EXCEPT ![p] = s]

Active == {p \in Util : proc[p].pc # "idle"}

\* Bound: a rotation starts only while every process that runs, and every
\* fault to come, can still have a new key.
FreshKeysLeft ==
    Cardinality(Key \ issued) > Cardinality(Active) + MaxFaults - faults

CachedKeysMutant == <<>>
CachedKeysTwiceMutant == rows \o rows

\* init_access_keys(): the list the process works from until it ends.
CachedKeys == rows

\* User(...) is constructed.
Start(p) == /\ proc[p].pc = "idle"
            /\ FreshKeysLeft
            /\ Become(p, [pc |-> "rotating", todo |-> CachedKeys])
            /\ UNCHANGED <<iam, issued, rows, harmed, faults>>

\* A key IAM has not issued before; which one makes no difference.
NewKey == CHOOSE k \in Key : k \notin issued

DeletesNext(p) == proc[p].pc = "rotating" /\ proc[p].todo # <<>>

\* (FreshKeysLeft sees to it that issued # Key.)
Creates(p) == proc[p].pc = "rotating" /\ proc[p].todo = <<>> /\ issued # Key

IamWithoutMutant(k) == iam

\* The effect of iam.delete_access_key.
IamWithout(k) == iam \ {k}

\* delete_access_key: IAM deletes the next key in the list and answers.
DeleteAtIam(p) ==
    /\ DeletesNext(p)
    /\ Head(proc[p].todo) \in iam
    /\ iam' = IamWithout(Head(proc[p].todo))
    /\ Become(p, [pc |-> "deleted", todo |-> proc[p].todo])
    /\ UNCHANGED <<issued, rows, harmed, faults>>

\* IAM does not know the key: the exception ends the process.
DeleteRefused(p) ==
    /\ DeletesNext(p)
    /\ Head(proc[p].todo) \notin iam
    /\ Become(p, Idle)
    /\ UNCHANGED <<iam, issued, rows, harmed, faults>>

RowOf(k) == CHOOSE n \in DOMAIN rows : rows[n] = k

RowsWithoutMutant(k) == rows

\* DELETE FROM access_keys WHERE access_key=? AND user_name=?  The key is the
\* table's primary key: there is one such row or none.
RowsWithout(k) ==
    IF k \in Recorded
      THEN [n \in 1 .. Len(rows) - 1 |-> IF n < RowOf(k) THEN rows[n] ELSE rows[n + 1]]
      ELSE rows

\* The audit line and the transaction that deletes the row.
DeleteRow(p) ==
    /\ proc[p].pc = "deleted"
    /\ rows' = RowsWithout(Head(proc[p].todo))
    /\ Become(p, [pc |-> "rotating", todo |-> Tail(proc[p].todo)])
    /\ UNCHANGED <<iam, issued, harmed, faults>>

\* create_access_key: IAM issues a new key and answers.
CreateAtIam(p) ==
    /\ Creates(p)
    /\ iam' = iam \cup {NewKey}
    /\ issued' = issued \cup {NewKey}
    /\ Become(p, [pc |-> "created", key |-> NewKey])
    /\ UNCHANGED <<rows, harmed, faults>>

RowsWithMutant(k) == rows

\* INSERT OR IGNORE INTO access_keys
RowsWith(k) == IF k \in Recorded THEN rows ELSE Append(rows, k)

\* The audit line and the transaction that inserts the row; then the process
\* prints the keys and ends.
InsertRow(p) ==
    /\ proc[p].pc = "created"
    /\ rows' = RowsWith(proc[p].key)
    /\ Become(p, Idle)
    /\ UNCHANGED <<iam, issued, harmed, faults>>

-----------------------------------------------------------------------------
(* Faults *)

Fault(hit) == /\ faults < MaxFaults
              /\ faults' = faults + 1
              /\ harmed' = harmed \cup hit

\* IAM carries out the call, but the answer is lost: boto transmits it again,
\* or has done so often enough and raises.
DeleteAnswerLost(p) ==
    /\ DeletesNext(p)
    /\ Head(proc[p].todo) \in iam
    /\ iam' = IamWithout(Head(proc[p].todo))
    /\ Fault({Head(proc[p].todo)})
    /\ Become(p, proc[p]) \/ Become(p, Idle)
    /\ UNCHANGED <<issued, rows>>

CreateAnswerLost(p) ==
    /\ Creates(p)
    /\ iam' = iam \cup {NewKey}
    /\ issued' = issued \cup {NewKey}
    /\ Fault({NewKey})
    /\ Become(p, proc[p]) \/ Become(p, Idle)
    /\ UNCHANGED rows

\* The key a process holds between its change at IAM and its change in the
\* database.
InHand(p) == CASE proc[p].pc = "deleted" -> {Head(proc[p].todo)}
               [] proc[p].pc = "created" -> {proc[p].key}
               [] OTHER -> {}

\* The process dies, no transmission gets through, or the database is locked.
Abort(p) == /\ proc[p].pc # "idle"
            /\ Fault(InHand(p))
            /\ Become(p, Idle)
            /\ UNCHANGED <<iam, issued, rows>>

\* The student deletes a key with the IAM tools.
StudentDeletes(k) == /\ k \in iam
                     /\ iam' = iam \ {k}
                     /\ Fault({k})
                     /\ UNCHANGED <<proc, issued, rows>>

-----------------------------------------------------------------------------

\* The steps of a rotation that no fault disturbs.
Proceed(p) == \/ DeleteAtIam(p) \/ DeleteRefused(p) \/ DeleteRow(p)
              \/ CreateAtIam(p) \/ InsertRow(p)

Next == \/ \E p \in Util : \/ Start(p) \/ Proceed(p) \/ Abort(p)
                           \/ DeleteAnswerLost(p) \/ CreateAnswerLost(p)
        \/ \E k \in Key : StudentDeletes(k)

Spec == Init /\ [][Next]_vars

\* A process that runs gets on.
FairSpec == Spec /\ \A p \in Util : WF_vars(Proceed(p))

-----------------------------------------------------------------------------

RotatingStates == [pc : {"rotating"}, todo : Seq(Key)]

DeletedStates == [pc : {"deleted"}, todo : Seq(Key) \ {<<>>}]

CreatedStates == [pc : {"created"}, key : Key]

Distinct(s) == \A m, n \in DOMAIN s : s[m] = s[n] => m = n

\* The values the variables range over; a key that works has been issued, and
\* neither the table nor the list of a process names a key twice.
TypeOK ==
    /\ proc \in [Util -> {Idle} \cup RotatingStates \cup DeletedStates \cup CreatedStates]
    /\ issued \subseteq Key
    /\ iam \subseteq issued
    /\ rows \in Seq(issued)
    /\ harmed \subseteq issued
    /\ faults \in 0 .. MaxFaults
    /\ Distinct(rows)
    /\ \A p \in Util : proc[p].pc \in {"rotating", "deleted"} => Distinct(proc[p].todo)

\* A key the database holds (and ec2_util.py --list shows) works, unless a
\* process is about to delete its row or a fault has hit it: overlapping
\* rotations alone never leave a dead key behind.
RecordedKeysWork ==
    \A k \in Recorded : \/ k \in iam
                        \/ k \in harmed
                        \/ \E p \in Util : k \in InHand(p)

\* A key that works is in the database, where the next rotation finds it,
\* unless a process is about to insert its row or a fault has hit it.
WorkingKeysAreRecorded ==
    \A k \in iam : \/ k \in Recorded
                   \/ k \in harmed
                   \/ \E p \in Util : k \in InHand(p)

\* Rotations that overlap may each add a key, but they never pile keys up,
\* faults or not: there is at most one for each process that can run at once,
\* because a process has deleted the key it added last before it adds one.
OneKeyPerProcess == Len(rows) <= Cardinality(Util)

\* Without faults, however rotations overlap, delete each other's keys and refuse
\* each other, the student is never locked out: whenever none of them runs, the
\* account has a key in the database, and all keys there work.
NeverLockedOut ==
    faults = 0 /\ Active = {} => Recorded # {} /\ Recorded \subseteq iam

\* Without faults, however rotations overlap and refuse each other, the
\* account ends up with a key in the database, and all keys there work.
RotationsConverge == \/ <>(faults > 0)
                     \/ <>[](Recorded # {} /\ Recorded \subseteq iam)
=============================================================================
