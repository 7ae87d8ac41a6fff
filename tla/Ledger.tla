------------------------------- MODULE Ledger -------------------------------
(***************************************************************************)
(* What the usage database (ec2-wrappers/record_usage.py) promises about   *)
(* the end of an instance: an end time is recorded only for an instance    *)
(* that is over, and once recorded it is final.  The hours charged to an   *)
(* account are computed from it.                                           *)
(***************************************************************************)
EXTENDS Integers

CONSTANT Instance

VARIABLES over,    \* the instances that have ended at EC2
          ended    \* ended[i]: the recorded end time, or Unrecorded

Unrecorded == -1

ledgerVars == <<over, ended>>

LedgerInit == /\ over = {}
              /\ ended = [i \in Instance |-> Unrecorded]

\* The instance ends at EC2; nothing is recorded yet.
End(i) == /\ i \notin over
          /\ over' = over \cup {i}
          /\ UNCHANGED ended

\* A poll records the end, once.
Record(i) == /\ i \in over
             /\ ended[i] = Unrecorded
             /\ ended'[i] \in Nat
             /\ ended' = [ended EXCEPT ![i] = ended'[i]]
             /\ UNCHANGED over

LedgerNext == \E i \in Instance : End(i) \/ Record(i)

LedgerSpec == LedgerInit /\ [][LedgerNext]_ledgerVars
=============================================================================
