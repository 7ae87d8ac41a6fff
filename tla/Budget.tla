------------------------------- MODULE Budget -------------------------------
(***************************************************************************)
(* What run_instances (ec2-wrappers/subaccounts.py) promises about one     *)
(* account, with everything but the arithmetic of the limit left out.      *)
(*                                                                         *)
(* A runner (one ec2_runner.py process) compares the account's cost with   *)
(* the limit and from then on holds a claim: it may add `extra' to the     *)
(* cost up to `left' times, once per transmission of its launch call.      *)
(* Nothing links the comparison to the addition, so claims of several      *)
(* runners are open side by side and each was approved against a cost that *)
(* the others have since raised.  The account's cost only falls when       *)
(* instances end, which may happen at any time.                            *)
(***************************************************************************)
EXTENDS Integers, FiniteSets

CONSTANTS Runner,  \* the processes that may launch for the account
          Sends,   \* how often one launch call can be transmitted
          Limit    \* SPEND_LIMIT

ASSUME BudgetAssumption == /\ IsFiniteSet(Runner)
                           /\ Sends \in Nat \ {0}
                           /\ Limit \in Nat

VARIABLES cost,    \* what the account's instances cost now
          extra,   \* extra[p]: the cost p's open claim adds per transmission
          left     \* left[p]: the transmissions p's open claim has left

budgetVars == <<cost, extra, left>>

BudgetInit == /\ cost = 0
              /\ extra = [p \in Runner |-> 0]
              /\ left = [p \in Runner |-> 0]

RoomMutant == 0 .. Limit
RoomTypeMutant == 0 .. Limit - cost + 1

\* The additions that fit under the limit.
Room == 0 .. Limit - cost

\* The comparison with the limit succeeds: a claim opens, the cost does not
\* change yet.
Claim(p) == /\ left[p] = 0
            /\ left' = [left EXCEPT ![p] = Sends]
            /\ \E e \in Room : extra' = [extra EXCEPT ![p] = e]
            /\ UNCHANGED cost

\* A transmission, or the end, of an open claim: it has its effect or none,
\* and leaves the claim with fewer transmissions or closed.
Use(p) == /\ left[p] > 0
          /\ \E n \in 0 .. left[p] - 1, d \in {0, extra[p]} :
                /\ cost' = cost + d
                /\ left' = [left EXCEPT ![p] = n]
                /\ extra' = [extra EXCEPT ![p] = IF n = 0 THEN 0 ELSE @]

\* Instances of the account end.
Reclaim == /\ cost' \in 0 .. cost
           /\ UNCHANGED <<extra, left>>

BudgetNext == \/ \E p \in Runner : Claim(p) \/ Use(p)
              \/ Reclaim

BudgetSpec == BudgetInit /\ [][BudgetNext]_budgetVars

-----------------------------------------------------------------------------

\* The values the variables range over.
BudgetTypeOK == /\ cost \in Nat
                /\ extra \in [Runner -> 0 .. Limit]
                /\ left \in [Runner -> 0 .. Sends]

\* The most the account can cost: every runner was approved while the account
\* was empty and every transmission of every launch call took effect.
Ceiling == Cardinality(Runner) * Sends * Limit

\* The bound that the check in run_instances does give an account: not the
\* limit, but the limit times the transmissions of the runners that can be
\* between the check and the launch at the same time.
CostBounded == cost <= Ceiling

\* The transmissions still possible, as a set: one element for each
\* transmission each open claim has left.
Tokens == {t \in Runner \X (1 .. Sends) : t[2] <= left[t[1]]}

\* The inductive form of CostBounded.  While claims are open, the one with a
\* token t was approved below the limit, so the cost plus t's own addition plus
\* a whole limit for each other token stays below the ceiling.
CostInv == /\ Tokens = {} => CostBounded
           /\ Tokens # {} =>
                \E t \in Tokens :
                   cost + extra[t[1]] + Limit * (Cardinality(Tokens) - 1) <= Ceiling
=============================================================================
