---------------------------- MODULE BudgetProofs ----------------------------
(***************************************************************************)
(* The ceiling of an account's cost holds for any number of runners, any   *)
(* number of transmissions and any limit.                                  *)
(***************************************************************************)
EXTENDS Budget, FiniteSetTheorems, TLAPS

\* Arithmetic the invariant rests on: a number of tokens that is at most
\* Cardinality(Runner) * Sends is worth at most the ceiling.
LEMMA Product ==
  ASSUME NEW n \in Nat, NEW m \in Nat, NEW l \in Nat, n <= m
  PROVE  /\ l * n \in Nat
         /\ l * n <= l * m
         /\ l * (n - 1) = l * n - l
  OBVIOUS

\* With two tokens or more, the tokens beyond the first are worth a limit.
LEMMA LimitOnce ==
  ASSUME NEW n \in Nat, NEW l \in Nat, n >= 2
  PROVE  l <= l * (n - 1)
  BY Product, 1 <= n - 1, n - 1 \in Nat, l * 1 = l

\* All the transmissions there can be, and how many they are.
LEMMA TokensBound ==
  BudgetTypeOK => /\ IsFiniteSet(Tokens)
                  /\ Cardinality(Tokens) \in Nat
                  /\ Cardinality(Tokens) <= Cardinality(Runner) * Sends
<1> SUFFICES ASSUME BudgetTypeOK
             PROVE  /\ IsFiniteSet(Tokens)
                    /\ Cardinality(Tokens) \in Nat
                    /\ Cardinality(Tokens) <= Cardinality(Runner) * Sends
  OBVIOUS
<1> DEFINE All == Runner \X (1 .. Sends)
<1>1. IsFiniteSet(1 .. Sends) /\ Cardinality(1 .. Sends) = Sends
  BY FS_Interval, BudgetAssumption
<1>2. IsFiniteSet(All) /\ Cardinality(All) = Cardinality(Runner) * Sends
  BY <1>1, FS_Product, BudgetAssumption
<1>3. Tokens \in SUBSET All
  BY DEF Tokens
<1> QED
  BY <1>2, <1>3, FS_Subset, FS_CardinalityType

\* The same of the next state.
LEMMA TokensBoundNext ==
  BudgetTypeOK' => (/\ IsFiniteSet(Tokens)
                    /\ Cardinality(Tokens) \in Nat
                    /\ Cardinality(Tokens) <= Cardinality(Runner) * Sends)'
  BY TokensBound, PTL

-----------------------------------------------------------------------------

\* The variables keep their ranges: the addition of a claim never exceeds the
\* limit, and a claim never has more transmissions than a call can take.
THEOREM BudgetTypeCorrect == BudgetSpec => []BudgetTypeOK
<1>1. BudgetInit => BudgetTypeOK
  BY BudgetAssumption DEF BudgetInit, BudgetTypeOK
<1>2. BudgetTypeOK /\ [BudgetNext]_budgetVars => BudgetTypeOK'
  <2> SUFFICES ASSUME BudgetTypeOK, [BudgetNext]_budgetVars
               PROVE  BudgetTypeOK'
    OBVIOUS
  <2>1. ASSUME NEW p \in Runner, Claim(p)
        PROVE  BudgetTypeOK'
    BY <2>1, BudgetAssumption DEF BudgetTypeOK, Claim, Room
  <2>2. ASSUME NEW p \in Runner, Use(p)
        PROVE  BudgetTypeOK'
    <3>1. PICK n \in 0 .. left[p] - 1, d \in {0, extra[p]} :
             /\ cost' = cost + d
             /\ left' = [left EXCEPT ![p] = n]
             /\ extra' = [extra EXCEPT ![p] = IF n = 0 THEN 0 ELSE @]
      BY <2>2 DEF Use
    <3>2. n \in 0 .. Sends /\ d \in Nat
      BY BudgetAssumption DEF BudgetTypeOK
    <3> QED
      BY <3>1, <3>2, BudgetAssumption DEF BudgetTypeOK
  <2>3. CASE Reclaim
    BY <2>3 DEF BudgetTypeOK, Reclaim
  <2>4. CASE UNCHANGED budgetVars
    BY <2>4 DEF BudgetTypeOK, budgetVars
  <2> QED
    BY <2>1, <2>2, <2>3, <2>4 DEF BudgetNext
<1> QED
  BY <1>1, <1>2, PTL DEF BudgetSpec

\* The invariant bounds the cost in every state.
LEMMA InvBounds ==
  ASSUME BudgetTypeOK, CostInv
  PROVE  CostBounded
<1>1. CASE Tokens = {}
  BY <1>1 DEF CostInv
<1>2. CASE Tokens # {}
  <2>1. PICK t \in Tokens :
           cost + extra[t[1]] + Limit * (Cardinality(Tokens) - 1) <= Ceiling
    BY <1>2 DEF CostInv
  <2>2. extra[t[1]] \in Nat /\ cost \in Nat
    BY BudgetAssumption DEF Tokens, BudgetTypeOK
  <2>3. Cardinality(Tokens) - 1 \in Nat
    BY <1>2, TokensBound, FS_EmptySet
  <2>4. Limit * (Cardinality(Tokens) - 1) \in Nat
    BY <2>3, BudgetAssumption, Product
  <2>5. Ceiling \in Nat
    BY BudgetAssumption, FS_CardinalityType DEF Ceiling
  <2> QED
    BY <2>1, <2>2, <2>4, <2>5 DEF CostBounded
<1> QED
  BY <1>1, <1>2

\* A claim is opened against a cost below the limit, so it can itself be the
\* witness of the invariant, whatever other claims are open.
LEMMA ClaimKeeps ==
  ASSUME BudgetTypeOK, BudgetTypeOK', NEW p \in Runner, Claim(p)
  PROVE  CostInv'
<1> DEFINE t == <<p, 1>>
<1>1. t \in Tokens'
  BY BudgetAssumption DEF Claim, Tokens, BudgetTypeOK
<1>2. cost' + extra'[p] <= Limit
  BY BudgetAssumption DEF Claim, Room, BudgetTypeOK
<1>3. /\ IsFiniteSet(Tokens')
      /\ Cardinality(Tokens') \in Nat
      /\ Cardinality(Tokens') <= Cardinality(Runner) * Sends
  BY TokensBoundNext
<1>4. Cardinality(Runner) * Sends \in Nat /\ Ceiling = Limit * (Cardinality(Runner) * Sends)
  BY BudgetAssumption, FS_CardinalityType DEF Ceiling
<1>5. /\ Limit * Cardinality(Tokens') <= Ceiling
      /\ Limit * (Cardinality(Tokens') - 1) = Limit * Cardinality(Tokens') - Limit
      /\ Limit * Cardinality(Tokens') \in Nat
  BY <1>3, <1>4, BudgetAssumption, Product
<1>6. cost' \in Nat /\ extra'[p] \in Nat /\ Ceiling \in Nat /\ Limit \in Nat
  BY <1>4, BudgetAssumption, Product DEF BudgetTypeOK
<1>7. cost' + extra'[t[1]] + Limit * (Cardinality(Tokens') - 1) <= Ceiling
  BY <1>2, <1>5, <1>6
<1> QED
  BY <1>1, <1>7 DEF CostInv, Ceiling

\* When instances end, the cost falls and the claims stay.
LEMMA ReclaimKeeps ==
  ASSUME BudgetTypeOK, CostInv, Reclaim
  PROVE  CostInv'
<1>1. /\ Tokens' = Tokens /\ extra' = extra
      /\ cost' \in Nat /\ cost \in Nat /\ cost' <= cost
  BY DEF Reclaim, Tokens, BudgetTypeOK
<1>2. CASE Tokens = {}
  <2>1. Ceiling \in Nat
    BY BudgetAssumption, FS_CardinalityType DEF Ceiling
  <2> QED
    BY <1>1, <1>2, <2>1 DEF CostInv, CostBounded, Ceiling
<1>3. CASE Tokens # {}
  <2>1. PICK t \in Tokens :
           cost + extra[t[1]] + Limit * (Cardinality(Tokens) - 1) <= Ceiling
    BY <1>3 DEF CostInv
  <2>2. extra[t[1]] \in Nat
    BY BudgetAssumption DEF Tokens, BudgetTypeOK
  <2>3. Limit * (Cardinality(Tokens) - 1) \in Int
    BY TokensBound, BudgetAssumption
  <2>4. Ceiling \in Nat
    BY BudgetAssumption, FS_CardinalityType DEF Ceiling
  <2>5. cost' + extra'[t[1]] + Limit * (Cardinality(Tokens') - 1) <= Ceiling
    BY <1>1, <2>1, <2>2, <2>3, <2>4
  <2> QED
    BY <1>1, <1>3, <2>5 DEF CostInv, Ceiling
<1> QED
  BY <1>2, <1>3

\* A use takes at least one token away, which is worth a whole limit in the
\* invariant, and adds at most the limit.
LEMMA UseKeeps ==
  ASSUME BudgetTypeOK, BudgetTypeOK', CostInv, NEW p \in Runner, Use(p)
  PROVE  CostInv'
<1> DEFINE gone == <<p, left[p]>>
           N == Cardinality(Tokens)
           M == Cardinality(Tokens')
<1>1. PICK n \in 0 .. left[p] - 1, d \in {0, extra[p]} :
         /\ cost' = cost + d
         /\ left' = [left EXCEPT ![p] = n]
         /\ extra' = [extra EXCEPT ![p] = IF n = 0 THEN 0 ELSE @]
  BY DEF Use
<1>2. gone \in Tokens /\ gone \notin Tokens'
  BY <1>1, BudgetAssumption DEF Use, Tokens, BudgetTypeOK
<1>3. Tokens' \subseteq Tokens
  BY <1>1, BudgetAssumption DEF Tokens, BudgetTypeOK
<1>4. IsFiniteSet(Tokens) /\ N \in Nat
  BY TokensBound
<1>5. M \in Nat /\ M <= N - 1
  <2>1. Tokens' \in SUBSET (Tokens \ {gone})
    BY <1>2, <1>3
  <2>2. IsFiniteSet(Tokens \ {gone}) /\ Cardinality(Tokens \ {gone}) = N - 1
    BY <1>2, <1>4, FS_RemoveElement
  <2> QED
    BY <2>1, <2>2, FS_Subset, FS_CardinalityType
<1>6. \A t \in Tokens' : extra'[t[1]] = extra[t[1]] /\ extra[t[1]] \in 0 .. Limit
  <2> SUFFICES ASSUME NEW t \in Tokens'
               PROVE  extra'[t[1]] = extra[t[1]] /\ extra[t[1]] \in 0 .. Limit
    OBVIOUS
  <2>1. t[1] \in Runner /\ t[2] \in 1 .. Sends /\ t[2] <= left'[t[1]]
    BY DEF Tokens
  <2>2. t[1] = p => n # 0
    BY <1>1, <2>1, BudgetAssumption DEF BudgetTypeOK
  <2> QED
    BY <1>1, <2>1, <2>2 DEF BudgetTypeOK
<1>7. PICK s \in Tokens : cost + extra[s[1]] + Limit * (N - 1) <= Ceiling
  BY <1>2 DEF CostInv
<1>8. /\ s[1] \in Runner
      /\ extra[s[1]] \in 0 .. Limit
      /\ extra[p] \in 0 .. Limit
      /\ cost \in Nat
      /\ d \in 0 .. Limit
  BY <1>1, BudgetAssumption DEF Tokens, BudgetTypeOK
<1>9. /\ Limit * (N - 1) \in Nat
      /\ Ceiling \in Nat
      /\ Limit \in Nat
  <2>1. N - 1 \in Nat
    BY <1>4, <1>5
  <2>2. Cardinality(Runner) * Sends \in Nat
    BY BudgetAssumption, FS_CardinalityType
  <2> QED
    BY <2>1, <2>2, BudgetAssumption, FS_CardinalityType DEF Ceiling
\* The cost after the use, and one more limit for every token that is left.
<1>10. CASE Tokens' = {}
  <2>1. cost' <= Ceiling
    <3>1. CASE d = 0
      BY <1>1, <1>7, <1>8, <1>9, <3>1
    <3>2. CASE d # 0 /\ s[1] = p
      BY <1>1, <1>7, <1>8, <1>9, <3>2
    <3>3. CASE d # 0 /\ s[1] # p
      <4>1. s # gone
        BY <3>3
      <4>2. N >= 2
        <5>1. Cardinality(Tokens \ {gone}) = N - 1 /\ IsFiniteSet(Tokens \ {gone})
          BY <1>2, <1>4, FS_RemoveElement
        <5>2. s \in Tokens \ {gone}
          BY <4>1
        <5> QED
          BY <5>1, <5>2, <1>4, FS_EmptySet, FS_CardinalityType
      <4>3. Limit <= Limit * (N - 1)
        BY <4>2, <1>4, <1>9, LimitOnce
      <4> QED
        BY <1>1, <1>7, <1>8, <1>9, <4>3
    <3> QED
      BY <3>1, <3>2, <3>3
  <2> QED
    BY <1>10, <2>1 DEF CostInv, CostBounded, Ceiling
<1>11. CASE Tokens' # {}
  <2>1. M >= 1
    <3>1. IsFiniteSet(Tokens')
      BY <1>3, <1>4, FS_Subset
    <3> QED
      BY <1>5, <1>11, <3>1, FS_EmptySet
  <2>2. /\ Limit * M <= Limit * (N - 1)
        /\ Limit * (M - 1) = Limit * M - Limit
        /\ Limit * M \in Nat
    BY <1>4, <1>5, <1>9, Product
  <2>3. CASE d # 0 /\ s[1] # p /\ s \in Tokens'
    <3>1. cost' + extra'[s[1]] + Limit * (M - 1) <= Ceiling
      BY <1>1, <1>6, <1>7, <1>8, <1>9, <2>2, <2>3
    <3> QED
      BY <1>11, <2>3, <3>1 DEF CostInv, Ceiling
  <2>4. CASE d = 0 \/ s[1] = p
    <3>1. PICK t \in Tokens' : TRUE
      BY <1>11
    <3>2. cost' + extra'[t[1]] + Limit * (M - 1) <= Ceiling
      BY <1>1, <1>6, <1>7, <1>8, <1>9, <2>2, <2>4, <3>1
    <3> QED
      BY <1>11, <3>1, <3>2 DEF CostInv, Ceiling
  <2>5. s \in Tokens' \/ s[1] = p
    BY <1>1, <1>8, BudgetAssumption DEF Tokens, BudgetTypeOK
  <2> QED
    BY <2>3, <2>4, <2>5
<1> QED
  BY <1>10, <1>11

\* Whatever claims are open, the cost leaves room for all that they may still add:
\* one of them was approved below the limit, the others add a limit each at most.
THEOREM BudgetInvariant == BudgetSpec => []CostInv
<1>1. BudgetInit => CostInv
  <2> SUFFICES ASSUME BudgetInit PROVE CostInv
    OBVIOUS
  <2>1. Tokens = {}
    BY BudgetAssumption DEF BudgetInit, Tokens
  <2>2. CostBounded
    BY BudgetAssumption, FS_CardinalityType DEF BudgetInit, CostBounded, Ceiling
  <2> QED
    BY <2>1, <2>2 DEF CostInv
<1>2. BudgetTypeOK /\ BudgetTypeOK' /\ CostInv /\ [BudgetNext]_budgetVars => CostInv'
  <2> SUFFICES ASSUME BudgetTypeOK, BudgetTypeOK', CostInv, [BudgetNext]_budgetVars
               PROVE  CostInv'
    OBVIOUS
  <2>1. ASSUME NEW p \in Runner, Claim(p)
        PROVE  CostInv'
    BY <2>1, ClaimKeeps
  <2>2. ASSUME NEW p \in Runner, Use(p)
        PROVE  CostInv'
    BY <2>2, UseKeeps
  <2>3. CASE Reclaim
    BY <2>3, ReclaimKeeps
  <2>4. CASE UNCHANGED budgetVars
    BY <2>4 DEF budgetVars, CostInv, CostBounded, Tokens, Ceiling
  <2> QED
    BY <2>1, <2>2, <2>3, <2>4 DEF BudgetNext
<1> QED
  BY <1>1, <1>2, BudgetTypeCorrect, PTL DEF BudgetSpec

\* The ceiling: the account never costs more than the limit for each
\* transmission of each runner.
THEOREM BudgetBounded == BudgetSpec => []CostBounded
<1>1. BudgetTypeOK /\ CostInv => CostBounded
  BY InvBounds
<1> QED
  BY <1>1, BudgetTypeCorrect, BudgetInvariant, PTL
=============================================================================
