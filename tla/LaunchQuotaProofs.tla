------------------------- MODULE LaunchQuotaProofs -------------------------
(***************************************************************************)
(* Launching without spot requests implements Budget, so the counted cost  *)
(* of an account has Budget's ceiling, for every set of processes, every   *)
(* number of transmissions, every limit and every set of requests.         *)
(***************************************************************************)
EXTENDS LaunchQuota, FiniteSetTheorems, TLAPS

\* Budget's theorems, under the mapping that LaunchQuota states.
BP == INSTANCE BudgetProofs WITH Limit <- SpendLimit, cost <- CostInstances,
                                 extra <- claimExtra, left <- claimLeft

\* INSTANCE_COST, entry by entry.
LEMMA Table ==
  /\ Types = {"m1.small", "m1.large", "m1.xlarge", "t1.micro", "m2.xlarge",
              "m2.2xlarge", "m2.4xlarge", "c1.medium", "c1.xlarge", "cc1.4xlarge"}
  /\ InstanceCost["m1.small"] = 10    /\ InstanceCost["m1.large"] = 40
  /\ InstanceCost["m1.xlarge"] = 80   /\ InstanceCost["t1.micro"] = 2
  /\ InstanceCost["m2.xlarge"] = 59   /\ InstanceCost["m2.2xlarge"] = 118
  /\ InstanceCost["m2.4xlarge"] = 236 /\ InstanceCost["c1.medium"] = 20
  /\ InstanceCost["c1.xlarge"] = 80   /\ InstanceCost["cc1.4xlarge"] = 188
  BY DEF Types, InstanceCost

\* A proposal costs a natural number of tenths.
LEMMA ProposalType ==
  ASSUME NEW t \in Types, NEW n \in Nat
  PROVE  CostProposal(t, n) \in Nat
<1>1. InstanceCost[t] \in Nat
  BY Table
<1> QED
  BY <1>1 DEF CostProposal

\* The counted cost is a natural number.
LEMMA CostType ==
  ASSUME TypeOK
  PROVE  CostInstances \in Nat
<1>1. live["own"] \in [Types -> Nat]
  BY DEF TypeOK, Kinds
<1> QED
  BY <1>1, Table DEF CostInstances

\* n more instances of type t cost what cost_proposal says, if their key is
\* one that running_instances() lists, and nothing otherwise.
LEMMA CostAdds ==
  ASSUME live \in [Kinds -> [Types -> Nat]],
         NEW k \in Kinds, NEW t \in Types, NEW n \in Int,
         live' = [live EXCEPT ![k][t] = @ + n]
  PROVE  CostInstances' = CostInstances + IF k = "own" THEN InstanceCost[t] * n ELSE 0
<1>1. live["own"] \in [Types -> Nat]
  BY DEF Kinds
<1>2. CASE k = "own"
  <2>1. live'["own"] = [live["own"] EXCEPT ![t] = @ + n]
    BY <1>2 DEF Kinds
  <2> QED
    BY <1>1, <1>2, <2>1, Table DEF CostInstances
<1>3. CASE k # "own"
  <2>1. live'["own"] = live["own"]
    BY <1>3 DEF Kinds
  <2>2. CostInstances' = CostInstances
    BY <2>1 DEF CostInstances
  <2>3. CostInstances \in Nat
    BY <1>1, Table DEF CostInstances
  <2> QED
    BY <1>3, <2>2, <2>3
<1> QED
  BY <1>2, <1>3

-----------------------------------------------------------------------------

\* What is left of a launch call after a transmission.
LEMMA ResendType ==
  ASSUME TypeOK, NEW p \in Runner, proc[p].pc = "sending"
  PROVE  /\ proc[p] \in SendingStates
         /\ Resend(p) \in {Idle} \cup SendingStates
         /\ Resend(p) # Idle => /\ proc[p].left - 1 \in 1 .. Sends
                                /\ Resend(p) = [proc[p] EXCEPT !.left = @ - 1]
<1>1. proc[p] \in SendingStates
  BY DEF TypeOK, Idle, PricedStates, SendingStates
<1>2. CASE proc[p].left > 1
  <2>1. proc[p].left - 1 \in 1 .. Sends
    BY <1>1, <1>2, QuotaAssumption DEF SendingStates
  <2>2. [proc[p] EXCEPT !.left = @ - 1] \in SendingStates
    BY <1>1, <2>1 DEF SendingStates
  <2> QED
    BY <1>1, <1>2, <2>1, <2>2 DEF Resend
<1>3. CASE ~ (proc[p].left > 1)
  BY <1>1, <1>3 DEF Resend
<1> QED
  BY <1>2, <1>3

\* EC2's side of a launch call, in the absence and presence of 'use_spot'.
LEMMA EffectType ==
  ASSUME TypeOK, NEW p \in Runner, proc[p].pc = "sending", Effect(p)
  PROVE  live' \in [Kinds -> [Types -> Nat]] /\ spot' \in [Kinds -> [Types -> Nat]]
<1>1. proc[p] \in SendingStates
  BY ResendType
<1>2. /\ proc[p].key \in Kinds
      /\ proc[p].type \in Types
      /\ proc[p].count \in Nat
  BY <1>1, QuotaAssumption DEF SendingStates
<1>3. CASE proc[p].spot
  <2>1. /\ live' = live
        /\ spot' = [spot EXCEPT ![proc[p].key][proc[p].type] = @ + proc[p].count]
    BY <1>3 DEF Effect
  <2> QED
    BY <1>2, <2>1 DEF TypeOK
<1>4. CASE ~ proc[p].spot
  <2>1. /\ spot' = spot
        /\ live' = [live EXCEPT ![proc[p].key][proc[p].type] = @ + proc[p].count]
    BY <1>4 DEF Effect
  <2> QED
    BY <1>2, <2>1 DEF TypeOK
<1> QED
  BY <1>3, <1>4

\* The type invariant, including that a claim is never for more than the limit.
THEOREM TypeCorrect == Spec => []TypeOK
<1>1. Init => TypeOK
  <2> SUFFICES ASSUME Init PROVE TypeOK
    OBVIOUS
  <2>1. \A p \in Runner : claimLeft[p] = 0
    BY DEF Init, claimLeft, Pending, Idle
  <2>2. proc \in [Runner -> {Idle} \cup PricedStates \cup SendingStates]
    BY DEF Init
  <2>3. live \in [Kinds -> [Types -> Nat]] /\ spot \in [Kinds -> [Types -> Nat]]
    BY DEF Init
  <2>4. making \in [Types -> Nat] /\ approvals \in 0 .. MaxApprovals
    BY QuotaAssumption DEF Init
  <2>5. refused \in BOOLEAN
    BY Zenon DEF Init
  <2> QED
    BY <2>1, <2>2, <2>3, <2>4, <2>5, Zenon DEF TypeOK
<1>2. TypeOK /\ [Next]_vars => TypeOK'
  <2> SUFFICES ASSUME TypeOK, [Next]_vars PROVE TypeOK'
    OBVIOUS
  <2> USE QuotaAssumption
  \* A runner that goes idle leaves nothing behind that the invariant is about.
  <2>0. ASSUME NEW p \in Runner, NEW s \in {Idle} \cup PricedStates \cup SendingStates,
               proc' = [proc EXCEPT ![p] = s],
               live' \in [Kinds -> [Types -> Nat]], spot' \in [Kinds -> [Types -> Nat]],
               making' \in [Types -> Nat], approvals' \in 0 .. MaxApprovals,
               refused' \in BOOLEAN,
               claimLeft'[p] # 0 => CostProposal(s.type, s.count) <= SpendLimit
        PROVE  TypeOK'
    <3>1. proc' \in [Runner -> {Idle} \cup PricedStates \cup SendingStates]
      BY <2>0 DEF TypeOK
    <3>2. ASSUME NEW q \in Runner, claimLeft'[q] # 0
          PROVE  CostProposal(proc'[q].type, proc'[q].count) <= SpendLimit
      <4>1. CASE q = p
        BY <2>0, <3>2, <4>1 DEF TypeOK
      <4>2. CASE q # p
        <5>1. proc'[q] = proc[q]
          BY <2>0, <4>2 DEF TypeOK
        <5>2. claimLeft'[q] = claimLeft[q]
          BY <5>1 DEF claimLeft, Pending
        <5> QED
          BY <3>2, <5>1, <5>2 DEF TypeOK
      <4> QED
        BY <4>1, <4>2
    <3> QED
      BY <2>0, <3>1, <3>2 DEF TypeOK
  <2>1. ASSUME NEW p \in Runner, Price(p)
        PROVE  TypeOK'
    <3>1. PICK r \in Requests, k \in KeyKinds, s \in SpotModes :
             proc' = [proc EXCEPT ![p] =
                        [pc |-> "priced", type |-> r[1], count |-> r[2], key |-> k,
                         spot |-> s, ok |-> WithinBudget(CostInstances, r[1], r[2])]]
      BY <2>1 DEF Price
    <3> DEFINE new == [pc |-> "priced", type |-> r[1], count |-> r[2], key |-> k,
                       spot |-> s, ok |-> WithinBudget(CostInstances, r[1], r[2])]
    <3>2. r[1] \in Types /\ r[2] \in Nat
      OBVIOUS
    <3>3. new \in PricedStates
      BY <3>2 DEF PricedStates, WithinBudget
    <3>4. claimLeft'[p] # 0 => new.ok
      BY <3>1 DEF claimLeft, Pending, TypeOK
    <3>5. new.ok => CostProposal(new.type, new.count) <= SpendLimit
      <4>1. CostInstances \in Nat /\ CostProposal(r[1], r[2]) \in Nat
        BY <3>2, CostType, ProposalType
      <4>2. new.ok = ~ (CostInstances + CostProposal(r[1], r[2]) > SpendLimit)
        BY Zenon DEF WithinBudget
      <4>3. ~ (CostInstances + CostProposal(r[1], r[2]) > SpendLimit)
               => CostProposal(r[1], r[2]) <= SpendLimit
        BY <4>1
      <4> QED
        BY <4>2, <4>3, Zenon
    <3> QED
      BY <2>0, <2>1, <3>1, <3>3, <3>4, <3>5 DEF Price, TypeOK
  <2>2. ASSUME NEW p \in Runner, Reject(p)
        PROVE  TypeOK'
    <3>1. claimLeft'[p] = 0
      BY <2>2 DEF Reject, claimLeft, Pending, Idle, TypeOK
    <3> QED
      BY <2>0, <2>2, <3>1 DEF Reject, TypeOK
  <2>3. ASSUME NEW p \in Runner, Approve(p)
        PROVE  TypeOK'
    <3> DEFINE new == [pc |-> "sending", type |-> proc[p].type, count |-> proc[p].count,
                       key |-> proc[p].key, spot |-> proc[p].spot, left |-> Sends]
    <3>1. proc[p] \in PricedStates
      BY <2>3 DEF Approve, TypeOK, Idle, SendingStates, PricedStates
    <3>2. new \in SendingStates
      BY <3>1 DEF PricedStates, SendingStates
    <3>3. CostProposal(new.type, new.count) <= SpendLimit
      <4>1. claimLeft[p] # 0
        BY <2>3 DEF Approve, claimLeft, Pending
      <4> QED
        BY <4>1 DEF TypeOK
    <3>4. making' \in [Types -> Nat]
      BY <2>3, <3>1 DEF Approve, LogMaking, PricedStates, TypeOK
    <3>5. approvals' \in 0 .. MaxApprovals
      BY <2>3 DEF Approve, TypeOK
    <3>6. /\ proc' = [proc EXCEPT ![p] = new]
          /\ UNCHANGED <<live, spot, refused>>
      BY <2>3 DEF Approve
    <3> QED
      BY <2>0, <3>2, <3>3, <3>4, <3>5, <3>6 DEF TypeOK
  <2>4. ASSUME NEW p \in Runner, TransmitAnswered(p)
        PROVE  TypeOK'
    <3>1. live' \in [Kinds -> [Types -> Nat]] /\ spot' \in [Kinds -> [Types -> Nat]]
      BY <2>4, EffectType DEF TransmitAnswered
    <3>2. claimLeft'[p] = 0
      BY <2>4 DEF TransmitAnswered, claimLeft, Pending, Idle, TypeOK
    <3> QED
      BY <2>0, <2>4, <3>1, <3>2 DEF TransmitAnswered, TypeOK
  <2>5. ASSUME NEW p \in Runner, proc[p].pc = "sending",
               proc' = [proc EXCEPT ![p] = Resend(p)],
               live' \in [Kinds -> [Types -> Nat]], spot' \in [Kinds -> [Types -> Nat]],
               UNCHANGED <<making, approvals, refused>>
        PROVE  TypeOK'
    <3>1. Resend(p) \in {Idle} \cup SendingStates
      BY <2>5, ResendType
    <3>2. claimLeft[p] # 0 => CostProposal(proc[p].type, proc[p].count) <= SpendLimit
      BY DEF TypeOK
    <3>3. claimLeft'[p] # 0 =>
             /\ claimLeft[p] # 0
             /\ Resend(p).type = proc[p].type
             /\ Resend(p).count = proc[p].count
      <4>1. CASE Resend(p) = Idle
        BY <2>5, <4>1 DEF claimLeft, Pending, Idle, TypeOK
      <4>2. CASE Resend(p) # Idle
        BY <2>5, <4>2, ResendType DEF claimLeft, SendingStates, TypeOK
      <4> QED
        BY <4>1, <4>2
    <3> QED
      BY <2>0, <2>5, <3>1, <3>2, <3>3 DEF TypeOK
  <2>6. ASSUME NEW p \in Runner, TransmitAnswerLost(p)
        PROVE  TypeOK'
    <3>1. live' \in [Kinds -> [Types -> Nat]] /\ spot' \in [Kinds -> [Types -> Nat]]
      BY <2>6, EffectType DEF TransmitAnswerLost
    <3> QED
      BY <2>5, <2>6, <3>1 DEF TransmitAnswerLost
  <2>7. ASSUME NEW p \in Runner, TransmitLost(p)
        PROVE  TypeOK'
    BY <2>5, <2>7 DEF TransmitLost, TypeOK
  <2>8. ASSUME NEW p \in Runner, Fail(p)
        PROVE  TypeOK'
    <3>1. claimLeft'[p] = 0
      BY <2>8 DEF Fail, claimLeft, Pending, Idle, TypeOK
    <3> QED
      BY <2>0, <2>8, <3>1 DEF Fail, TypeOK
  <2>9. ASSUME NEW k \in Kinds, NEW t \in Types,
               Terminate(k, t) \/ FulfilSpot(k, t) \/ CancelSpot(k, t)
        PROVE  TypeOK'
    <3>1. proc' = proc
      BY <2>9 DEF Terminate, FulfilSpot, CancelSpot
    <3>2. live' \in [Kinds -> [Types -> Nat]] /\ spot' \in [Kinds -> [Types -> Nat]]
      <4>1. CASE Terminate(k, t)
        BY <4>1 DEF Terminate, TypeOK
      <4>2. CASE FulfilSpot(k, t)
        BY <4>2 DEF FulfilSpot, TypeOK
      <4>3. CASE CancelSpot(k, t)
        BY <4>3 DEF CancelSpot, TypeOK
      <4> QED
        BY <2>9, <4>1, <4>2, <4>3
    <3>3. UNCHANGED <<proc, making, approvals, refused>>
      BY <2>9 DEF Terminate, FulfilSpot, CancelSpot
    <3>4. claimLeft' = claimLeft
      BY <3>1 DEF claimLeft, Pending
    <3> QED
      BY <3>2, <3>3, <3>4 DEF TypeOK
  <2>10. CASE UNCHANGED vars
    BY <2>10 DEF vars, TypeOK, claimLeft, Pending
  <2> QED
    BY <2>1, <2>2, <2>3, <2>4, <2>6, <2>7, <2>8, <2>9, <2>10 DEF Next, RunnerStep, Ec2Step
<1> QED
  BY <1>1, <1>2, PTL DEF Spec

-----------------------------------------------------------------------------
(* Refinement.  From here on no request has 'use_spot': a fulfilled spot     *)
(* request adds to the cost without any comparison with the limit.           *)

NoSpot == spot = [k \in Kinds |-> [t \in Types |-> 0]]

\* Nothing is ever asked for on the spot market.
LEMMA SpotStaysEmpty ==
  ASSUME TRUE \notin SpotModes
  PROVE  Spec => []NoSpot
<1>1. Init => NoSpot
  BY DEF Init, NoSpot
<1>2. TypeOK /\ NoSpot /\ [Next]_vars => NoSpot'
  <2> SUFFICES ASSUME TypeOK, NoSpot, [Next]_vars PROVE NoSpot'
    OBVIOUS
  <2>1. ASSUME NEW p \in Runner, RunnerStep(p)
        PROVE  spot' = spot
    <3>1. ASSUME proc[p].pc = "sending", Effect(p)
          PROVE  spot' = spot
      <4>1. proc[p].spot \in SpotModes
        BY <3>1, ResendType DEF SendingStates
      <4>2. ~ proc[p].spot
        BY <4>1, QuotaAssumption
      <4> QED
        BY <3>1, <4>2 DEF Effect
    <3> QED
      BY <2>1, <3>1 DEF RunnerStep, Price, Reject, Approve, TransmitAnswered,
                        TransmitAnswerLost, TransmitLost, Fail
  <2>2. ASSUME NEW k \in Kinds, NEW t \in Types,
               Terminate(k, t) \/ FulfilSpot(k, t) \/ CancelSpot(k, t)
        PROVE  spot' = spot
    <3>1. ~ (spot[k][t] > 0)
      BY DEF NoSpot
    <3> QED
      BY <2>2, <3>1 DEF Terminate, FulfilSpot, CancelSpot
  <2> QED
    BY <2>1, <2>2 DEF Next, Ec2Step, NoSpot, vars
<1> QED
  BY <1>1, <1>2, TypeCorrect, PTL DEF Spec

\* What the mapping says of a process in each of its states.
LEMMA Mapping ==
  ASSUME TypeOK, NEW p \in Runner
  PROVE  /\ claimLeft[p] \in 0 .. Sends
         /\ claimExtra[p] \in 0 .. SpendLimit
         /\ proc[p].pc = "sending" => /\ claimLeft[p] = proc[p].left
                                      /\ claimLeft[p] > 0
                                      /\ claimExtra[p] = Addition(p)
<1> USE QuotaAssumption
<1>1. proc[p] = Idle \/ proc[p] \in PricedStates \/ proc[p] \in SendingStates
  BY DEF TypeOK
<1>2. claimLeft[p] \in 0 .. Sends
  BY <1>1 DEF claimLeft, Pending, SendingStates, Idle, PricedStates
<1>3. proc[p].pc = "sending" => /\ claimLeft[p] = proc[p].left
                                /\ claimLeft[p] > 0
  BY <1>1, ResendType DEF claimLeft, SendingStates
<1>4. claimLeft[p] # 0 => proc[p].type \in Types /\ proc[p].count \in Nat
  BY <1>1 DEF claimLeft, Pending, SendingStates, Idle, PricedStates
<1>5. claimLeft[p] # 0 => Addition(p) \in 0 .. SpendLimit
  BY <1>4, ProposalType DEF TypeOK, Addition
<1>6. claimExtra[p] \in 0 .. SpendLimit
  BY <1>5 DEF claimExtra
<1> QED
  BY <1>2, <1>3, <1>6 DEF claimExtra

\* A step of p changes the mapping at p only.
LEMMA MappingElsewhere ==
  ASSUME TypeOK, NEW p \in Runner, NEW s, proc' = [proc EXCEPT ![p] = s]
  PROVE  /\ claimLeft' = [claimLeft EXCEPT ![p] = claimLeft'[p]]
         /\ claimExtra' = [claimExtra EXCEPT ![p] = claimExtra'[p]]
<1>1. ASSUME NEW q \in Runner, q # p
      PROVE  claimLeft'[q] = claimLeft[q] /\ claimExtra'[q] = claimExtra[q]
  <2>1. proc'[q] = proc[q]
    BY <1>1 DEF TypeOK
  <2>2. claimLeft'[q] = claimLeft[q]
    BY <2>1 DEF claimLeft, Pending
  <2> QED
    BY <2>1, <2>2 DEF claimExtra, Addition
<1>2. /\ claimLeft = [q \in Runner |-> claimLeft[q]]
      /\ claimLeft' = [q \in Runner |-> claimLeft'[q]]
      /\ claimExtra = [q \in Runner |-> claimExtra[q]]
      /\ claimExtra' = [q \in Runner |-> claimExtra'[q]]
  BY DEF claimLeft, claimExtra
<1> QED
  BY <1>1, <1>2

\* A step of p that leaves its claim and the cost alone is no step of Budget.
LEMMA NoStep ==
  ASSUME TypeOK, NEW p \in Runner, NEW s, proc' = [proc EXCEPT ![p] = s],
         claimLeft'[p] = claimLeft[p], claimExtra'[p] = claimExtra[p],
         CostInstances' = CostInstances
  PROVE  UNCHANGED BP!budgetVars
<1>1. claimLeft' = claimLeft /\ claimExtra' = claimExtra
  <2>1. /\ claimLeft = [q \in Runner |-> claimLeft[q]]
        /\ claimExtra = [q \in Runner |-> claimExtra[q]]
    BY DEF claimLeft, claimExtra
  <2> QED
    BY <2>1, MappingElsewhere
<1> QED
  BY <1>1 DEF BP!budgetVars

\* A step of p that uses its claim: n transmissions are left, and the cost
\* rises by the claim's addition or not at all.
LEMMA UseStep ==
  ASSUME TypeOK, NEW p \in Runner, NEW s, proc' = [proc EXCEPT ![p] = s],
         claimLeft[p] > 0,
         NEW n \in 0 .. claimLeft[p] - 1, claimLeft'[p] = n,
         claimExtra'[p] = IF n = 0 THEN 0 ELSE claimExtra[p],
         NEW d \in {0, claimExtra[p]}, CostInstances' = CostInstances + d
  PROVE  BP!Use(p)
<1>1. claimLeft' = [claimLeft EXCEPT ![p] = n]
  BY MappingElsewhere
<1>2. claimExtra' = [claimExtra EXCEPT ![p] = IF n = 0 THEN 0 ELSE @]
  BY MappingElsewhere
<1> QED
  BY <1>1, <1>2 DEF BP!Use

\* Effect without 'use_spot': the cost rises by the addition of p's claim.
LEMMA EffectCost ==
  ASSUME TypeOK, TRUE \notin SpotModes,
         NEW p \in Runner, proc[p].pc = "sending", Effect(p)
  PROVE  CostInstances' = CostInstances + claimExtra[p]
<1>1. /\ proc[p].key \in Kinds
      /\ proc[p].type \in Types
      /\ proc[p].count \in Nat
      /\ ~ proc[p].spot
  BY ResendType, QuotaAssumption DEF SendingStates
<1>2. live' = [live EXCEPT ![proc[p].key][proc[p].type] = @ + proc[p].count]
  BY <1>1 DEF Effect
<1>3. CostInstances' = CostInstances +
         IF proc[p].key = "own" THEN InstanceCost[proc[p].type] * proc[p].count ELSE 0
  <2>1. PICK k \in Kinds, t \in Types, n \in Int :
           k = proc[p].key /\ t = proc[p].type /\ n = proc[p].count
    BY <1>1
  <2>2. live' = [live EXCEPT ![k][t] = @ + n] /\ live \in [Kinds -> [Types -> Nat]]
    BY <1>2, <2>1 DEF TypeOK
  <2>3. CostInstances' = CostInstances + IF k = "own" THEN InstanceCost[t] * n ELSE 0
    BY <2>2, CostAdds
  <2> QED
    BY <2>1, <2>3
<1>4. claimExtra[p] = IF proc[p].key = "own"
                        THEN InstanceCost[proc[p].type] * proc[p].count ELSE 0
  BY Mapping DEF Addition, CostProposal
<1> QED
  BY <1>3, <1>4

\* Resend, in the terms of the mapping.
LEMMA ResendMapping ==
  ASSUME TypeOK, NEW p \in Runner, proc[p].pc = "sending",
         proc' = [proc EXCEPT ![p] = Resend(p)]
  PROVE  \E n \in 0 .. claimLeft[p] - 1 :
            /\ claimLeft'[p] = n
            /\ claimExtra'[p] = IF n = 0 THEN 0 ELSE claimExtra[p]
<1>1. claimLeft[p] = proc[p].left /\ claimLeft[p] \in 1 .. Sends
  BY Mapping, QuotaAssumption
<1>2. CASE Resend(p) = Idle
  <2>1. claimLeft'[p] = 0 /\ claimExtra'[p] = 0
    BY <1>2 DEF claimLeft, claimExtra, Pending, Idle, TypeOK
  <2> QED
    BY <1>1, <2>1
<1>3. CASE Resend(p) # Idle
  <2>1. /\ proc[p].left - 1 \in 1 .. Sends
        /\ proc'[p] = [proc[p] EXCEPT !.left = @ - 1]
        /\ proc[p] \in SendingStates
    BY <1>3, ResendType DEF TypeOK
  <2>2. /\ proc'[p].pc = "sending"
        /\ proc'[p].left = proc[p].left - 1
        /\ proc'[p].key = proc[p].key
        /\ proc'[p].type = proc[p].type
        /\ proc'[p].count = proc[p].count
    BY <2>1 DEF SendingStates
  <2>3. claimLeft'[p] = claimLeft[p] - 1 /\ claimLeft'[p] # 0
    BY <1>1, <2>1, <2>2 DEF claimLeft
  <2>4. claimExtra'[p] = claimExtra[p]
    BY <1>1, <2>2, <2>3, Mapping DEF claimExtra, Addition, CostProposal
  <2> QED
    BY <1>1, <2>3, <2>4
<1> QED
  BY <1>2, <1>3

\* Every step of a launching process is a step of Budget or none.
LEMMA RunnerRefines ==
  ASSUME TypeOK, TRUE \notin SpotModes, NEW p \in Runner, RunnerStep(p)
  PROVE  BP!Claim(p) \/ BP!Use(p) \/ UNCHANGED BP!budgetVars
<1> USE QuotaAssumption
<1>0. /\ CostInstances \in Nat
      /\ claimLeft[p] \in 0 .. Sends
      /\ claimExtra[p] \in 0 .. SpendLimit
  BY CostType, Mapping
\* A process that is idle afterwards has no claim then.
<1>1. proc' = [proc EXCEPT ![p] = Idle] => claimLeft'[p] = 0 /\ claimExtra'[p] = 0
  BY DEF claimLeft, claimExtra, Pending, Idle, TypeOK
<1>2. CASE Price(p)
  <2>1. PICK r \in Requests, k \in KeyKinds, s \in SpotModes :
           proc' = [proc EXCEPT ![p] =
                      [pc |-> "priced", type |-> r[1], count |-> r[2], key |-> k,
                       spot |-> s, ok |-> WithinBudget(CostInstances, r[1], r[2])]]
    BY <1>2 DEF Price
  <2> DEFINE new == [pc |-> "priced", type |-> r[1], count |-> r[2], key |-> k,
                     spot |-> s, ok |-> WithinBudget(CostInstances, r[1], r[2])]
             e == IF k = "own" THEN CostProposal(r[1], r[2]) ELSE 0
  <2>2. claimLeft[p] = 0 /\ claimExtra[p] = 0 /\ UNCHANGED live
    BY <1>2 DEF Price, claimLeft, claimExtra, Pending
  <2>3. CostInstances' = CostInstances
    BY <2>2 DEF CostInstances
  <2>4. proc'[p] = new
    BY <2>1 DEF TypeOK
  <2>5. r[1] \in Types /\ r[2] \in Nat
    OBVIOUS
  <2>6. CASE ~ WithinBudget(CostInstances, r[1], r[2])
    <3>1. claimLeft'[p] = 0
      BY <2>4, <2>6 DEF claimLeft, Pending
    <3>2. claimExtra'[p] = 0
      BY <3>1 DEF claimExtra
    <3> QED
      BY <2>1, <2>2, <2>3, <3>1, <3>2, NoStep
  <2>7. CASE WithinBudget(CostInstances, r[1], r[2])
    <3>1. claimLeft'[p] = Sends
      BY <2>4, <2>7 DEF claimLeft, Pending
    <3>2. claimExtra'[p] = e
      BY <2>4, <3>1 DEF claimExtra, Addition, CostProposal
    <3>3. e \in 0 .. SpendLimit /\ CostInstances + e <= SpendLimit
      <4>1. CostProposal(r[1], r[2]) \in Nat
        BY <2>5, ProposalType
      <4> QED
        BY <1>0, <2>7, <4>1 DEF WithinBudget
    <3>4. /\ claimLeft' = [claimLeft EXCEPT ![p] = Sends]
          /\ claimExtra' = [claimExtra EXCEPT ![p] = e]
      BY <2>1, <3>1, <3>2, MappingElsewhere
    <3>5. e \in BP!Room
      BY <1>0, <3>3 DEF BP!Room
    <3> HIDE DEF e
    <3> QED
      BY <2>2, <2>3, <3>4, <3>5 DEF BP!Claim
  <2> QED
    BY <2>6, <2>7
<1>3. CASE Reject(p)
  <2>1. claimLeft[p] = 0 /\ claimExtra[p] = 0 /\ CostInstances' = CostInstances
    BY <1>3 DEF Reject, claimLeft, claimExtra, Pending, CostInstances
  <2> QED
    BY <1>1, <1>3, <2>1, NoStep DEF Reject
<1>4. CASE Approve(p)
  <2>1. proc' = [proc EXCEPT ![p] =
                   [pc |-> "sending", type |-> proc[p].type, count |-> proc[p].count,
                    key |-> proc[p].key, spot |-> proc[p].spot, left |-> Sends]]
    BY <1>4 DEF Approve
  <2>2. claimLeft[p] = Sends /\ claimLeft'[p] = Sends
    BY <1>4, <2>1 DEF Approve, claimLeft, Pending, TypeOK
  <2>3. claimExtra'[p] = claimExtra[p]
    BY <1>4, <2>1, <2>2 DEF Approve, claimExtra, Addition, CostProposal, TypeOK
  <2>4. CostInstances' = CostInstances
    BY <1>4 DEF Approve, CostInstances
  <2> QED
    BY <2>1, <2>2, <2>3, <2>4, NoStep
<1>5. CASE TransmitAnswered(p)
  <2>1. CostInstances' = CostInstances + claimExtra[p]
    BY <1>5, EffectCost DEF TransmitAnswered
  <2>2. claimLeft[p] > 0
    BY <1>5, Mapping DEF TransmitAnswered
  <2>3. PICK n \in 0 .. claimLeft[p] - 1 :
           /\ claimLeft'[p] = n
           /\ claimExtra'[p] = IF n = 0 THEN 0 ELSE claimExtra[p]
    BY <1>0, <1>1, <1>5, <2>2 DEF TransmitAnswered
  <2> QED
    BY <1>5, <2>1, <2>2, <2>3, UseStep DEF TransmitAnswered
<1>6. CASE TransmitAnswerLost(p)
  <2>1. CostInstances' = CostInstances + claimExtra[p]
    BY <1>6, EffectCost DEF TransmitAnswerLost
  <2>2. claimLeft[p] > 0
    BY <1>6, Mapping DEF TransmitAnswerLost
  <2>3. PICK n \in 0 .. claimLeft[p] - 1 :
           /\ claimLeft'[p] = n
           /\ claimExtra'[p] = IF n = 0 THEN 0 ELSE claimExtra[p]
    BY <1>6, ResendMapping DEF TransmitAnswerLost
  <2> QED
    BY <1>6, <2>1, <2>2, <2>3, UseStep DEF TransmitAnswerLost
<1>7. CASE TransmitLost(p)
  <2>1. CostInstances' = CostInstances + 0
    BY <1>0, <1>7 DEF TransmitLost, CostInstances
  <2>2. claimLeft[p] > 0
    BY <1>7, Mapping DEF TransmitLost
  <2>3. PICK n \in 0 .. claimLeft[p] - 1 :
           /\ claimLeft'[p] = n
           /\ claimExtra'[p] = IF n = 0 THEN 0 ELSE claimExtra[p]
    BY <1>7, ResendMapping DEF TransmitLost
  <2> QED
    BY <1>7, <2>1, <2>2, <2>3, UseStep DEF TransmitLost
<1>8. CASE Fail(p)
  <2>1. CostInstances' = CostInstances /\ CostInstances' = CostInstances + 0
    BY <1>0, <1>8 DEF Fail, CostInstances
  <2>2. CASE claimLeft[p] > 0
    <3>1. PICK n \in 0 .. claimLeft[p] - 1 :
             /\ claimLeft'[p] = n
             /\ claimExtra'[p] = IF n = 0 THEN 0 ELSE claimExtra[p]
      BY <1>0, <1>1, <1>8, <2>2 DEF Fail
    <3> QED
      BY <1>8, <2>1, <2>2, <3>1, UseStep DEF Fail
  <2>3. CASE claimLeft[p] = 0
    <3>1. claimExtra[p] = 0
      BY <2>3 DEF claimExtra
    <3> QED
      BY <1>1, <1>8, <2>1, <2>3, <3>1, NoStep DEF Fail
  <2> QED
    BY <1>0, <2>2, <2>3
<1> QED
  BY <1>2, <1>3, <1>4, <1>5, <1>6, <1>7, <1>8 DEF RunnerStep

\* Without spot requests EC2 by itself only makes the account cheaper.
LEMMA Ec2Refines ==
  ASSUME TypeOK, NoSpot, Ec2Step
  PROVE  BP!Reclaim
<1>1. PICK k \in Kinds, t \in Types :
         Terminate(k, t) \/ FulfilSpot(k, t) \/ CancelSpot(k, t)
  BY DEF Ec2Step
<1>2. Terminate(k, t)
  <2>1. ~ (spot[k][t] > 0)
    BY DEF NoSpot
  <2> QED
    BY <1>1, <2>1 DEF FulfilSpot, CancelSpot
<1>3. live[k][t] > 0 /\ live \in [Kinds -> [Types -> Nat]]
  BY <1>2 DEF Terminate, TypeOK
<1>4. live' = [live EXCEPT ![k][t] = @ + (-1)]
  BY <1>2, <1>3 DEF Terminate
<1>5. CostInstances' = CostInstances + IF k = "own" THEN InstanceCost[t] * (-1) ELSE 0
  <2>1. PICK n \in Int : n = -1
    OBVIOUS
  <2>2. live' = [live EXCEPT ![k][t] = @ + n]
    BY <1>4, <2>1
  <2>3. CostInstances' = CostInstances + IF k = "own" THEN InstanceCost[t] * n ELSE 0
    BY <1>3, <2>2, CostAdds
  <2> QED
    BY <2>1, <2>3
<1>6. live' \in [Kinds -> [Types -> Nat]]
  BY <1>2, <1>3 DEF Terminate
<1>7. CostInstances \in Nat /\ CostInstances' \in Nat
  <2>1. live'["own"] \in [Types -> Nat]
    BY <1>6 DEF Kinds
  <2>2. CostInstances' \in Nat
    BY <2>1, Table DEF CostInstances
  <2> QED
    BY <2>2, CostType
<1>8. InstanceCost[t] \in Nat
  BY Table
<1>9. CostInstances' \in 0 .. CostInstances
  BY <1>5, <1>7, <1>8
<1>10. claimLeft' = claimLeft /\ claimExtra' = claimExtra
  BY <1>2 DEF Terminate, claimLeft, claimExtra, Addition, Pending
<1> QED
  BY <1>9, <1>10 DEF BP!Reclaim

\* Without spot requests, launching implements Budget.
THEOREM LaunchImplementsBudget ==
  ASSUME TRUE \notin SpotModes
  PROVE  Spec => BP!BudgetSpec
<1>1. Init => BP!BudgetInit
  <2> SUFFICES ASSUME Init PROVE BP!BudgetInit
    OBVIOUS
  <2>1. claimLeft = [p \in Runner |-> 0]
    BY DEF Init, claimLeft, Pending, Idle
  <2>2. claimExtra = [p \in Runner |-> 0]
    BY <2>1 DEF claimExtra
  <2>3. live["own"] = [t \in Types |-> 0]
    BY DEF Init, Kinds
  <2>4. CostInstances = 0
    BY <2>3, Table DEF CostInstances
  <2> QED
    BY <2>1, <2>2, <2>4 DEF BP!BudgetInit
<1>2. TypeOK /\ NoSpot /\ [Next]_vars => [BP!BudgetNext]_BP!budgetVars
  <2> SUFFICES ASSUME TypeOK, NoSpot, [Next]_vars
               PROVE  [BP!BudgetNext]_BP!budgetVars
    OBVIOUS
  <2>1. CASE \E p \in Runner : RunnerStep(p)
    BY <2>1, RunnerRefines DEF BP!BudgetNext
  <2>2. CASE Ec2Step
    BY <2>2, Ec2Refines DEF BP!BudgetNext
  <2>3. CASE UNCHANGED vars
    BY <2>3 DEF vars, BP!budgetVars, CostInstances, claimLeft, claimExtra, Addition, Pending
  <2> QED
    BY <2>1, <2>2, <2>3 DEF Next
<1> QED
  BY <1>1, <1>2, TypeCorrect, SpotStaysEmpty, PTL DEF Spec, BP!BudgetSpec

\* The same as the property that the model checker checks.
THEOREM LaunchRefinesBudget ==
  ASSUME TRUE \notin SpotModes
  PROVE  Spec => BudgetRefined
<1>1. BP!BudgetInit <=> B!BudgetInit
  BY DEF BP!BudgetInit, B!BudgetInit
<1>2. [BP!BudgetNext]_BP!budgetVars <=> [B!BudgetNext]_B!budgetVars
  BY DEF BP!BudgetNext, B!BudgetNext, BP!budgetVars, B!budgetVars, BP!Claim, B!Claim,
         BP!Room, B!Room, BP!Use, B!Use, BP!Reclaim, B!Reclaim
<1> QED
  BY <1>1, <1>2, LaunchImplementsBudget, PTL DEF BudgetRefined, BP!BudgetSpec, B!BudgetSpec

\* What BudgetProofs assumes of its constants holds of those it is given here,
\* and so does what it proves.
LEMMA BudgetCeiling ==
  /\ BP!IsFiniteSet(Runner) /\ Sends \in Nat \ {0} /\ SpendLimit \in Nat
  /\ BP!BudgetSpec => []BP!CostBounded
<1>1. /\ BP!IsFiniteSet(Runner)
      /\ Sends \in Nat \ {0}
      /\ SpendLimit \in Nat
  BY QuotaAssumption DEF BP!IsFiniteSet, IsFiniteSet
<1>2. BP!BudgetSpec => []BP!CostBounded
  BY <1>1, BP!BudgetBounded
<1> QED
  BY <1>1, <1>2

\* The ceiling of the counted cost, for any processes, retries and requests.
THEOREM SpendIsBounded ==
  ASSUME TRUE \notin SpotModes
  PROVE  Spec => []SpendBounded
<1>1. BP!CostBounded => SpendBounded
  BY DEF BP!CostBounded, BP!Ceiling, SpendBounded, BP!Cardinality, Cardinality
<1> QED
  BY <1>1, BudgetCeiling, LaunchImplementsBudget, PTL

\* One process at a time whose calls are not transmitted again keeps the
\* account within SPEND_LIMIT itself.
THEOREM SerialWithinLimit ==
  ASSUME TRUE \notin SpotModes, Cardinality(Runner) = 1, Sends = 1
  PROVE  Spec => []WithinSpendLimit
<1>1. SpendBounded => WithinSpendLimit
  BY QuotaAssumption DEF SpendBounded, WithinSpendLimit
<1> QED
  BY <1>1, SpendIsBounded, PTL
-----------------------------------------------------------------------------
(* Accountability.  What a launch call may still bring into existence is     *)
(* counted as a set of tokens, one for each instance of each transmission    *)
(* that is left, so that the sum over all processes is a cardinality.        *)

\* n[p] tokens of each process p.
Tokens(n) == {x \in Runner \X Nat : x[2] \in 1 .. n[x[1]]}

\* What p's launch call may still add to the instances of type t.
OwedNumber(p, t) ==
    IF proc[p].pc = "sending" /\ proc[p].type = t THEN proc[p].left * proc[p].count ELSE 0

Owed(t) == [p \in Runner |-> OwedNumber(p, t)]

\* The instances and open spot requests of type t under the account's keys.
Existing(t) == live["own"][t] + live["alias"][t] + spot["own"][t] + spot["alias"][t]

\* AuditCovers with the calls that are still under way.
CoverInv ==
    \A t \in Types :
        /\ IsFiniteSet(Tokens(Owed(t)))
        /\ Existing(t) + Cardinality(Tokens(Owed(t))) <= Sends * making[t]

\* There are i numbers from 1 to i.
LEMMA FirstNumbers ==
  ASSUME NEW i \in Nat
  PROVE  IsFiniteSet(1 .. i) /\ Cardinality(1 .. i) = i
  BY FS_Interval

\* Another number of tokens for one process changes their count by the difference.
LEMMA TokensOfOne ==
  ASSUME NEW n \in [Runner -> Nat], NEW m \in [Runner -> Nat], NEW p \in Runner,
         \A q \in Runner : q # p => m[q] = n[q],
         IsFiniteSet(Tokens(n))
  PROVE  /\ IsFiniteSet(Tokens(m))
         /\ Cardinality(Tokens(n)) \in Nat
         /\ Cardinality(Tokens(m)) \in Nat
         /\ Cardinality(Tokens(m)) - m[p] = Cardinality(Tokens(n)) - n[p]
<1> DEFINE Rest == {x \in Tokens(n) : x[1] # p}
           Of(i) == {p} \X (1 .. i)
<1>1. ASSUME NEW i \in Nat
      PROVE  IsFiniteSet(Of(i)) /\ Cardinality(Of(i)) = i
  <2>1. IsFiniteSet({p}) /\ Cardinality({p}) = 1
    BY FS_Singleton
  <2>2. IsFiniteSet(1 .. i) /\ Cardinality(1 .. i) = i
    BY <1>1, FirstNumbers
  <2> QED
    BY <2>1, <2>2, FS_Product
<1>2. IsFiniteSet(Rest) /\ Cardinality(Rest) \in Nat
  <2>1. Rest \subseteq Tokens(n)
    OBVIOUS
  <2> QED
    BY <2>1, FS_Subset, FS_CardinalityType
<1>3. ASSUME NEW k \in [Runner -> Nat], \A q \in Runner : q # p => k[q] = n[q]
      PROVE  IsFiniteSet(Tokens(k)) /\ Cardinality(Tokens(k)) = Cardinality(Rest) + k[p]
  <2>1. Tokens(k) = Rest \cup Of(k[p])
    BY <1>3 DEF Tokens
  <2>2. Rest \cap Of(k[p]) = {}
    OBVIOUS
  <2>3. k[p] \in Nat
    BY <1>3
  <2>4. IsFiniteSet(Of(k[p])) /\ Cardinality(Of(k[p])) = k[p]
    BY <1>1, <2>3
  <2> HIDE DEF Rest, Of
  <2>5. IsFiniteSet(Rest \cup Of(k[p]))
    BY <1>2, <2>4, FS_Union
  <2>6. Cardinality(Rest \cup Of(k[p])) = Cardinality(Rest) + Cardinality(Of(k[p]))
                                           - Cardinality(Rest \cap Of(k[p]))
    BY <1>2, <2>4, FS_Union
  <2>7. Cardinality(Rest \cap Of(k[p])) = 0
    BY <2>2, FS_EmptySet
  <2> QED
    BY <1>2, <2>1, <2>3, <2>4, <2>5, <2>6, <2>7
<1>4. Cardinality(Tokens(n)) = Cardinality(Rest) + n[p]
  BY <1>3
<1>5. IsFiniteSet(Tokens(m)) /\ Cardinality(Tokens(m)) = Cardinality(Rest) + m[p]
  BY <1>3
<1> HIDE DEF Rest
<1> QED
  BY <1>2, <1>4, <1>5

\* What is owed, and what exists, is a natural number.
LEMMA OwedType ==
  ASSUME TypeOK, NEW t \in Types
  PROVE  /\ Owed(t) \in [Runner -> Nat]
         /\ Existing(t) \in Nat
         /\ making[t] \in Nat
<1>1. ASSUME NEW p \in Runner
      PROVE  OwedNumber(p, t) \in Nat
  <2>1. CASE proc[p].pc = "sending"
    <3>1. proc[p].left \in Nat /\ proc[p].count \in Nat
      BY <2>1, ResendType DEF SendingStates
    <3>2. proc[p].left * proc[p].count \in Nat
      BY <3>1
    <3> QED
      BY <3>2 DEF OwedNumber
  <2>2. CASE proc[p].pc # "sending"
    BY <2>2 DEF OwedNumber
  <2> QED
    BY <2>1, <2>2
<1>2. Existing(t) \in Nat
  BY DEF Existing, TypeOK, Kinds
<1> QED
  BY <1>1, <1>2 DEF Owed, TypeOK

\* The same of the state after a step.
LEMMA OwedTypeNext ==
  TypeOK' => (\A t \in Types : /\ Owed(t) \in [Runner -> Nat]
                               /\ Existing(t) \in Nat
                               /\ making[t] \in Nat)'
<1>1. TypeOK => \A t \in Types : /\ Owed(t) \in [Runner -> Nat]
                                 /\ Existing(t) \in Nat
                                 /\ making[t] \in Nat
  BY OwedType
<1> QED
  BY <1>1, PTL

\* Multiplication distributes over the sums and differences used here.
LEMMA Distribute ==
  ASSUME NEW a \in Nat, NEW b \in Nat, NEW c \in Nat
  PROVE  /\ a * (b + c) = a * b + a * c
         /\ (a - 1) * c + c = a * c
         /\ a * b \in Nat /\ a * c \in Nat
         /\ a > 0 => a * c >= c
  OBVIOUS

\* A step of p keeps the cover if, for each type, it creates no more than it
\* gives up or announces.
LEMMA CoverStep ==
  ASSUME TypeOK, TypeOK', CoverInv, NEW p \in Runner,
         \A q \in Runner : q # p => proc'[q] = proc[q],
         \A t \in Types :
            (Existing(t))' - Existing(t) + (OwedNumber(p, t))' - OwedNumber(p, t)
              <= Sends * making'[t] - Sends * making[t]
  PROVE  CoverInv'
<1> SUFFICES ASSUME NEW t \in Types
             PROVE  /\ IsFiniteSet((Tokens(Owed(t)))')
                    /\ (Existing(t))' + Cardinality((Tokens(Owed(t)))') <= Sends * making'[t]
  BY DEF CoverInv
<1> DEFINE n == Owed(t)
           m == (Owed(t))'
<1>1. /\ n \in [Runner -> Nat] /\ Existing(t) \in Nat /\ making[t] \in Nat
      /\ m \in [Runner -> Nat] /\ (Existing(t))' \in Nat /\ making'[t] \in Nat
  <2>1. Owed(t) \in [Runner -> Nat] /\ Existing(t) \in Nat /\ making[t] \in Nat
    BY OwedType
  <2>2. (Owed(t) \in [Runner -> Nat] /\ Existing(t) \in Nat /\ making[t] \in Nat)'
    BY OwedTypeNext
  <2> QED
    BY <2>1, <2>2
<1>2. \A q \in Runner : q # p => m[q] = n[q]
  BY DEF Owed, OwedNumber
<1>3. n[p] = OwedNumber(p, t) /\ m[p] = (OwedNumber(p, t))'
  BY DEF Owed
<1>4. IsFiniteSet(Tokens(n)) /\ Existing(t) + Cardinality(Tokens(n)) <= Sends * making[t]
  BY DEF CoverInv
<1>5. (Tokens(Owed(t)))' = Tokens(m)
  BY DEF Tokens
<1>6. /\ IsFiniteSet(Tokens(m))
      /\ Cardinality(Tokens(n)) \in Nat
      /\ Cardinality(Tokens(m)) \in Nat
      /\ Cardinality(Tokens(m)) - m[p] = Cardinality(Tokens(n)) - n[p]
  <2> HIDE DEF n, m
  <2> QED
    BY <1>1, <1>2, <1>4, TokensOfOne
<1>7. Sends * making[t] \in Nat /\ Sends * making'[t] \in Nat
  BY <1>1, QuotaAssumption
<1>8. n[p] \in Nat /\ m[p] \in Nat
  BY <1>1
<1>9. (Existing(t))' - Existing(t) + m[p] - n[p] <= Sends * making'[t] - Sends * making[t]
  BY <1>3
<1> HIDE DEF n, m
<1> QED
  BY <1>1, <1>4, <1>5, <1>6, <1>7, <1>8, <1>9

\* Carrying out p's call brings p's count of p's type into existence.
LEMMA EffectExists ==
  ASSUME TypeOK, NEW p \in Runner, proc[p].pc = "sending", Effect(p), NEW t \in Types
  PROVE  (Existing(t))' = Existing(t) + IF proc[p].type = t THEN proc[p].count ELSE 0
<1>1. /\ proc[p].key \in {"own", "alias"}
      /\ proc[p].type \in Types
      /\ proc[p].count \in Nat
  BY ResendType, QuotaAssumption DEF SendingStates, Kinds
<1>2. /\ live["own"][t] \in Nat /\ live["alias"][t] \in Nat
      /\ spot["own"][t] \in Nat /\ spot["alias"][t] \in Nat
  BY DEF TypeOK, Kinds
<1>3. CASE proc[p].spot
  <2>1. /\ live' = live
        /\ spot' = [spot EXCEPT ![proc[p].key][proc[p].type] = @ + proc[p].count]
    BY <1>3 DEF Effect
  <2> QED
    BY <1>1, <1>2, <2>1 DEF Existing, TypeOK, Kinds
<1>4. CASE ~ proc[p].spot
  <2>1. /\ spot' = spot
        /\ live' = [live EXCEPT ![proc[p].key][proc[p].type] = @ + proc[p].count]
    BY <1>4 DEF Effect
  <2> QED
    BY <1>1, <1>2, <2>1 DEF Existing, TypeOK, Kinds
<1> QED
  BY <1>3, <1>4

\* A transmission that is given up takes at least one round of the call away.
LEMMA ResendOwes ==
  ASSUME TypeOK, NEW p \in Runner, proc[p].pc = "sending",
         proc'[p] = Idle \/ proc'[p] = Resend(p), NEW t \in Types
  PROVE  (OwedNumber(p, t))' + (IF proc[p].type = t THEN proc[p].count ELSE 0)
            <= OwedNumber(p, t)
<1>1. proc[p].left \in Nat /\ proc[p].left > 0 /\ proc[p].count \in Nat
  BY ResendType, QuotaAssumption DEF SendingStates
<1>2. /\ (proc[p].left - 1) * proc[p].count + proc[p].count = proc[p].left * proc[p].count
      /\ proc[p].left * proc[p].count >= proc[p].count
      /\ proc[p].left * proc[p].count \in Nat
  BY <1>1, Distribute
<1>3. CASE proc'[p] = Idle
  <2>1. (OwedNumber(p, t))' = 0
    BY <1>3 DEF OwedNumber, Idle
  <2> QED
    BY <1>1, <1>2, <2>1 DEF OwedNumber
<1>4. CASE proc'[p] = Resend(p) /\ Resend(p) # Idle
  <2>1. /\ proc'[p].pc = "sending"
        /\ proc'[p].type = proc[p].type
        /\ proc'[p].count = proc[p].count
        /\ proc'[p].left = proc[p].left - 1
    BY <1>4, ResendType DEF SendingStates
  <2>2. CASE proc[p].type = t
    <3>1. (OwedNumber(p, t))' = (proc[p].left - 1) * proc[p].count
      BY <2>1, <2>2 DEF OwedNumber
    <3>2. OwedNumber(p, t) = proc[p].left * proc[p].count
      BY <2>2 DEF OwedNumber
    <3> QED
      BY <1>2, <2>2, <3>1, <3>2
  <2>3. CASE proc[p].type # t
    BY <2>1, <2>3 DEF OwedNumber
  <2> QED
    BY <2>2, <2>3
<1> QED
  BY <1>3, <1>4

\* Accountability, for any processes, transmissions and requests, spot requests
\* included: what exists is covered by the audit lines, and so is what the calls
\* under way can still bring about.
THEOREM AuditCoversHolds == Spec => []AuditCovers
<1> USE QuotaAssumption
<1>1. Init => CoverInv
  <2> SUFFICES ASSUME Init, NEW t \in Types
               PROVE  /\ IsFiniteSet(Tokens(Owed(t)))
                      /\ Existing(t) + Cardinality(Tokens(Owed(t))) <= Sends * making[t]
    BY DEF CoverInv
  <2>1. Existing(t) = 0 /\ making[t] = 0
    BY DEF Init, Existing, Kinds
  <2>2. \A p \in Runner : Owed(t)[p] = 0
    BY DEF Init, Owed, OwedNumber, Idle
  <2>3. Tokens(Owed(t)) = {}
    BY <2>2 DEF Tokens
  <2> QED
    BY <2>1, <2>3, FS_EmptySet
<1>2. TypeOK /\ TypeOK' /\ CoverInv /\ [Next]_vars => CoverInv'
  <2> SUFFICES ASSUME TypeOK, TypeOK', CoverInv, [Next]_vars PROVE CoverInv'
    OBVIOUS
  <2> USE DEF Existing
  \* A step of p that neither creates nor announces.
  <2>0. ASSUME NEW p \in Runner, UNCHANGED <<live, spot, making>>,
               \A q \in Runner : q # p => proc'[q] = proc[q],
               \A t \in Types : (OwedNumber(p, t))' <= OwedNumber(p, t)
        PROVE  CoverInv'
    <3>1. ASSUME NEW t \in Types
          PROVE  (Existing(t))' - Existing(t) + (OwedNumber(p, t))' - OwedNumber(p, t)
                   <= Sends * making'[t] - Sends * making[t]
      <4>1. (Existing(t))' = Existing(t) /\ making'[t] = making[t]
        BY <2>0
      <4>2. Existing(t) \in Nat /\ making[t] \in Nat /\ OwedNumber(p, t) \in Nat
        BY OwedType DEF Owed
      <4>3. (OwedNumber(p, t))' \in Nat
        BY OwedTypeNext DEF Owed
      <4>4. Sends * making[t] \in Nat
        BY <4>2
      <4>5. (OwedNumber(p, t))' <= OwedNumber(p, t)
        BY <2>0
      <4> HIDE DEF Existing
      <4> QED
        BY <4>1, <4>2, <4>3, <4>4, <4>5
    <3> HIDE DEF Existing
    <3> QED
      BY <2>0, <3>1, CoverStep
  \* A step of p after which it has no call to send.
  <2>1. ASSUME NEW p \in Runner, UNCHANGED <<live, spot, making>>,
               \A q \in Runner : q # p => proc'[q] = proc[q], proc'[p].pc # "sending"
        PROVE  CoverInv'
    <3>1. ASSUME NEW t \in Types
          PROVE  (OwedNumber(p, t))' <= OwedNumber(p, t)
      <4>1. OwedNumber(p, t) \in Nat
        BY OwedType DEF Owed
      <4>2. (OwedNumber(p, t))' = 0
        BY <2>1 DEF OwedNumber
      <4> QED
        BY <4>1, <4>2
    <3> QED
      BY <2>0, <2>1, <3>1
  <2>2. ASSUME NEW p \in Runner, Price(p) \/ Reject(p) \/ Fail(p)
        PROVE  CoverInv'
    <3>1. proc'[p].pc # "sending"
      BY <2>2 DEF Price, Reject, Fail, Idle, TypeOK
    <3>2. /\ UNCHANGED <<live, spot, making>>
          /\ \A q \in Runner : q # p => proc'[q] = proc[q]
      BY <2>2 DEF Price, Reject, Fail, TypeOK
    <3> QED
      BY <2>1, <3>1, <3>2
  <2>3. ASSUME NEW p \in Runner, Approve(p)
        PROVE  CoverInv'
    <3>1. proc[p] \in PricedStates
      BY <2>3 DEF Approve, TypeOK, Idle, SendingStates, PricedStates
    <3>2. proc[p].type \in Types /\ proc[p].count \in Nat
      BY <3>1 DEF PricedStates
    <3>3. proc' = [proc EXCEPT ![p] =
                     [pc |-> "sending", type |-> proc[p].type, count |-> proc[p].count,
                      key |-> proc[p].key, spot |-> proc[p].spot, left |-> Sends]]
      BY <2>3 DEF Approve
    <3>4. ASSUME NEW t \in Types
          PROVE  (Existing(t))' - Existing(t) + (OwedNumber(p, t))' - OwedNumber(p, t)
                   <= Sends * making'[t] - Sends * making[t]
      <4> DEFINE c == IF proc[p].type = t THEN proc[p].count ELSE 0
      <4>1. (Existing(t))' = Existing(t) /\ Existing(t) \in Nat /\ making[t] \in Nat
        BY <2>3, OwedType DEF Approve
      <4>2. making'[t] = making[t] + c
        BY <2>3, <3>2, <4>1 DEF Approve, LogMaking, TypeOK
      <4>3. OwedNumber(p, t) = 0
        BY <2>3 DEF Approve, OwedNumber
      <4>4. (OwedNumber(p, t))' = Sends * c
        BY <3>3 DEF OwedNumber, TypeOK
      <4>5. c \in Nat
        BY <3>2
      <4>6. Sends * (making[t] + c) = Sends * making[t] + Sends * c
        BY <4>1, <4>5, Distribute
      <4>7. Sends * making[t] \in Nat /\ Sends * c \in Nat
        BY <4>1, <4>5, Distribute
      <4> HIDE DEF c, Existing
      <4> QED
        BY <4>1, <4>2, <4>3, <4>4, <4>6, <4>7
    <3>5. \A q \in Runner : q # p => proc'[q] = proc[q]
      BY <3>3 DEF TypeOK
    <3> HIDE DEF Existing
    <3> QED
      BY <3>4, <3>5, CoverStep
  \* EC2 carries out p's call.
  <2>4. ASSUME NEW p \in Runner, proc[p].pc = "sending", Effect(p), UNCHANGED making,
               NEW s \in {Idle, Resend(p)}, proc' = [proc EXCEPT ![p] = s]
        PROVE  CoverInv'
    <3>1. proc'[p] = Idle \/ proc'[p] = Resend(p)
      BY <2>4 DEF TypeOK
    <3>2. ASSUME NEW t \in Types
          PROVE  (Existing(t))' - Existing(t) + (OwedNumber(p, t))' - OwedNumber(p, t)
                   <= Sends * making'[t] - Sends * making[t]
      <4> DEFINE c == IF proc[p].type = t THEN proc[p].count ELSE 0
      <4> HIDE DEF Existing
      <4>1. (Existing(t))' = Existing(t) + c
        BY <2>4, EffectExists
      <4>2. (OwedNumber(p, t))' + c <= OwedNumber(p, t)
        BY <2>4, <3>1, ResendOwes
      <4>3. /\ Existing(t) \in Nat /\ making[t] \in Nat /\ OwedNumber(p, t) \in Nat
            /\ (OwedNumber(p, t))' \in Nat
        BY OwedType, OwedTypeNext DEF Owed
      <4>4. c \in Nat
        BY <2>4, ResendType DEF SendingStates
      <4>5. making' = making /\ Sends * making[t] \in Nat
        BY <2>4, <4>3
      <4> HIDE DEF c
      <4> QED
        BY <4>1, <4>2, <4>3, <4>4, <4>5
    <3>3. \A q \in Runner : q # p => proc'[q] = proc[q]
      BY <2>4 DEF TypeOK
    <3> HIDE DEF Existing
    <3> QED
      BY <3>2, <3>3, CoverStep
  <2>5. ASSUME NEW p \in Runner, TransmitAnswered(p)
        PROVE  CoverInv'
    BY <2>4, <2>5 DEF TransmitAnswered
  <2>6. ASSUME NEW p \in Runner, TransmitAnswerLost(p)
        PROVE  CoverInv'
    BY <2>4, <2>6 DEF TransmitAnswerLost
  <2>7. ASSUME NEW p \in Runner, TransmitLost(p)
        PROVE  CoverInv'
    <3>1. proc'[p] = Resend(p) /\ \A q \in Runner : q # p => proc'[q] = proc[q]
      BY <2>7 DEF TransmitLost, TypeOK
    <3>2. ASSUME NEW t \in Types
          PROVE  (OwedNumber(p, t))' <= OwedNumber(p, t)
      <4>1. (OwedNumber(p, t))' + (IF proc[p].type = t THEN proc[p].count ELSE 0)
              <= OwedNumber(p, t)
        BY <2>7, <3>1, ResendOwes DEF TransmitLost
      <4>2. OwedNumber(p, t) \in Nat /\ (OwedNumber(p, t))' \in Nat
        BY OwedType, OwedTypeNext DEF Owed
      <4>3. proc[p].count \in Nat
        BY <2>7, ResendType DEF TransmitLost, SendingStates
      <4> QED
        BY <4>1, <4>2, <4>3
    <3> QED
      BY <2>0, <2>7, <3>1, <3>2 DEF TransmitLost
  \* EC2 by itself ends instances and turns requests into instances.
  <2>8. ASSUME UNCHANGED <<proc, making>>,
               \A t \in Types : (Existing(t))' <= Existing(t)
        PROVE  CoverInv'
    <3> SUFFICES ASSUME NEW t \in Types
                 PROVE  /\ IsFiniteSet((Tokens(Owed(t)))')
                        /\ (Existing(t))' + Cardinality((Tokens(Owed(t)))')
                              <= Sends * making'[t]
      BY DEF CoverInv
    <3>1. (Tokens(Owed(t)))' = Tokens(Owed(t)) /\ making'[t] = making[t]
      BY <2>8 DEF Tokens, Owed, OwedNumber
    <3>2. /\ IsFiniteSet(Tokens(Owed(t)))
          /\ Existing(t) + Cardinality(Tokens(Owed(t))) <= Sends * making[t]
      BY DEF CoverInv
    <3> HIDE DEF Existing
    <3>3. (Existing(t))' <= Existing(t) /\ Existing(t) \in Nat /\ (Existing(t))' \in Nat
      BY <2>8, OwedType, OwedTypeNext
    <3>4. Cardinality(Tokens(Owed(t))) \in Nat
      BY <3>2, FS_CardinalityType
    <3>5. making[t] \in Nat /\ Sends * making[t] \in Nat
      BY OwedType
    <3> QED
      BY <3>1, <3>2, <3>3, <3>4, <3>5
  <2>9. ASSUME NEW k \in Kinds, NEW u \in Types,
               Terminate(k, u) \/ FulfilSpot(k, u) \/ CancelSpot(k, u)
        PROVE  CoverInv'
    <3>1. k \in {"own", "alias"} /\ live \in [Kinds -> [Types -> Nat]]
          /\ spot \in [Kinds -> [Types -> Nat]]
      BY DEF Kinds, TypeOK
    <3>2. ASSUME NEW t \in Types
          PROVE  (Existing(t))' <= Existing(t)
      <4>1. CASE Terminate(k, u)
        BY <3>1, <4>1 DEF Terminate, Kinds
      <4>2. CASE FulfilSpot(k, u)
        BY <3>1, <4>2 DEF FulfilSpot, Kinds
      <4>3. CASE CancelSpot(k, u)
        BY <3>1, <4>3 DEF CancelSpot, Kinds
      <4> QED
        BY <2>9, <4>1, <4>2, <4>3
    <3>3. UNCHANGED <<proc, making>>
      BY <2>9 DEF Terminate, FulfilSpot, CancelSpot
    <3> HIDE DEF Existing
    <3> QED
      BY <2>8, <3>2, <3>3
  <2>10. CASE UNCHANGED vars
    BY <2>8, <2>10, OwedType DEF vars
  <2> QED
    BY <2>2, <2>3, <2>5, <2>6, <2>7, <2>9, <2>10 DEF Next, RunnerStep, Ec2Step
<1>3. TypeOK /\ CoverInv => AuditCovers
  <2> SUFFICES ASSUME TypeOK, CoverInv, NEW t \in Types
               PROVE  Existing(t) <= Sends * making[t]
    BY DEF AuditCovers, Existing
  <2>1. Cardinality(Tokens(Owed(t))) \in Nat
    BY FS_CardinalityType DEF CoverInv
  <2>2. Existing(t) \in Nat /\ making[t] \in Nat /\ Sends * making[t] \in Nat
    BY OwedType
  <2> QED
    BY <2>1, <2>2 DEF CoverInv
<1> QED
  BY <1>1, <1>2, <1>3, TypeCorrect, PTL DEF Spec
=============================================================================
