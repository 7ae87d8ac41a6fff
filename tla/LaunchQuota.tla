---------------------------- MODULE LaunchQuota ----------------------------
(***************************************************************************)
(* Launching instances for one student account: User.run_instances of      *)
(* ec2-wrappers/subaccounts.py as ec2-wrappers/ec2_runner.py drives it,    *)
(* any number of such processes side by side, with EC2 as environment.     *)
(*                                                                         *)
(* A process asks EC2 for the account's instances and prices them          *)
(* (Price), compares with the limit and writes the audit log (Reject,      *)
(* Approve), and only then transmits the launch call, which boto sends     *)
(* again when the answer is lost (the Transmit actions).  Meanwhile EC2    *)
(* ends instances and fulfils or cancels spot requests.                    *)
(*                                                                         *)
(* Costs are in tenths of the code's unit.  Other accounts do not appear:  *)
(* their launches carry keys that running_instances() does not list here,  *)
(* as long as no account name is a prefix of another one.                  *)
(***************************************************************************)
EXTENDS Integers, FiniteSets

CONSTANTS Runner,       \* ec2_runner.py processes of the account
          Sends,        \* transmissions of one API call, boto's num_retries + 1
          SpendLimit,   \* SPEND_LIMIT, in tenths
          Requests,     \* the <<instance_type, count>> pairs asked for
          KeyKinds,     \* the kinds of key name asked for
          SpotModes,    \* the values of 'use_spot' asked for
          MaxApprovals, \* bound: "Making instance requset" lines in a behaviour
          MaxOpenSpot   \* bound: open spot requests of one kind and type

VARIABLES proc,     \* proc[p]: where ec2_runner.py process p is
          live,     \* live[k][t]: instances of type t not yet terminated
          spot,     \* spot[k][t]: open spot requests for type t
          making,   \* making[t]: instances the "Making ..." audit lines name
          approvals,\* number of those lines
          refused   \* has a "Rejecting ... because of cost" line been written

vars == <<proc, live, spot, making, approvals, refused>>

\* INSTANCE_COST, in tenths.
InstanceCost ==
    [t \in {"m1.small", "m1.large", "m1.xlarge", "t1.micro", "m2.xlarge",
            "m2.2xlarge", "m2.4xlarge", "c1.medium", "c1.xlarge", "cc1.4xlarge"} |->
        CASE t = "m1.small"   -> 10
          [] t = "m1.large"   -> 40
          [] t = "m1.xlarge"  -> 80
          [] t = "t1.micro"   -> 2
          [] t = "m2.xlarge"  -> 59
          [] t = "m2.2xlarge" -> 118
          [] t = "m2.4xlarge" -> 236
          [] t = "c1.medium"  -> 20
          [] t = "c1.xlarge"  -> 80
          [] t = "cc1.4xlarge" -> 188]

Types == DOMAIN InstanceCost

\* Kinds of key name, as the code's two prefix tests tell them apart: "own"
\* starts with "<user>-", "alias" starts with "<user>" only.  Any other key is
\* refused by ec2_runner.py before anything happens, and leaves no trace.
Kinds == {"own", "alias"}

ASSUME QuotaAssumption ==
    /\ IsFiniteSet(Runner)
    /\ Sends \in Nat \ {0}
    /\ SpendLimit \in Nat
    /\ Requests \subseteq Types \X (Nat \ {0})
    /\ KeyKinds \subseteq Kinds
    /\ SpotModes \subseteq BOOLEAN
    /\ MaxApprovals \in Nat
    /\ MaxOpenSpot \in Nat

\* cost_instances(): what running_instances() lists, priced.  Spot requests
\* that are still open and instances under an alias key are not in that list.
CostInstances ==
    LET n == live["own"] IN
      10 * n["m1.small"] + 40 * n["m1.large"] + 80 * n["m1.xlarge"]
    + 2 * n["t1.micro"] + 59 * n["m2.xlarge"] + 118 * n["m2.2xlarge"]
    + 236 * n["m2.4xlarge"] + 20 * n["c1.medium"] + 80 * n["c1.xlarge"]
    + 188 * n["cc1.4xlarge"]

CostProposal(type, count) == InstanceCost[type] * count

WithinBudgetMutant(old, type, count) == ~ (old > SpendLimit)

WithinBudgetEdgeMutant(old, type, count) == ~ (old + CostProposal(type, count) > SpendLimit + 1)

\* The comparison of run_instances.
WithinBudget(old, type, count) == ~ (old + CostProposal(type, count) > SpendLimit)

Idle == [pc |-> "idle"]

Init == /\ proc = [p \in Runner |-> Idle]
        /\ live = [k \in Kinds |-> [t \in Types |-> 0]]
        /\ spot = [k \in Kinds |-> [t \in Types |-> 0]]
        /\ making = [t \in Types |-> 0]
        /\ approvals = 0
        /\ refused = FALSE

\* ec2_runner.py accepts the request and run_instances prices what is running.
\* The answer is a snapshot: `ok' is what the comparison below will find.
Price(p) ==
    /\ proc[p].pc = "idle"
    /\ \E r \in Requests, k \in KeyKinds, s \in SpotModes :
          proc' = [proc EXCEPT ![p] =
                     [pc |-> "priced", type |-> r[1], count |-> r[2], key |-> k,
                      spot |-> s, ok |-> WithinBudget(CostInstances, r[1], r[2])]]
    /\ UNCHANGED <<live, spot, making, approvals, refused>>

\* "Rejecting instance request ... because of cost", then the exception.
Reject(p) ==
    /\ proc[p].pc = "priced"
    /\ ~ proc[p].ok
    /\ refused' = TRUE
    /\ proc' = [proc EXCEPT ![p] = Idle]
    /\ UNCHANGED <<live, spot, making, approvals>>

LogMakingMutant(p) == [making EXCEPT ![proc[p].type] = @ + 1]

\* The line names the type and the count asked for.
LogMaking(p) == [making EXCEPT ![proc[p].type] = @ + proc[p].count]

\* "Making instance requset ...", written before the launch call.
Approve(p) ==
    /\ proc[p].pc = "priced"
    /\ proc[p].ok
    /\ approvals < MaxApprovals
    /\ approvals' = approvals + 1
    /\ making' = LogMaking(p)
    /\ proc' = [proc EXCEPT ![p] =
                  [pc |-> "sending", type |-> @.type, count |-> @.count,
                   key |-> @.key, spot |-> @.spot, left |-> Sends]]
    /\ UNCHANGED <<live, spot, refused>>

\* EC2 carries out p's launch call: ec2.run_instances or, with 'use_spot',
\* ec2.request_spot_instances for the same count.
Effect(p) ==
    LET k == proc[p].key
        t == proc[p].type
        n == proc[p].count
    IN  IF proc[p].spot
          THEN /\ spot[k][t] + n <= MaxOpenSpot
               /\ spot' = [spot EXCEPT ![k][t] = @ + n]
               /\ UNCHANGED live
          ELSE /\ live' = [live EXCEPT ![k][t] = @ + n]
               /\ UNCHANGED spot

ResendMutant(p) == IF proc[p].left > 0 THEN [proc[p] EXCEPT !.left = @ - 1] ELSE Idle

\* One transmission fewer; after the last one _mexe raises.
Resend(p) == IF proc[p].left > 1 THEN [proc[p] EXCEPT !.left = @ - 1] ELSE Idle

\* The call is carried out and answered: run_instances returns, the process
\* prints the ids and ends.
TransmitAnswered(p) ==
    /\ proc[p].pc = "sending"
    /\ Effect(p)
    /\ proc' = [proc EXCEPT ![p] = Idle]
    /\ UNCHANGED <<making, approvals, refused>>

\* The call is carried out but the answer is lost (a socket error, a 500 or
\* 503 after the fact): boto transmits the same call again.
TransmitAnswerLost(p) ==
    /\ proc[p].pc = "sending"
    /\ Effect(p)
    /\ proc' = [proc EXCEPT ![p] = Resend(p)]
    /\ UNCHANGED <<making, approvals, refused>>

\* The call itself is lost, or refused with a status boto retries on.
TransmitLost(p) ==
    /\ proc[p].pc = "sending"
    /\ proc' = [proc EXCEPT ![p] = Resend(p)]
    /\ UNCHANGED <<live, spot, making, approvals, refused>>

\* The process is killed, or the call is refused with a final error.
Fail(p) ==
    /\ proc[p].pc # "idle"
    /\ proc' = [proc EXCEPT ![p] = Idle]
    /\ UNCHANGED <<live, spot, making, approvals, refused>>

\* EC2: an instance is terminated.
Terminate(k, t) ==
    /\ live[k][t] > 0
    /\ live' = [live EXCEPT ![k][t] = @ - 1]
    /\ UNCHANGED <<proc, spot, making, approvals, refused>>

\* EC2: an open spot request becomes an instance with the same key and type.
FulfilSpot(k, t) ==
    /\ spot[k][t] > 0
    /\ spot' = [spot EXCEPT ![k][t] = @ - 1]
    /\ live' = [live EXCEPT ![k][t] = @ + 1]
    /\ UNCHANGED <<proc, making, approvals, refused>>

\* EC2: an open spot request is cancelled.
CancelSpot(k, t) ==
    /\ spot[k][t] > 0
    /\ spot' = [spot EXCEPT ![k][t] = @ - 1]
    /\ UNCHANGED <<proc, live, making, approvals, refused>>

RunnerStep(p) == \/ Price(p) \/ Reject(p) \/ Approve(p)
                 \/ TransmitAnswered(p) \/ TransmitAnswerLost(p) \/ TransmitLost(p)
                 \/ Fail(p)

Ec2Step == \E k \in Kinds, t \in Types :
              Terminate(k, t) \/ FulfilSpot(k, t) \/ CancelSpot(k, t)

Next == (\E p \in Runner : RunnerStep(p)) \/ Ec2Step

Spec == Init /\ [][Next]_vars
-----------------------------------------------------------------------------

Pending(p) == proc[p].pc = "priced" /\ proc[p].ok

\* What a call of p that EC2 carries out adds to the cost that is counted.
Addition(p) == IF proc[p].pc # "idle" /\ proc[p].key = "own"
                 THEN CostProposal(proc[p].type, proc[p].count) ELSE 0

\* The claim a process holds in the sense of Budget: it holds one from the
\* moment it has priced the account, before it compares or logs anything.
claimLeft == [p \in Runner |-> IF proc[p].pc = "sending" THEN proc[p].left
                               ELSE IF Pending(p) THEN Sends ELSE 0]

claimExtra == [p \in Runner |-> IF claimLeft[p] = 0 THEN 0 ELSE Addition(p)]

\* Without spot requests, launching implements Budget: every step of a runner
\* or of EC2 is a claim, a use of a claim, a reclaim, or no step of it.
B == INSTANCE Budget WITH Limit <- SpendLimit, cost <- CostInstances,
                          extra <- claimExtra, left <- claimLeft

BudgetRefined == B!BudgetSpec

PricedStates == [pc : {"priced"}, type : Types, count : Nat, key : KeyKinds,
                 spot : SpotModes, ok : BOOLEAN]

SendingStates == [pc : {"sending"}, type : Types, count : Nat, key : KeyKinds,
                  spot : SpotModes, left : 1 .. Sends]

\* Every variable has its shape, and a process past the comparison asks for
\* something the comparison could let through.
TypeOK ==
    /\ live \in [Kinds -> [Types -> Nat]]
    /\ spot \in [Kinds -> [Types -> Nat]]
    /\ making \in [Types -> Nat]
    /\ approvals \in 0 .. MaxApprovals
    /\ refused \in BOOLEAN
    /\ proc \in [Runner -> {Idle} \cup PricedStates \cup SendingStates]
    /\ \A p \in Runner :
          claimLeft[p] # 0 => CostProposal(proc[p].type, proc[p].count) <= SpendLimit

\* What the comparison in run_instances does guarantee for on-demand launches:
\* the instances counted for the account never cost more than the limit times
\* the runners that can overlap times the transmissions of one launch call.
SpendBounded == CostInstances <= Cardinality(Runner) * Sends * SpendLimit

\* The limit as the README states it ("We set limits on instances that can be
\* launched by controlling the user account"): the account's running instances
\* never cost more than SPEND_LIMIT.
WithinSpendLimit == CostInstances <= SpendLimit

\* Accountability: whatever exists at EC2 under the account's keys, instances
\* and open spot requests alike, was announced by a "Making instance requset"
\* audit line before it was asked for, up to boto's retransmissions.
AuditCovers ==
    \A t \in Types :
        live["own"][t] + live["alias"][t] + spot["own"][t] + spot["alias"][t]
          <= Sends * making[t]
=============================================================================
