--------------------------- MODULE ClusterLaunch ---------------------------
(***************************************************************************)
(* One Hadoop cluster: launch-master, launch-slaves, launch-cluster,       *)
(* terminate-cluster and delete-cluster of hadoop-ec2 (HadoopService in    *)
(* service.py, Ec2Cluster in providers/ec2.py, CS61CEc2Cluster in          *)
(* cs61cec2.py), any number of such commands side by side.                 *)
(*                                                                         *)
(* The cluster is what EC2 has: security groups, one for the cluster and   *)
(* one for each role, with their rules, and instances in those groups.     *)
(* Every command looks at EC2 and then acts on what it saw.  The launch    *)
(* itself goes through ec2-run (module LaunchQuota), which may refuse; the *)
(* storage of the cluster is module VolumeStore.                           *)
(***************************************************************************)
EXTENDS Integers, Sequences, FiniteSets

CONSTANTS Proc,         \* hadoop-ec2 processes
          Inst,         \* the instances EC2 can make, as numbers
          MasterRoles,  \* (NAMENODE, SECONDARY_NAMENODE, JOBTRACKER)
          SlaveRoles,   \* (DATANODE, TASKTRACKER)
          CG,           \* the cluster's own group
          ClientPorts,  \* what _authorize_client_ports opens to the client
          InnerPorts,   \* and to the masters: sequences of <<role, port>>
          Numbers,      \* numbers of slaves that may be asked for
          MaxCommands,  \* bound: commands in a behaviour
          MaxFaults     \* bound: processes killed, instances that fail, answers lost

Elements(s) == {s[n] : n \in DOMAIN s}
Role == Elements(MasterRoles) \cup Elements(SlaveRoles)
Group == Role \cup {CG}
NAMENODE == MasterRoles[1]
JOBTRACKER == MasterRoles[Len(MasterRoles)]

ASSUME ClusterAssumption ==
    /\ IsFiniteSet(Proc) /\ IsFiniteSet(Inst) /\ Inst \subseteq Nat \ {0}
    /\ MasterRoles \in Seq(Role) \ {<<>>} /\ SlaveRoles \in Seq(Role) \ {<<>>}
    /\ CG \notin Role
    /\ NAMENODE \notin Elements(SlaveRoles)
    /\ ClientPorts \in Seq(Role \X STRING) /\ InnerPorts \in Seq(Role \X STRING)
    /\ Numbers \subseteq Nat \ {0}
    /\ MaxCommands \in Nat /\ MaxFaults \in Nat

VARIABLES groups,    \* groups that exist
          rules,     \* rules in force: <<group, port, source>>
          inst,      \* inst[i]: an instance
          site,      \* the addresses in the client's hadoop-site.xml
          proc,      \* proc[p]: where process p is
          commands,  \* number of commands so far
          faults,    \* number of faults so far
          strays,    \* instances their launch was never told of, or did not wait
                     \* for to the end
          opened,    \* a launch has opened the client's ports
          upset      \* what commands that ended early may have left undone

ec2 == <<groups, rules, inst>>
history == <<strays, opened, upset>>
vars == <<ec2, site, proc, commands, faults, history>>

NoHost == 0
Unused == [st |-> "unused", groups |-> {}, host |-> NoHost, by |-> 0, kind |-> "none"]
Idle == [pc |-> "idle"]

\* Sources of a rule: the cluster's group, everyone, the client; or an instance.
Client == 0
SelfRule == <<CG, "all", Client>>
SshRule == <<CG, "22", Client>>
RuleFor(port, source) == <<port[1], port[2], source>>
ClientRules == [n \in DOMAIN ClientPorts |-> RuleFor(ClientPorts[n], Client)]

Init == /\ groups = {} /\ rules = {}
        /\ inst = [i \in Inst |-> Unused]
        /\ site = <<>>
        /\ proc = [p \in Proc |-> Idle]
        /\ commands = 0 /\ faults = 0
        /\ strays = {} /\ opened = FALSE /\ upset = {}

Alive == {i \in Inst : inst[i].st \in {"pending", "running"}}

\* _get_instances(group, "running")
Running(g) == {i \in Inst : inst[i].st = "running" /\ g \in inst[i].groups}

At(p, pc) == proc[p].pc = pc
Others(p, pcs) == \E q \in Proc \ {p} : proc[q].pc \in pcs
Become(p, s) == proc' = [proc EXCEPT ![p] = s]

Goes(p, s) == /\ Become(p, s)
              /\ UNCHANGED <<ec2, site, commands, faults, history>>

\* Where a launch looks at groups and makes them, and where it waits for its
\* instances.
Grouping == {"list", "cluster", "self", "ssh", "role", "run"}
Waiting == {"wait", "gather"}

\* What a command that ends where p is leaves undone: the rules of the cluster's
\* group, a rule that it has revoked, the rest of the groups.
Undone(p) ==
    CASE proc[p].pc \in {"self", "ssh"} -> {"ssh"}
      [] At(p, "grant") /\ Head(proc[p].todo)[1] \in groups -> {"grant"}
      [] At(p, "delete") -> {"delete"}
      [] OTHER -> {}

\* The process ends by an exception.
Ends(p) ==
    /\ Become(p, Idle)
    /\ strays' = strays \cup (IF proc[p].pc \in Waiting THEN proc[p].ids ELSE {})
    /\ UNCHANGED <<ec2, commands, opened>>

Dies(p) == Ends(p) /\ upset' = upset \cup Undone(p) /\ UNCHANGED <<site, faults>>

Killed(p) == /\ ~At(p, "idle") /\ faults < MaxFaults
             /\ faults' = faults + 1
             /\ Ends(p) /\ upset' = upset \cup Undone(p) /\ UNCHANGED site

-----------------------------------------------------------------------------
(* The commands that launch.                                               *)

Begins(p, s) == /\ At(p, "idle") /\ commands < MaxCommands
                /\ commands' = commands + 1
                /\ Become(p, s)
                /\ UNCHANGED <<ec2, site, faults, history>>

\* InstanceTemplate
Masters == [roles |-> MasterRoles, n |-> 1]
Slaves(n) == [roles |-> SlaveRoles, n |-> n]

Launch(kind, templates) ==
    [pc |-> "list", kind |-> kind, by |-> commands + 1, templates |-> templates,
     rest |-> templates[1].roles, host |-> NoHost, has |-> FALSE, ids |-> {}]

MasterMayBeLaunchedMutant == Cardinality(Running(NAMENODE)) <= 1

\* check_running(NAMENODE, 0).  Otherwise launch-master returns.
MasterMayBeLaunched == Running(NAMENODE) = {}

LaunchMaster(p) == MasterMayBeLaunched /\ Begins(p, Launch("master", <<Masters>>))

\* check_running(NAMENODE, 1).  The address of the master goes to the slaves
\* letter by letter, add_env_strings((s)) not being given a tuple: it is no host
\* for them.
LaunchSlaves(p, n) == /\ Cardinality(Running(NAMENODE)) = 1
                      /\ Begins(p, Launch("slaves", <<Slaves(n)>>))

\* launch-cluster checks nothing.
LaunchCluster(p, n) == Begins(p, Launch("cluster", <<Masters, Slaves(n)>>))

-----------------------------------------------------------------------------
(* launch_instances: _create_groups for each role, then ec2-run.           *)

\* The next role, or the launch.
NextGroup(s) == IF Len(s.rest) > 1 THEN [s EXCEPT !.pc = "list", !.rest = Tail(@)]
                ELSE [s EXCEPT !.pc = "run"]

\* After the cluster's group: the role's group, if it was not in the list.
RoleGroup(s, has) == IF has THEN NextGroup(s) ELSE [s EXCEPT !.pc = "role"]

\* _get_all_group_names
ListGroups(p) ==
    /\ At(p, "list")
    /\ LET has == Head(proc[p].rest) \in groups
       IN  Goes(p, IF CG \in groups THEN RoleGroup(proc[p], has)
                   ELSE [proc[p] EXCEPT !.pc = "cluster", !.has = has])

CreateClusterGroup(p) ==
    /\ At(p, "cluster") /\ CG \notin groups
    /\ groups' = groups \cup {CG}
    /\ Become(p, [proc[p] EXCEPT !.pc = "self"])
    /\ UNCHANGED <<rules, inst, site, commands, faults, history>>

\* Another launch was faster: InvalidGroup.Duplicate.
ClusterGroupExists(p) == At(p, "cluster") /\ CG \in groups /\ Dies(p)

\* EC2 refuses a rule for a group that is not there, and one it has.
Authorizable(r) == r[1] \in groups /\ r \notin rules

AuthorizeSelfMutant(p) ==
    /\ At(p, "self") /\ Authorizable(SelfRule)
    /\ rules' = rules \cup {SelfRule}
    /\ Become(p, [proc[p] EXCEPT !.pc = "role"])
    /\ UNCHANGED <<groups, inst, site, commands, faults, history>>

AuthorizeSelf(p) ==
    /\ At(p, "self") /\ Authorizable(SelfRule)
    /\ rules' = rules \cup {SelfRule}
    /\ Become(p, [proc[p] EXCEPT !.pc = "ssh"])
    /\ UNCHANGED <<groups, inst, site, commands, faults, history>>

AuthorizeSelfRefused(p) == At(p, "self") /\ ~Authorizable(SelfRule) /\ Dies(p)

AuthorizeSsh(p) ==
    /\ At(p, "ssh") /\ Authorizable(SshRule)
    /\ rules' = rules \cup {SshRule}
    /\ Become(p, RoleGroup([proc[p] EXCEPT !.has = FALSE], proc[p].has))
    /\ UNCHANGED <<groups, inst, site, commands, faults, history>>

AuthorizeSshRefused(p) == At(p, "ssh") /\ ~Authorizable(SshRule) /\ Dies(p)

CreateRoleGroup(p) ==
    /\ At(p, "role") /\ Head(proc[p].rest) \notin groups
    /\ groups' = groups \cup {Head(proc[p].rest)}
    /\ Become(p, NextGroup(proc[p]))
    /\ upset' = upset \cup (IF Others(p, {"delete"}) THEN {"delete"} ELSE {})
    /\ UNCHANGED <<rules, inst, site, commands, faults, strays, opened>>

RoleGroupExists(p) == At(p, "role") /\ Head(proc[p].rest) \in groups /\ Dies(p)

GroupNamesMutant(roles) == Elements(roles)

\* _get_group_names
GroupNames(roles) == {CG} \cup Elements(roles)

\* The first n instances not used so far.
Fresh(n) == {i \in Inst : inst[i].st = "unused"
                /\ Cardinality({j \in Inst : inst[j].st = "unused" /\ j < i}) < n}

\* EC2 carries out RunInstances for the template at hand of process p.
Made(p) == Fresh(Head(proc[p].templates).n)

Makes(p) ==
    LET t == Head(proc[p].templates)
        names == GroupNames(t.roles)
    IN  /\ At(p, "run") /\ names \subseteq groups /\ Cardinality(Made(p)) = t.n
        /\ inst' = [i \in Inst |-> IF i \notin Made(p) THEN inst[i] ELSE
                      [st |-> "pending", groups |-> names, host |-> proc[p].host,
                       by |-> proc[p].by, kind |-> proc[p].kind]]

RunInstances(p) ==
    /\ Makes(p)
    /\ Become(p, [proc[p] EXCEPT !.pc = "wait", !.ids = Made(p)])
    /\ UNCHANGED <<groups, rules, site, commands, faults, history>>

\* EC2 carries out the call and the answer is lost.  boto sends it again, without a
\* client token, or gives up, which makes ec2-run fail.
RunAnswerLost(p) ==
    /\ faults < MaxFaults /\ faults' = faults + 1
    /\ Makes(p)
    /\ strays' = strays \cup Made(p)
    /\ UNCHANGED <<groups, rules, site, proc, commands, opened, upset>>

\* ec2-run refuses, or EC2 does, or boto has given up; the output is not JSON.
RunRefused(p) == At(p, "run") /\ Dies(p)

-----------------------------------------------------------------------------
(* wait_for_instances and the end of _launch_cluster_instances' loop.      *)

AllStartedMutant(ids) == \E i \in ids : inst[i].st = "running"

\* _all_started
AllStarted(ids) == \A i \in ids : inst[i].st = "running"

Wait(p) == /\ At(p, "wait") /\ AllStarted(proc[p].ids)
           /\ Goes(p, [proc[p] EXCEPT !.pc = "gather"])

\* The next template, or what follows the loop.
NextTemplate(s, host) ==
    CASE Len(s.templates) > 1 ->
            [s EXCEPT !.pc = "list", !.templates = Tail(@), !.rest = s.templates[2].roles,
                      !.host = host, !.ids = {}]
      [] s.kind = "slaves" -> Idle
      [] OTHER -> [pc |-> "site"]

HostOfMutant(t, old) == IF t.n = 1 /\ Running(t.roles[1]) # {}
                        THEN CHOOSE i \in Running(t.roles[1]) : TRUE ELSE old

\* The address that later instances get for the roles of template t: there must
\* be one instance, and it must have been asked for.
HostOf(t, old) == IF t.n = 1 /\ Cardinality(Running(t.roles[1])) = 1
                  THEN CHOOSE i \in Running(t.roles[1]) : TRUE ELSE old

Gather(p) ==
    /\ At(p, "gather")
    /\ Goes(p, NextTemplate(proc[p], HostOf(Head(proc[p].templates), proc[p].host)))

\* TimeoutException: _launch_instances returns None.  launch-slaves is at its
\* end; launch-cluster goes on, or takes the len of None.
WaitTimeout(p) ==
    /\ At(p, "wait")
    /\ LET s == proc[p] IN
       IF s.kind = "slaves" \/ Head(s.templates).n # 1
       THEN /\ Become(p, NextTemplate(s, s.host))
            /\ strays' = strays \cup s.ids
            /\ UNCHANGED <<ec2, site, commands, faults, opened, upset>>
       ELSE Dies(p)

-----------------------------------------------------------------------------
(* The rest of launch_cluster.                                             *)

HaveMasters == Running(NAMENODE) # {} /\ Running(JOBTRACKER) # {}

\* _get_namenode and _get_jobtracker: the first of each in EC2's list of
\* instances.  The order of the list is not specified; two calls in a row get the
\* same one, so an instance that is both and first is first twice.
FoundMasters == {m \in Running(NAMENODE) \X Running(JOBTRACKER) :
                    m[1] \in Running(JOBTRACKER) /\ m[2] \in Running(NAMENODE) => m[1] = m[2]}

\* _create_client_hadoop_site_file
WriteSite(p) ==
    /\ At(p, "site") /\ HaveMasters
    /\ \E m \in FoundMasters : site' = m
    /\ Become(p, [pc |-> "open"])
    /\ UNCHANGED <<ec2, commands, faults, history>>

\* The file is open for writing when there turns out to be no address.
WriteSiteRaises(p) == /\ At(p, "site") /\ ~HaveMasters
                      /\ site' = <<>>
                      /\ Ends(p) /\ UNCHANGED <<faults, upset>>

\* _authorize_client_ports: the rules for the namenode's and the jobtracker's
\* address, one after the other for each port.
InnerRules(nn, jt) == [n \in 1 .. 2 * Len(InnerPorts) |->
    RuleFor(InnerPorts[(n + 1) \div 2], IF n % 2 = 1 THEN nn ELSE jt)]

BeginAuthorize(p) ==
    /\ At(p, "open") /\ HaveMasters
    /\ \E m \in FoundMasters :
          Goes(p, [pc |-> "revoke", ok |-> TRUE, todo |-> ClientRules \o InnerRules(m[1], m[2])])

\* It goes through the client's rules before it uses the addresses it has not got.
BeginAuthorizeAlone(p) ==
    /\ At(p, "open") /\ ~HaveMasters
    /\ Goes(p, [pc |-> "revoke", ok |-> FALSE, todo |-> ClientRules])

RevokeMutant(p) ==
    /\ At(p, "revoke") /\ proc[p].todo # <<>> /\ Head(proc[p].todo)[1] \in groups
    /\ rules' = rules \ {Head(proc[p].todo)}
    /\ Become(p, IF Head(proc[p].todo) \in rules THEN [proc[p] EXCEPT !.todo = Tail(@)]
                 ELSE [proc[p] EXCEPT !.pc = "grant"])
    /\ UNCHANGED <<groups, inst, site, commands, faults, history>>

\* authorize_role; EC2 does not mind revoking a rule that is not there.
Revoke(p) ==
    /\ At(p, "revoke") /\ proc[p].todo # <<>> /\ Head(proc[p].todo)[1] \in groups
    /\ rules' = rules \ {Head(proc[p].todo)}
    /\ Become(p, [proc[p] EXCEPT !.pc = "grant"])
    /\ UNCHANGED <<groups, inst, site, commands, faults, history>>

RevokeRefused(p) == /\ At(p, "revoke") /\ proc[p].todo # <<>>
                    /\ Head(proc[p].todo)[1] \notin groups
                    /\ Dies(p)

Grant(p) ==
    /\ At(p, "grant") /\ Authorizable(Head(proc[p].todo))
    /\ rules' = rules \cup {Head(proc[p].todo)}
    /\ Become(p, [proc[p] EXCEPT !.pc = "revoke", !.todo = Tail(@)])
    /\ UNCHANGED <<groups, inst, site, commands, faults, history>>

\* The group is gone, or another launch has granted the same in between.
GrantRefused(p) == /\ At(p, "grant") /\ ~Authorizable(Head(proc[p].todo))
                   /\ Ends(p) /\ UNCHANGED <<site, faults, upset>>

LaunchDone(p) == /\ At(p, "revoke") /\ proc[p].todo = <<>> /\ proc[p].ok
                 /\ Become(p, Idle)
                 /\ opened' = TRUE
                 /\ UNCHANGED <<ec2, site, commands, faults, strays, upset>>

LaunchRaises(p) == At(p, "revoke") /\ proc[p].todo = <<>> /\ ~proc[p].ok /\ Dies(p)

-----------------------------------------------------------------------------
(* terminate-cluster and delete-cluster                                    *)

\* terminate() lists the running instances.  There are no spot requests: nothing
\* in hadoop-ec2 asks for use_spot.
Terminate(p) == Begins(p, [pc |-> "terminate", ids |-> Running(CG)])

TerminateListed(p) ==
    /\ At(p, "terminate")
    /\ inst' = [i \in Inst |-> IF i \in proc[p].ids
                               THEN [inst[i] EXCEPT !.st = "terminated"] ELSE inst[i]]
    /\ Become(p, Idle)
    /\ UNCHANGED <<groups, rules, site, commands, faults, history>>

ClusterGroupsMutant == groups \cap {CG}

\* _get_all_group_names_for_cluster: none if the cluster's group is not there.
ClusterGroups == IF CG \in groups THEN groups ELSE {}

Delete(p) == Begins(p, [pc |-> "delete", todo |-> ClusterGroups])

\* EC2 refuses to delete a group that is in use or is not there.
Deletable(g) == g \in groups /\ \A i \in Alive : g \notin inst[i].groups

DeleteGroup(p) ==
    /\ At(p, "delete")
    /\ \E g \in proc[p].todo :
          /\ Deletable(g)
          /\ groups' = groups \ {g}
          /\ rules' = {r \in rules : r[1] # g}
          /\ Become(p, [proc[p] EXCEPT !.todo = @ \ {g}])
    /\ opened' = FALSE
    /\ upset' = upset \cup (IF Others(p, Grouping) THEN {"delete"} ELSE {})
                      \cup (IF Others(p, {"revoke", "grant"}) THEN {"grant"} ELSE {})
    /\ UNCHANGED <<inst, site, commands, faults, strays>>

DeleteRefused(p) ==
    At(p, "delete") /\ (\E g \in proc[p].todo : ~Deletable(g)) /\ Dies(p)

DeleteDone(p) == At(p, "delete") /\ proc[p].todo = {} /\ Goes(p, Idle)

-----------------------------------------------------------------------------
(* EC2                                                                     *)

InstanceStarts ==
    /\ \E i \in Inst : /\ inst[i].st = "pending"
                       /\ inst' = [inst EXCEPT ![i].st = "running"]
    /\ UNCHANGED <<groups, rules, site, proc, commands, faults, history>>

\* An instance does not start, or stops by itself.
InstanceFails ==
    /\ faults < MaxFaults /\ faults' = faults + 1
    /\ \E i \in Alive : inst' = [inst EXCEPT ![i].st = "terminated"]
    /\ UNCHANGED <<groups, rules, site, proc, commands, history>>

Command(p) == \/ LaunchMaster(p)
              \/ \E n \in Numbers : LaunchSlaves(p, n) \/ LaunchCluster(p, n)
              \/ Terminate(p) \/ Delete(p)

GroupStep(p) == \/ ListGroups(p) \/ CreateClusterGroup(p) \/ ClusterGroupExists(p)
                \/ AuthorizeSelf(p) \/ AuthorizeSelfRefused(p)
                \/ AuthorizeSsh(p) \/ AuthorizeSshRefused(p)
                \/ CreateRoleGroup(p) \/ RoleGroupExists(p)

InstanceStep(p) == \/ RunInstances(p) \/ RunAnswerLost(p) \/ RunRefused(p)
                   \/ Wait(p) \/ WaitTimeout(p) \/ Gather(p)

OpenStep(p) == \/ WriteSite(p) \/ WriteSiteRaises(p)
               \/ BeginAuthorize(p) \/ BeginAuthorizeAlone(p)
               \/ Revoke(p) \/ RevokeRefused(p) \/ Grant(p) \/ GrantRefused(p)
               \/ LaunchDone(p) \/ LaunchRaises(p)

EndStep(p) == TerminateListed(p) \/ DeleteGroup(p) \/ DeleteRefused(p) \/ DeleteDone(p)

Step(p) == GroupStep(p) \/ InstanceStep(p) \/ OpenStep(p) \/ EndStep(p)

Next == \/ \E p \in Proc : Command(p) \/ Step(p) \/ Killed(p)
        \/ InstanceStarts \/ InstanceFails

Spec == Init /\ [][Next]_vars

-----------------------------------------------------------------------------
(* Properties                                                              *)

Instance == [st : {"unused", "pending", "running", "terminated"}, groups : SUBSET Group,
             host : Inst \cup {NoHost}, by : Nat,
             kind : {"none", "master", "slaves", "cluster"}]

\* The types of the variables; the rules are of groups that exist, and instances
\* that exist are in the group of the cluster, by which list, terminate-cluster
\* and each other find them, and in groups that exist.
TypeOK == /\ groups \subseteq Group
          /\ \A r \in rules : r[1] \in groups
          /\ inst \in [Inst -> Instance]
          /\ site \in {<<>>} \cup (Inst \X Inst)
          /\ commands \in Nat /\ faults \in Nat /\ opened \in BOOLEAN
          /\ strays \subseteq Inst /\ upset \subseteq {"ssh", "grant", "delete"}
          /\ \A i \in Alive : CG \in inst[i].groups /\ inst[i].groups \subseteq groups

\* launch-master looks for a running namenode and launches one much later.
\* Launches that overlap all see none, but there are never more masters than
\* processes that run at a time: a master that has been waited for keeps every
\* later launch from its start.  Masters of launches that timed out, those of a
\* call that was sent again, and those of launch-cluster, which does not look, do
\* not count.
MastersPerProcess ==
    Cardinality({i \in Alive : inst[i].kind = "master" /\ i \notin strays})
        <= Cardinality(Proc)

\* terminate-cluster looks at running instances only.  What it misses is known: a
\* launch still waits for the instance, or gave up waiting, or EC2's answer that
\* told of the instance was lost.
PendingIsWatched ==
    \A i \in Inst : inst[i].st = "pending" =>
        i \in strays \/ \E p \in Proc : At(p, "wait") /\ i \in proc[p].ids

\* A launch that finds the cluster's group takes its rules for granted.  They are
\* there, or the launch that made the group is about to add them, or one was
\* stopped at just that point.
GroupIsReachable ==
    CG \in groups => \/ {SelfRule, SshRule} \subseteq rules
                     \/ \E p \in Proc : proc[p].pc \in {"self", "ssh"}
                     \/ "ssh" \in upset

\* delete-cluster looks at the role groups only where the cluster's group exists:
\* role groups without it come from a delete-cluster that is under way, was
\* stopped, or met a launch that was making groups.
OrphansAreExplained ==
    CG \notin groups /\ groups # {} =>
        "delete" \in upset \/ \E p \in Proc : At(p, "delete")

\* The slaves of launch-cluster get the address of the master it launched, or
\* none, whatever other masters are there, those of a call that was sent again
\* included; unless that master is gone.
SlavesFollowTheirMaster ==
    \A i \in Inst : inst[i].host # NoHost =>
        \/ inst[inst[i].host].by = inst[i].by
        \/ \A j \in Alive \ strays :
              inst[j].by = inst[i].by => NAMENODE \notin inst[j].groups

\* Ports that a launch has opened to the client stay open although every later
\* launch revokes each rule before it grants it again: a rule that is not there
\* is about to be granted, or a launch was stopped at just that point.
ClientPortsStayOpen ==
    opened => \A n \in DOMAIN ClientRules :
        \/ ClientRules[n] \in rules
        \/ \E p \in Proc : At(p, "grant") /\ Head(proc[p].todo) = ClientRules[n]
        \/ "grant" \in upset
=============================================================================
