------------------------ MODULE ClusterLaunchProofs ------------------------
(***************************************************************************)
(* What the commands on a cluster guarantee for any number of processes,   *)
(* instances, roles and ports, and any number of commands and faults.      *)
(***************************************************************************)
EXTENDS ClusterLaunch, TLAPS, FiniteSetTheorems

-----------------------------------------------------------------------------
(* The types, those of the processes included                              *)

Kinds == {"master", "slaves", "cluster"}

SlaveTemplates == {<<Slaves(n)>> : n \in Numbers}

\* The templates that a launch of each kind has before it.
TemplatesOf(kind) ==
    CASE kind = "master" -> {<<Masters>>}
      [] kind = "slaves" -> SlaveTemplates
      [] OTHER -> SlaveTemplates \cup {<<Masters, Slaves(n)>> : n \in Numbers}

Template == {Masters} \cup {Slaves(n) : n \in Numbers}

Launching == Grouping \cup Waiting

LaunchRec == [pc : Launching, kind : Kinds, by : Nat, templates : Seq(Template) \ {<<>>},
              rest : Seq(Role) \ {<<>>}, host : Inst \cup {NoHost}, has : BOOLEAN,
              ids : SUBSET Inst]

Rule == Role \X STRING \X (Inst \cup {Client})

OpenRec == [pc : {"revoke", "grant"}, ok : BOOLEAN, todo : Seq(Rule)]
TerminateRec == [pc : {"terminate"}, ids : SUBSET Inst]
DeleteRec == [pc : {"delete"}, todo : SUBSET Group]

Process == {Idle, [pc |-> "site"], [pc |-> "open"]}
           \cup LaunchRec \cup OpenRec \cup TerminateRec \cup DeleteRec

ProcessOK(s) == /\ s \in Process
                /\ s.pc \in Launching => s.templates \in TemplatesOf(s.kind)
                /\ s.pc = "grant" => s.todo # <<>>

Types == TypeOK /\ DOMAIN proc = Proc /\ (\A p \in Proc : ProcessOK(proc[p]))
         /\ proc = [p \in Proc |-> proc[p]]

-----------------------------------------------------------------------------
(* What the properties need to be inductive                                *)

\* The launch that made the cluster's group authorises the group first.
Reachable ==
    CG \in groups => \/ {SelfRule, SshRule} \subseteq rules
                     \/ \E p \in Proc : At(p, "self")
                     \/ SelfRule \in rules /\ \E p \in Proc : At(p, "ssh")
                     \/ "ssh" \in upset

\* A delete-cluster that began when the cluster's group was there has all groups
\* on its list, a launch that saw that group or made it makes role groups beside
\* it, and groups without the cluster's are on a list.
Orphans ==
    "delete" \in upset \/
        /\ \A p \in Proc : At(p, "delete") /\ CG \in proc[p].todo => groups \subseteq proc[p].todo
        /\ \A p \in Proc : proc[p].pc \in {"self", "ssh", "role"} => CG \in groups
        /\ CG \notin groups /\ groups # {} =>
              \E p \in Proc : At(p, "delete") /\ groups \subseteq proc[p].todo

Covered(r) == r \in rules \/ \E p \in Proc : At(p, "grant") /\ Head(proc[p].todo) = r

\* A client's port is open, about to be opened, or on the list of every launch
\* that is at its ports.
Ports ==
    "grant" \in upset \/
        /\ \A p \in Proc : At(p, "grant") => Head(proc[p].todo)[1] \in groups
        /\ \A p \in Proc : proc[p].pc \in {"revoke", "grant"} =>
              \A n \in DOMAIN ClientRules :
                  ClientRules[n] \in Elements(proc[p].todo) \/ Covered(ClientRules[n])
        /\ opened => \A n \in DOMAIN ClientRules : Covered(ClientRules[n])

\* Instances that are waited for: each by one launch, which made them.  What is
\* about to be terminated was found running.
Watched ==
    /\ PendingIsWatched
    /\ \A p \in Proc : proc[p].pc \in Waiting =>
          \A i \in proc[p].ids : /\ inst[i].st # "unused"
                                 /\ inst[i].by = proc[p].by /\ inst[i].kind = proc[p].kind
    /\ \A p \in Proc : At(p, "gather") => \A i \in proc[p].ids : inst[i].st # "pending"
    /\ \A p \in Proc : At(p, "terminate") => \A i \in proc[p].ids : inst[i].st # "unused"

\* Commands have numbers of their own.
Numbered ==
    /\ \A p \in Proc : proc[p].pc \in Launching => proc[p].by \in 1 .. commands
    /\ \A p, q \in Proc : proc[p].pc \in Launching /\ proc[q].pc \in Launching =>
          (proc[p].by = proc[q].by => p = q)
    /\ \A i \in Inst : inst[i].by <= commands

MasterLaunch(p) == proc[p].pc \in Launching /\ proc[p].kind = "master"

\* Masters that were waited for to the end.
Ready == {i \in Alive : /\ inst[i].kind = "master" /\ i \notin strays
                        /\ \A p \in Proc : proc[p].pc \in Waiting => i \notin proc[p].ids}

\* Each of them belongs to a process that no longer launches a master.
OwnedMasters ==
    /\ \E f \in [Ready -> Proc] : /\ \A i, j \in Ready : f[i] = f[j] => i = j
                                  /\ \A i \in Ready : ~MasterLaunch(f[i])
    /\ \A i \in Alive : inst[i].kind = "master" => NAMENODE \in inst[i].groups
    /\ \A p \in Proc : proc[p].pc \in Waiting /\ proc[p].kind = "master" =>
          \A i, j \in proc[p].ids : i = j

\* A host h is right for the instances of command b.
RightHost(h, b) ==
    \/ inst[h].by = b
    \/ \A j \in Alive \ strays : inst[j].by = b => NAMENODE \notin inst[j].groups

HasMasters(p) == Head(proc[p].templates) = Masters

\* The host that instance i was given, and the one that launch p will give.
GivenHost(i) == inst[i].host # NoHost =>
    inst[inst[i].host].st # "unused" /\ RightHost(inst[i].host, inst[i].by)
FoundHost(p) == proc[p].pc \in Launching /\ proc[p].host # NoHost =>
    inst[proc[p].host].st # "unused" /\ RightHost(proc[p].host, proc[p].by)

\* Before it is told of its masters a launch has no instance but strays; while it
\* waits for them it has no other.
MastersFirst(p) == proc[p].pc \in Launching /\ HasMasters(p) =>
    /\ proc[p].host = NoHost
    /\ proc[p].pc \in Grouping => \A i \in Inst :
          inst[i].by = proc[p].by => i \in strays /\ inst[i].host = NoHost
    /\ proc[p].pc \in Waiting =>
          /\ \A i \in Inst \ strays : inst[i].by = proc[p].by => i \in proc[p].ids
          /\ \A i \in proc[p].ids : NAMENODE \in inst[i].groups
          /\ \A i, j \in proc[p].ids : i = j

\* What a launch finds out about its masters is right for good.
Hosts == /\ \A i \in Inst : GivenHost(i)
         /\ \A p \in Proc : FoundHost(p) /\ MastersFirst(p)

Network == Reachable /\ Orphans /\ Ports
Fleet == Watched /\ Numbered /\ OwnedMasters /\ Hosts

IInv == Types /\ Network /\ Fleet

-----------------------------------------------------------------------------
(* Facts on the constants and on the records of processes                  *)

LEMMA Constants ==
    /\ IsFiniteSet(Proc) /\ IsFiniteSet(Inst) /\ Inst \subseteq Nat \ {0}
    /\ MasterRoles \in Seq(Role) /\ MasterRoles # <<>>
    /\ SlaveRoles \in Seq(Role) /\ SlaveRoles # <<>>
    /\ CG \notin Role /\ Role \subseteq Group /\ CG \in Group
    /\ NAMENODE \notin Elements(SlaveRoles) /\ NAMENODE \in Elements(MasterRoles)
    /\ NAMENODE # CG /\ NAMENODE \in Role
    /\ ClientPorts \in Seq(Role \X STRING) /\ InnerPorts \in Seq(Role \X STRING)
    /\ Numbers \subseteq Nat \ {0} /\ NoHost \notin Inst
<1>1. /\ IsFiniteSet(Proc) /\ IsFiniteSet(Inst) /\ Inst \subseteq Nat \ {0}
      /\ MasterRoles \in Seq(Role) /\ MasterRoles # <<>>
      /\ SlaveRoles \in Seq(Role) /\ SlaveRoles # <<>>
      /\ CG \notin Role
      /\ NAMENODE \notin Elements(SlaveRoles)
      /\ ClientPorts \in Seq(Role \X STRING) /\ InnerPorts \in Seq(Role \X STRING)
      /\ Numbers \subseteq Nat \ {0}
  BY ClusterAssumption
<1>2. 1 \in DOMAIN MasterRoles
  BY <1>1
<1>3. NAMENODE \in Elements(MasterRoles)
  BY <1>2 DEF NAMENODE, Elements
<1>4. NAMENODE \in Role
  BY <1>3 DEF Role
<1> QED  BY <1>1, <1>3, <1>4 DEF Group, NoHost

LEMMA TemplateFacts ==
    /\ Masters.roles = MasterRoles /\ Masters.n = 1
    /\ \A n \in Numbers : /\ Slaves(n).roles = SlaveRoles /\ Slaves(n).n = n
                          /\ Slaves(n) # Masters
    /\ \A t \in Template : t.roles \in Seq(Role) \ {<<>>} /\ t.n \in Nat /\ t.n # 0
<1>1. /\ Masters.roles = MasterRoles /\ Masters.n = 1
      /\ \A n \in Numbers : Slaves(n).roles = SlaveRoles /\ Slaves(n).n = n
  BY DEF Masters, Slaves
<1>2. ASSUME NEW n \in Numbers, Slaves(n) = Masters
      PROVE  FALSE
  <2>1. SlaveRoles = MasterRoles
    BY <1>1, <1>2
  <2> QED  BY <2>1, Constants
<1>3. \A t \in Template : t.roles \in Seq(Role) \ {<<>>} /\ t.n \in Nat /\ t.n # 0
  BY <1>1, Constants DEF Template
<1> QED  BY <1>1, <1>2, <1>3

\* The templates that are before a launch.
LEMMA TemplatesFacts ==
    ASSUME NEW kind \in Kinds, NEW ts \in TemplatesOf(kind)
    PROVE  /\ ts \in Seq(Template) /\ ts # <<>> /\ Head(ts) \in Template
           /\ kind = "master" => ts = <<Masters>> /\ Len(ts) = 1
           /\ kind = "slaves" => \E n \in Numbers : Head(ts) = Slaves(n) /\ Len(ts) = 1
           /\ Len(ts) > 1 => /\ kind = "cluster" /\ Head(ts) = Masters
                             /\ Tail(ts) \in SlaveTemplates
                             /\ ts[2].roles = SlaveRoles
           /\ ~(Len(ts) > 1) /\ kind = "cluster" => \E n \in Numbers : Head(ts) = Slaves(n)
<1>1. CASE \E n \in Numbers : ts = <<Slaves(n)>>
  <2>1. PICK n \in Numbers : ts = <<Slaves(n)>>
    BY <1>1
  <2>2. Slaves(n) \in Template
    BY DEF Template
  <2>3. ts \in Seq(Template) /\ ts # <<>> /\ Head(ts) = Slaves(n) /\ Len(ts) = 1
    BY <2>1, <2>2
  <2>4. kind # "master"
    BY <2>3, TemplateFacts DEF TemplatesOf
  <2> QED  BY <2>2, <2>3, <2>4
<1>2. CASE ts = <<Masters>> /\ kind = "master"
  <2>1. Masters \in Template
    BY DEF Template
  <2> QED  BY <1>2, <2>1
<1>3. CASE kind = "cluster" /\ \E n \in Numbers : ts = <<Masters, Slaves(n)>>
  <2>1. PICK n \in Numbers : ts = <<Masters, Slaves(n)>>
    BY <1>3
  <2>2. Masters \in Template /\ Slaves(n) \in Template
    BY DEF Template
  <2>3. /\ ts \in Seq(Template) /\ ts # <<>> /\ Head(ts) = Masters /\ Len(ts) = 2
        /\ Tail(ts) = <<Slaves(n)>> /\ ts[2] = Slaves(n)
    BY <2>1, <2>2
  <2>4. Tail(ts) \in SlaveTemplates
    BY <2>3 DEF SlaveTemplates
  <2> QED  BY <1>3, <2>2, <2>3, <2>4, TemplateFacts
<1>4. \/ ts \in SlaveTemplates \/ (kind = "master" /\ ts = <<Masters>>)
      \/ kind = "cluster" /\ \E n \in Numbers : ts = <<Masters, Slaves(n)>>
  BY DEF TemplatesOf, Kinds
<1> QED  BY <1>1, <1>2, <1>3, <1>4 DEF SlaveTemplates

LEMMA LaunchFields ==
    ASSUME NEW s, ProcessOK(s), s.pc \in Launching
    PROVE  /\ s \in LaunchRec /\ s.kind \in Kinds /\ s.by \in Nat
           /\ s.templates \in TemplatesOf(s.kind)
           /\ s.rest \in Seq(Role) /\ s.rest # <<>> /\ s.host \in Inst \cup {NoHost}
           /\ s.has \in BOOLEAN /\ s.ids \in SUBSET Inst
<1>1. s \in LaunchRec
  BY DEF ProcessOK, Process, Launching, Grouping, Waiting, Idle, OpenRec, TerminateRec, DeleteRec
<1> QED  BY <1>1 DEF LaunchRec, ProcessOK

LEMMA OpenFields ==
    ASSUME NEW s, ProcessOK(s), s.pc \in {"revoke", "grant"}
    PROVE  /\ s \in OpenRec /\ s.ok \in BOOLEAN /\ s.todo \in Seq(Rule)
           /\ s.pc = "grant" => s.todo # <<>>
<1>1. s \in OpenRec
  BY DEF ProcessOK, Process, Launching, Grouping, Waiting, Idle, LaunchRec, TerminateRec, DeleteRec
<1> QED  BY <1>1 DEF OpenRec, ProcessOK

LEMMA EndFields ==
    ASSUME NEW s, ProcessOK(s)
    PROVE  /\ s.pc = "terminate" => s \in TerminateRec /\ s.ids \in SUBSET Inst
           /\ s.pc = "delete" => s \in DeleteRec /\ s.todo \in SUBSET Group
BY DEF ProcessOK, Process, Launching, Grouping, Waiting, Idle, LaunchRec, OpenRec, TerminateRec,
       DeleteRec

\* A launch in another place.
SameLaunch(s, t) == /\ t.kind = s.kind /\ t.by = s.by /\ t.templates = s.templates
                    /\ t.host = s.host /\ t.ids = s.ids

LEMMA LongTail ==
    ASSUME NEW S, NEW q \in Seq(S), Len(q) > 1
    PROVE  Tail(q) \in Seq(S) /\ Tail(q) # <<>>
<1>1. Tail(q) \in Seq(S) /\ Len(Tail(q)) = Len(q) - 1 /\ Len(q) \in Nat
  OBVIOUS
<1>2. Len(Tail(q)) # 0
  BY <1>1
<1>3. Len(<<>>) = 0
  OBVIOUS
<1> QED  BY <1>1, <1>2, <1>3, Zenon

LEMMA MovedOK ==
    ASSUME NEW s, ProcessOK(s), s.pc \in Launching,
           NEW t \in LaunchRec, SameLaunch(s, t)
    PROVE  ProcessOK(t)
<1>1. s.templates \in TemplatesOf(s.kind)
  BY LaunchFields
<1>2. t.pc # "grant"
  BY DEF LaunchRec, Launching, Grouping, Waiting
<1> QED  BY <1>1, <1>2 DEF ProcessOK, Process, SameLaunch

LEMMA SetPcOK ==
    ASSUME NEW s, ProcessOK(s), s.pc \in Launching, NEW pc \in Launching
    PROVE  /\ ProcessOK([s EXCEPT !.pc = pc]) /\ [s EXCEPT !.pc = pc].pc = pc
           /\ SameLaunch(s, [s EXCEPT !.pc = pc])
           /\ [s EXCEPT !.pc = pc].rest = s.rest /\ [s EXCEPT !.pc = pc].has = s.has
<1>1. s \in LaunchRec /\ s.templates \in TemplatesOf(s.kind)
  BY LaunchFields
<1> DEFINE t == [s EXCEPT !.pc = pc]
<1>2. /\ t \in LaunchRec /\ t.pc = pc /\ SameLaunch(s, t) /\ t.has = s.has /\ t.rest = s.rest
  BY <1>1 DEF LaunchRec, SameLaunch
<1> HIDE DEF t
<1>3. ProcessOK(t)
  BY <1>1, <1>2 DEF ProcessOK, Process, SameLaunch, Launching, Grouping, Waiting
<1> QED  BY <1>2, <1>3 DEF t

LEMMA NextGroupOK ==
    ASSUME NEW s, ProcessOK(s), s.pc \in Launching
    PROVE  /\ ProcessOK(NextGroup(s)) /\ SameLaunch(s, NextGroup(s))
           /\ NextGroup(s).pc \in {"list", "run"}
<1>1. s \in LaunchRec /\ s.rest \in Seq(Role) /\ s.has \in BOOLEAN
  BY LaunchFields
<1>2. CASE Len(s.rest) > 1
  <2>1. Tail(s.rest) \in Seq(Role) \ {<<>>}
    BY <1>1, <1>2, LongTail
  <2> DEFINE t == [s EXCEPT !.pc = "list", !.rest = Tail(s.rest)]
  <2>2. t \in LaunchRec /\ SameLaunch(s, t) /\ t.pc = "list"
    BY <1>1, <2>1 DEF LaunchRec, SameLaunch, Launching, Grouping
  <2>3. NextGroup(s) = t
    BY <1>1, <1>2 DEF NextGroup, LaunchRec
  <2> HIDE DEF t
  <2> QED  BY <2>2, <2>3, MovedOK
<1>3. CASE ~(Len(s.rest) > 1)
  BY <1>3, SetPcOK DEF NextGroup, Launching, Grouping
<1> QED  BY <1>2, <1>3

LEMMA RoleGroupOK ==
    ASSUME NEW s, ProcessOK(s), s.pc \in Launching, NEW has
    PROVE  /\ ProcessOK(RoleGroup(s, has)) /\ SameLaunch(s, RoleGroup(s, has))
           /\ RoleGroup(s, has).pc \in {"list", "run", "role"}
<1>1. CASE has
  BY <1>1, NextGroupOK DEF RoleGroup
<1>2. CASE ~has
  BY <1>2, SetPcOK DEF RoleGroup, Launching, Grouping
<1> QED  BY <1>1, <1>2

-----------------------------------------------------------------------------
(* The types are kept.                                                     *)

\* One process goes to another place.
LEMMA ProcOK ==
    ASSUME Types, NEW p \in Proc, NEW t, Become(p, t), ProcessOK(t)
    PROVE  /\ DOMAIN proc' = Proc /\ (\A q \in Proc : ProcessOK(proc'[q]))
           /\ proc' = [q \in Proc |-> proc'[q]] /\ proc'[p] = t
           /\ \A q \in Proc \ {p} : proc'[q] = proc[q]
<1>1. proc = [q \in Proc |-> proc[q]] /\ \A q \in Proc : ProcessOK(proc[q])
  BY DEF Types
<1>2. proc' = [proc EXCEPT ![p] = t]
  BY DEF Become
<1>3. DOMAIN proc' = Proc /\ proc' = [q \in Proc |-> proc'[q]] /\ proc'[p] = t
      /\ \A q \in Proc \ {p} : proc'[q] = proc[q]
  BY <1>1, <1>2
<1> QED  BY <1>1, <1>3

\* A step that leaves the instances as they are.
LEMMA SameInstances ==
    ASSUME Types, UNCHANGED inst, groups' \subseteq Group,
           \A r \in rules' : r[1] \in groups',
           \A i \in Alive : inst[i].groups \subseteq groups',
           site' \in {<<>>} \cup (Inst \X Inst), commands' \in Nat, faults' \in Nat,
           opened' \in BOOLEAN, strays' \subseteq Inst, upset' \subseteq {"ssh", "grant", "delete"}
    PROVE  TypeOK'
BY DEF Types, TypeOK, Alive

\* A step that changes nothing at EC2, in the client's files or in the history.
LEMMA OnlyProc ==
    ASSUME Types, UNCHANGED <<ec2, site, history>>, commands' \in Nat, faults' \in Nat
    PROVE  TypeOK'
<1>1. UNCHANGED <<groups, rules, inst, site, strays, opened, upset>>
  BY DEF ec2, history
<1> QED  BY <1>1 DEF Types, TypeOK, Alive

LEMMA IdleOK == ProcessOK(Idle) /\ Idle.pc = "idle"
BY DEF ProcessOK, Process, Idle, Launching, Grouping, Waiting

LEMMA LaunchOK ==
    ASSUME Types, NEW kind \in Kinds, NEW ts \in TemplatesOf(kind)
    PROVE  /\ ProcessOK(Launch(kind, ts)) /\ Launch(kind, ts).pc = "list"
           /\ Launch(kind, ts).kind = kind /\ Launch(kind, ts).by = commands + 1
           /\ Launch(kind, ts).templates = ts /\ Launch(kind, ts).host = NoHost
<1>1. ts \in Seq(Template) /\ ts # <<>> /\ Head(ts) \in Template
  BY TemplatesFacts
<1>2. ts[1] = Head(ts) /\ ts[1].roles \in Seq(Role) \ {<<>>}
  BY <1>1, TemplateFacts
<1>3. commands + 1 \in Nat
  BY DEF Types, TypeOK
<1> DEFINE t == Launch(kind, ts)
<1>4. /\ t \in LaunchRec /\ t.pc = "list" /\ t.kind = kind /\ t.by = commands + 1
      /\ t.templates = ts /\ t.host = NoHost
  BY <1>1, <1>2, <1>3 DEF Launch, LaunchRec, Launching, Grouping
<1> HIDE DEF t
<1>5. ProcessOK(t)
  BY <1>4 DEF ProcessOK, Process
<1> QED  BY <1>4, <1>5 DEF t

LEMMA BeginsTypes ==
    ASSUME Types, NEW p \in Proc, NEW t, ProcessOK(t), Begins(p, t)
    PROVE  Types' /\ proc'[p] = t /\ \A q \in Proc \ {p} : proc'[q] = proc[q]
<1>1. Become(p, t) /\ UNCHANGED <<ec2, site, faults, history>> /\ commands' = commands + 1
  BY DEF Begins
<1>2. commands' \in Nat /\ faults' \in Nat
  BY <1>1 DEF Types, TypeOK
<1>3. TypeOK'
  BY <1>1, <1>2, OnlyProc
<1> QED  BY <1>1, <1>3, ProcOK DEF Types

LEMMA GoesTypes ==
    ASSUME Types, NEW p \in Proc, NEW t, ProcessOK(t), Goes(p, t)
    PROVE  Types' /\ proc'[p] = t /\ \A q \in Proc \ {p} : proc'[q] = proc[q]
<1>1. Become(p, t) /\ UNCHANGED <<ec2, site, commands, faults, history>>
  BY DEF Goes
<1>2. commands' \in Nat /\ faults' \in Nat
  BY <1>1 DEF Types, TypeOK
<1>3. TypeOK'
  BY <1>1, <1>2, OnlyProc
<1> QED  BY <1>1, <1>3, ProcOK DEF Types

LEMMA UndoneType ==
    ASSUME NEW p \in Proc
    PROVE  Undone(p) \subseteq {"ssh", "grant", "delete"}
BY DEF Undone

\* A process ends by an exception, in whatever place.
LEMMA EndsTypes ==
    ASSUME Types, NEW p \in Proc, Ends(p), faults' \in Nat,
           site' \in {<<>>} \cup (Inst \X Inst), upset' \subseteq {"ssh", "grant", "delete"}
    PROVE  Types' /\ proc'[p] = Idle /\ \A q \in Proc \ {p} : proc'[q] = proc[q]
<1>1. /\ Become(p, Idle) /\ UNCHANGED <<groups, rules, inst, commands, opened>>
      /\ strays' = strays \cup (IF proc[p].pc \in Waiting THEN proc[p].ids ELSE {})
  BY DEF Ends, ec2
<1>2. proc[p].pc \in Waiting => proc[p].ids \subseteq Inst
  BY LaunchFields DEF Types, Launching
<1>3. /\ groups \subseteq Group /\ (\A r \in rules : r[1] \in groups) /\ commands \in Nat
      /\ opened \in BOOLEAN /\ strays \subseteq Inst
      /\ \A i \in Alive : inst[i].groups \subseteq groups
  BY DEF Types, TypeOK
<1>4. TypeOK'
  BY <1>1, <1>2, <1>3, SameInstances
<1> QED  BY <1>1, <1>4, ProcOK, IdleOK DEF Types

LEMMA DiesTypes ==
    ASSUME Types, NEW p \in Proc, Dies(p) \/ Killed(p)
    PROVE  /\ Types' /\ proc'[p] = Idle /\ \A q \in Proc \ {p} : proc'[q] = proc[q]
           /\ Ends(p) /\ upset' = upset \cup Undone(p)
<1>1. Ends(p) /\ upset' = upset \cup Undone(p) /\ site' = site /\ faults' \in Nat
  BY DEF Dies, Killed, Types, TypeOK
<1>2. upset' \subseteq {"ssh", "grant", "delete"} /\ site' \in {<<>>} \cup (Inst \X Inst)
  BY <1>1, UndoneType DEF Types, TypeOK
<1> QED  BY <1>1, <1>2, EndsTypes

\* A launch goes on to another step of making groups.
GroupMove(p) == /\ proc[p].pc \in Grouping /\ proc'[p].pc \in Grouping
                /\ SameLaunch(proc[p], proc'[p])
                /\ \A q \in Proc \ {p} : proc'[q] = proc[q]
                /\ UNCHANGED <<inst, site, commands, faults, strays, opened>>

LEMMA ListGroupsTypes ==
    ASSUME Types, NEW p \in Proc, ListGroups(p)
    PROVE  /\ Types' /\ GroupMove(p) /\ UNCHANGED <<groups, rules, upset>> /\ At(p, "list")
           /\ proc'[p].pc \in {"list", "run", "role", "cluster"}
           /\ proc'[p].pc = "role" => CG \in groups
<1>1. ProcessOK(proc[p]) /\ proc[p].pc = "list" /\ proc[p].pc \in Launching
  BY DEF Types, ListGroups, At, Launching, Grouping
<1> DEFINE has == Head(proc[p].rest) \in groups
           c == [proc[p] EXCEPT !.pc = "cluster", !.has = has]
           t == IF CG \in groups THEN RoleGroup(proc[p], has) ELSE c
<1>2. Goes(p, t)
  BY DEF ListGroups
<1>3. ProcessOK(c) /\ SameLaunch(proc[p], c) /\ c.pc = "cluster"
  <2>1. proc[p] \in LaunchRec /\ has \in BOOLEAN
    BY <1>1, LaunchFields
  <2> HIDE DEF has
  <2>2. c \in LaunchRec /\ SameLaunch(proc[p], c) /\ c.pc = "cluster"
    BY <2>1 DEF LaunchRec, SameLaunch, Launching, Grouping
  <2> HIDE DEF c
  <2> QED  BY <1>1, <2>2, MovedOK
<1> HIDE DEF c
<1>4. /\ ProcessOK(t) /\ SameLaunch(proc[p], t) /\ t.pc \in {"list", "run", "role", "cluster"}
      /\ t.pc = "role" => CG \in groups
  BY <1>1, <1>3, RoleGroupOK
<1> HIDE DEF t
<1>5. Types' /\ proc'[p] = t /\ \A q \in Proc \ {p} : proc'[q] = proc[q]
  BY <1>2, <1>4, GoesTypes
<1>6. UNCHANGED <<groups, rules, inst, site, commands, faults, strays, opened, upset>>
  BY <1>2 DEF Goes, ec2, history
<1> QED  BY <1>1, <1>4, <1>5, <1>6 DEF GroupMove, Grouping, At

LEMMA CreateClusterGroupTypes ==
    ASSUME Types, NEW p \in Proc, CreateClusterGroup(p)
    PROVE  /\ Types' /\ GroupMove(p) /\ UNCHANGED <<rules, upset>> /\ At(p, "cluster")
           /\ groups' = groups \cup {CG} /\ proc'[p].pc = "self" /\ CG \notin groups
<1>1. ProcessOK(proc[p]) /\ proc[p].pc = "cluster" /\ proc[p].pc \in Launching /\ "self" \in Launching
  BY DEF Types, CreateClusterGroup, At, Launching, Grouping
<1> DEFINE t == [proc[p] EXCEPT !.pc = "self"]
<1>2. ProcessOK(t) /\ t.pc = "self" /\ SameLaunch(proc[p], t)
  BY <1>1, SetPcOK
<1>3. /\ Become(p, t) /\ groups' = groups \cup {CG} /\ CG \notin groups
      /\ UNCHANGED <<rules, inst, site, commands, faults, strays, opened, upset>>
  BY DEF CreateClusterGroup, history
<1> HIDE DEF t
<1>4. /\ groups' \subseteq Group /\ (\A r \in rules' : r[1] \in groups')
      /\ \A i \in Alive : inst[i].groups \subseteq groups'
  BY <1>3, Constants DEF Types, TypeOK
<1>5. TypeOK'
  BY <1>3, <1>4, SameInstances DEF Types, TypeOK
<1> QED  BY <1>1, <1>2, <1>3, <1>5, ProcOK DEF Types, GroupMove, Grouping, At

LEMMA AuthorizeSelfTypes ==
    ASSUME Types, NEW p \in Proc, AuthorizeSelf(p)
    PROVE  /\ Types' /\ GroupMove(p) /\ UNCHANGED <<groups, upset>> /\ At(p, "self")
           /\ rules' = rules \cup {SelfRule} /\ proc'[p].pc = "ssh" /\ CG \in groups
<1>1. ProcessOK(proc[p]) /\ proc[p].pc = "self" /\ proc[p].pc \in Launching /\ "ssh" \in Launching
  BY DEF Types, AuthorizeSelf, At, Launching, Grouping
<1> DEFINE t == [proc[p] EXCEPT !.pc = "ssh"]
<1>2. ProcessOK(t) /\ t.pc = "ssh" /\ SameLaunch(proc[p], t)
  BY <1>1, SetPcOK
<1>3. /\ Become(p, t) /\ rules' = rules \cup {SelfRule} /\ CG \in groups /\ SelfRule[1] = CG
      /\ UNCHANGED <<groups, inst, site, commands, faults, strays, opened, upset>>
  BY DEF AuthorizeSelf, history, Authorizable, SelfRule
<1> HIDE DEF t
<1>4. /\ groups' \subseteq Group /\ (\A r \in rules' : r[1] \in groups')
      /\ \A i \in Alive : inst[i].groups \subseteq groups'
  BY <1>3 DEF Types, TypeOK
<1>5. TypeOK'
  BY <1>3, <1>4, SameInstances DEF Types, TypeOK
<1> QED  BY <1>1, <1>2, <1>3, <1>5, ProcOK DEF Types, GroupMove, Grouping, At

LEMMA AuthorizeSshTypes ==
    ASSUME Types, NEW p \in Proc, AuthorizeSsh(p)
    PROVE  /\ Types' /\ GroupMove(p) /\ UNCHANGED <<groups, upset>> /\ At(p, "ssh")
           /\ rules' = rules \cup {SshRule} /\ proc'[p].pc \in {"list", "run", "role"}
           /\ CG \in groups
<1>1. ProcessOK(proc[p]) /\ proc[p].pc = "ssh" /\ proc[p].pc \in Launching
  BY DEF Types, AuthorizeSsh, At, Launching, Grouping
<1> DEFINE c == [proc[p] EXCEPT !.has = FALSE]
           t == RoleGroup(c, proc[p].has)
<1>2. ProcessOK(c) /\ SameLaunch(proc[p], c) /\ c.pc = "ssh"
  <2>1. proc[p] \in LaunchRec
    BY <1>1, LaunchFields
  <2>2. c \in LaunchRec /\ SameLaunch(proc[p], c) /\ c.pc = "ssh"
    BY <1>1, <2>1 DEF LaunchRec, SameLaunch
  <2> HIDE DEF c
  <2> QED  BY <1>1, <2>2, MovedOK
<1>3. /\ Become(p, t) /\ rules' = rules \cup {SshRule} /\ CG \in groups /\ SshRule[1] = CG
      /\ UNCHANGED <<groups, inst, site, commands, faults, strays, opened, upset>>
  BY DEF AuthorizeSsh, history, Authorizable, SshRule
<1> HIDE DEF c
<1>4. ProcessOK(t) /\ SameLaunch(proc[p], t) /\ t.pc \in {"list", "run", "role"}
  <2>1. ProcessOK(t) /\ SameLaunch(c, t) /\ t.pc \in {"list", "run", "role"}
    BY <1>1, <1>2, RoleGroupOK
  <2> QED  BY <1>2, <2>1 DEF SameLaunch
<1> HIDE DEF t
<1>5. /\ groups' \subseteq Group /\ (\A r \in rules' : r[1] \in groups')
      /\ \A i \in Alive : inst[i].groups \subseteq groups'
  BY <1>3 DEF Types, TypeOK
<1>6. TypeOK'
  BY <1>3, <1>5, SameInstances DEF Types, TypeOK
<1> QED  BY <1>1, <1>3, <1>4, <1>6, ProcOK DEF Types, GroupMove, Grouping, At

LEMMA CreateRoleGroupTypes ==
    ASSUME Types, NEW p \in Proc, CreateRoleGroup(p)
    PROVE  /\ Types' /\ GroupMove(p) /\ UNCHANGED rules /\ At(p, "role")
           /\ \E g \in Role : groups' = groups \cup {g}
           /\ upset' = upset \cup (IF Others(p, {"delete"}) THEN {"delete"} ELSE {})
           /\ proc'[p].pc \in {"list", "run"}
<1>1. ProcessOK(proc[p]) /\ proc[p].pc = "role" /\ proc[p].pc \in Launching
  BY DEF Types, CreateRoleGroup, At, Launching, Grouping
<1> DEFINE t == NextGroup(proc[p])
           g == Head(proc[p].rest)
<1>2. ProcessOK(t) /\ t.pc \in {"list", "run"} /\ SameLaunch(proc[p], t)
  BY <1>1, NextGroupOK
<1>3. /\ Become(p, t) /\ groups' = groups \cup {g}
      /\ upset' = upset \cup (IF Others(p, {"delete"}) THEN {"delete"} ELSE {})
      /\ UNCHANGED <<rules, inst, site, commands, faults, strays, opened>>
  BY DEF CreateRoleGroup
<1>4. g \in Role
  <2>1. proc[p].rest \in Seq(Role) /\ proc[p].rest # <<>>
    BY <1>1, LaunchFields
  <2> QED  BY <2>1
<1> HIDE DEF t, g
<1>5. /\ groups' \subseteq Group /\ (\A r \in rules' : r[1] \in groups')
      /\ \A i \in Alive : inst[i].groups \subseteq groups'
  BY <1>3, <1>4, Constants DEF Types, TypeOK
<1>6. TypeOK'
  BY <1>3, <1>5, SameInstances DEF Types, TypeOK
<1> QED  BY <1>1, <1>2, <1>3, <1>4, <1>6, ProcOK DEF Types, GroupMove, Grouping, At

LEMMA SiteOK ==
    /\ ProcessOK([pc |-> "site"]) /\ [pc |-> "site"].pc = "site"
    /\ ProcessOK([pc |-> "open"]) /\ [pc |-> "open"].pc = "open"
BY DEF ProcessOK, Process, Launching, Grouping, Waiting

\* What follows the instances of a template.
LEMMA NextTemplateOK ==
    ASSUME NEW s, ProcessOK(s), s.pc \in Launching, NEW host \in Inst \cup {NoHost}
    PROVE  LET t == NextTemplate(s, host) IN
           /\ ProcessOK(t)
           /\ \/ /\ Head(s.templates) = Masters /\ s.kind = "cluster" /\ t.pc = "list"
                 /\ t.kind = s.kind /\ t.by = s.by /\ t.templates \in SlaveTemplates
                 /\ t.host = host /\ t.ids = {}
              \/ t.pc \in {"idle", "site"}
<1>1. s \in LaunchRec /\ s.kind \in Kinds /\ s.templates \in TemplatesOf(s.kind)
  BY LaunchFields
<1> DEFINE t == NextTemplate(s, host)
           u == [s EXCEPT !.pc = "list", !.templates = Tail(@), !.rest = s.templates[2].roles,
                          !.host = host, !.ids = {}]
<1>2. CASE Len(s.templates) > 1
  <2>1. /\ s.kind = "cluster" /\ Head(s.templates) = Masters
        /\ Tail(s.templates) \in SlaveTemplates /\ s.templates[2].roles = SlaveRoles
    BY <1>1, <1>2, TemplatesFacts
  <2>2. Tail(s.templates) \in TemplatesOf(s.kind) /\ "cluster" \in Kinds
    BY <2>1 DEF TemplatesOf, Kinds
  <2>3. Tail(s.templates) \in Seq(Template) \ {<<>>}
    BY <2>1, <2>2, TemplatesFacts
  <2>r. s.templates[2].roles \in Seq(Role) \ {<<>>}
    BY <2>1, Constants
  <2>4. /\ u \in LaunchRec /\ u.pc = "list" /\ u.kind = s.kind /\ u.by = s.by
        /\ u.templates = Tail(s.templates) /\ u.host = host /\ u.ids = {}
    BY <1>1, <2>r, <2>3 DEF LaunchRec, Launching, Grouping
  <2>5. t = u
    BY <1>2, <2>1 DEF NextTemplate
  <2> HIDE DEF t, u
  <2>6. ProcessOK(t)
    BY <2>1, <2>2, <2>4, <2>5 DEF ProcessOK, Process
  <2> QED  BY <2>1, <2>4, <2>5, <2>6 DEF t
<1>3. CASE ~(Len(s.templates) > 1)
  BY <1>3, IdleOK, SiteOK DEF NextTemplate
<1> QED  BY <1>2, <1>3

\* The instances ids that EC2 makes for template t of process p.
Grows(p, t, ids) ==
    /\ t = Head(proc[p].templates) /\ t \in Template /\ proc[p].pc = "run"
    /\ ids \in SUBSET Inst /\ Cardinality(ids) = t.n /\ \A i \in ids : inst[i].st = "unused"
    /\ \A i \in ids : inst'[i] = [st |-> "pending", groups |-> GroupNames(t.roles),
                                  host |-> proc[p].host, by |-> proc[p].by, kind |-> proc[p].kind]
    /\ \A i \in Inst \ ids : inst'[i] = inst[i]

LEMMA MakesTypes ==
    ASSUME Types, NEW p \in Proc, Makes(p), UNCHANGED groups
    PROVE  /\ Grows(p, Head(proc[p].templates), Made(p))
           /\ inst' \in [Inst -> Instance]
           /\ \A i \in Alive' : CG \in inst'[i].groups /\ inst'[i].groups \subseteq groups'
<1> DEFINE t == Head(proc[p].templates)
           names == GroupNames(t.roles)
           ids == Made(p)
           new == [st |-> "pending", groups |-> names, host |-> proc[p].host,
                   by |-> proc[p].by, kind |-> proc[p].kind]
<1>1. /\ At(p, "run") /\ names \subseteq groups /\ Cardinality(ids) = t.n
      /\ inst' = [i \in Inst |-> IF i \notin ids THEN inst[i] ELSE new]
  BY DEF Makes
<1>2. /\ ids \in SUBSET Inst /\ \A i \in ids : inst[i].st = "unused"
  BY DEF Made, Fresh
<1>3. ProcessOK(proc[p]) /\ proc[p].pc = "run" /\ proc[p].pc \in Launching
  BY <1>1 DEF Types, At, Launching, Grouping
<1>4. /\ proc[p].kind \in Kinds /\ proc[p].by \in Nat
      /\ proc[p].host \in Inst \cup {NoHost} /\ proc[p].templates \in TemplatesOf(proc[p].kind)
  BY <1>3, LaunchFields
<1>5. t \in Template
  BY <1>4, TemplatesFacts
<1>6. CG \in names
  BY DEF GroupNames
<1> HIDE DEF t, ids, names
<1>7. names \subseteq Group /\ inst \in [Inst -> Instance]
  BY <1>1 DEF Types, TypeOK
<1>8. new \in Instance /\ new.st = "pending" /\ new.groups = names
  BY <1>4, <1>7 DEF Instance, Kinds
<1> HIDE DEF new
<1>9. /\ \A i \in ids : inst'[i] = new
      /\ \A i \in Inst \ ids : inst'[i] = inst[i]
      /\ inst' \in [Inst -> Instance]
  BY <1>1, <1>2, <1>7, <1>8
<1>10. \A i \in Alive' : CG \in inst'[i].groups /\ inst'[i].groups \subseteq groups'
  <2> SUFFICES ASSUME NEW i \in Alive'
               PROVE  CG \in inst'[i].groups /\ inst'[i].groups \subseteq groups'
    OBVIOUS
  <2>1. i \in Inst
    BY DEF Alive
  <2>2. CASE i \in ids
    BY <1>1, <1>6, <1>8, <1>9, <2>2
  <2>3. CASE i \notin ids
    <3>1. i \in Alive
      BY <1>9, <2>1, <2>3 DEF Alive
    <3> QED  BY <1>1, <1>9, <2>1, <2>3, <3>1 DEF Types, TypeOK
  <2> QED  BY <2>2, <2>3
<1>11. Grows(p, t, ids)
  BY <1>1, <1>2, <1>3, <1>5, <1>9 DEF Grows, t, names, new
<1> QED  BY <1>9, <1>10, <1>11 DEF t, ids

LEMMA RunInstancesTypes ==
    ASSUME Types, NEW p \in Proc, RunInstances(p)
    PROVE  /\ Types' /\ Grows(p, Head(proc[p].templates), Made(p))
           /\ proc'[p].pc = "wait" /\ proc'[p].ids = Made(p)
           /\ proc'[p].by = proc[p].by /\ proc'[p].kind = proc[p].kind
           /\ proc'[p].host = proc[p].host /\ proc'[p].templates = proc[p].templates
           /\ \A q \in Proc \ {p} : proc'[q] = proc[q]
           /\ UNCHANGED <<groups, rules, commands, strays, opened, upset>>
<1> DEFINE u == [proc[p] EXCEPT !.pc = "wait", !.ids = Made(p)]
<1>1. /\ Makes(p) /\ Become(p, u)
      /\ UNCHANGED <<groups, rules, site, commands, faults, strays, opened, upset>>
  BY DEF RunInstances, history
<1>2. /\ Grows(p, Head(proc[p].templates), Made(p)) /\ inst' \in [Inst -> Instance]
      /\ \A i \in Alive' : CG \in inst'[i].groups /\ inst'[i].groups \subseteq groups'
  BY <1>1, MakesTypes
<1>3. ProcessOK(proc[p]) /\ proc[p].pc \in Launching /\ Made(p) \in SUBSET Inst
  BY <1>2 DEF Types, Grows, Launching, Grouping
<1>4. proc[p] \in LaunchRec /\ proc[p].templates \in TemplatesOf(proc[p].kind)
  BY <1>3, LaunchFields
<1>5. /\ u \in LaunchRec /\ u.pc = "wait" /\ u.ids = Made(p) /\ u.by = proc[p].by
      /\ u.kind = proc[p].kind /\ u.host = proc[p].host /\ u.templates = proc[p].templates
  BY <1>3, <1>4 DEF LaunchRec, Launching, Waiting
<1> HIDE DEF u
<1>6. ProcessOK(u)
  BY <1>4, <1>5 DEF ProcessOK, Process
<1>7. /\ DOMAIN proc' = Proc /\ (\A q \in Proc : ProcessOK(proc'[q]))
      /\ proc' = [q \in Proc |-> proc'[q]] /\ proc'[p] = u
      /\ \A q \in Proc \ {p} : proc'[q] = proc[q]
  BY <1>1, <1>6, ProcOK
<1>8. TypeOK'
  BY <1>1, <1>2 DEF Types, TypeOK
<1> QED  BY <1>1, <1>2, <1>5, <1>7, <1>8 DEF Types

LEMMA RunAnswerLostTypes ==
    ASSUME Types, NEW p \in Proc, RunAnswerLost(p)
    PROVE  /\ Types' /\ Grows(p, Head(proc[p].templates), Made(p))
           /\ strays' = strays \cup Made(p)
           /\ UNCHANGED <<groups, rules, proc, commands, opened, upset>>
<1>1. /\ Makes(p) /\ faults' = faults + 1 /\ strays' = strays \cup Made(p)
      /\ UNCHANGED <<groups, rules, site, proc, commands, opened, upset>>
  BY DEF RunAnswerLost
<1>2. /\ Grows(p, Head(proc[p].templates), Made(p)) /\ inst' \in [Inst -> Instance]
      /\ \A i \in Alive' : CG \in inst'[i].groups /\ inst'[i].groups \subseteq groups'
  BY <1>1, MakesTypes
<1>3. Made(p) \subseteq Inst
  BY <1>2 DEF Grows
<1>4. TypeOK'
  BY <1>1, <1>2, <1>3 DEF Types, TypeOK
<1> QED  BY <1>1, <1>2, <1>4 DEF Types

LEMMA WaitTypes ==
    ASSUME Types, NEW p \in Proc, Wait(p)
    PROVE  /\ Types' /\ At(p, "wait") /\ proc'[p].pc = "gather" /\ SameLaunch(proc[p], proc'[p])
           /\ \A i \in proc[p].ids : inst[i].st = "running"
           /\ \A q \in Proc \ {p} : proc'[q] = proc[q]
           /\ UNCHANGED <<groups, rules, inst, commands, strays, opened, upset>>
<1>1. ProcessOK(proc[p]) /\ proc[p].pc = "wait" /\ proc[p].pc \in Launching /\ "gather" \in Launching
  BY DEF Types, Wait, At, Launching, Waiting
<1> DEFINE t == [proc[p] EXCEPT !.pc = "gather"]
<1>2. ProcessOK(t) /\ t.pc = "gather" /\ SameLaunch(proc[p], t)
  BY <1>1, SetPcOK
<1> HIDE DEF t
<1>3. Goes(p, t) /\ \A i \in proc[p].ids : inst[i].st = "running"
  BY DEF Wait, AllStarted, t
<1>4. Types' /\ proc'[p] = t /\ \A q \in Proc \ {p} : proc'[q] = proc[q]
  BY <1>2, <1>3, GoesTypes
<1> QED  BY <1>1, <1>2, <1>3, <1>4 DEF Goes, ec2, history, At

\* The one running instance in the role, or what was known before.
LEMMA HostOfType ==
    ASSUME NEW t, NEW old \in Inst \cup {NoHost}
    PROVE  \/ HostOf(t, old) = old
           \/ /\ t.n = 1 /\ HostOf(t, old) \in Inst
              /\ Running(t.roles[1]) = {HostOf(t, old)}
<1>1. CASE t.n = 1 /\ Cardinality(Running(t.roles[1])) = 1
  <2>1. Running(t.roles[1]) \in SUBSET Inst
    BY DEF Running
  <2>2. IsFiniteSet(Running(t.roles[1]))
    BY <2>1, Constants, FS_Subset
  <2>3. PICK i : Running(t.roles[1]) = {i}
    BY <1>1, <2>2, FS_Singleton
  <2>4. HostOf(t, old) = i
    BY <1>1, <2>3 DEF HostOf
  <2> QED  BY <1>1, <2>1, <2>3, <2>4
<1>2. CASE ~(t.n = 1 /\ Cardinality(Running(t.roles[1])) = 1)
  BY <1>2 DEF HostOf
<1> QED  BY <1>1, <1>2

\* A launch has done with a template.
Advances(p, t) ==
    /\ proc[p].pc \in Waiting /\ proc'[p] = t
    /\ \A q \in Proc \ {p} : proc'[q] = proc[q]
    /\ UNCHANGED <<groups, rules, inst, commands, opened, upset>>

LEMMA GatherTypes ==
    ASSUME Types, NEW p \in Proc, Gather(p)
    PROVE  LET h == HostOf(Head(proc[p].templates), proc[p].host) IN
           /\ Types' /\ Advances(p, NextTemplate(proc[p], h)) /\ At(p, "gather")
           /\ h \in Inst \cup {NoHost} /\ UNCHANGED strays
<1> DEFINE h == HostOf(Head(proc[p].templates), proc[p].host)
           t == NextTemplate(proc[p], h)
<1>1. ProcessOK(proc[p]) /\ proc[p].pc = "gather" /\ proc[p].pc \in Launching
  BY DEF Types, Gather, At, Launching, Waiting
<1>2. proc[p].host \in Inst \cup {NoHost}
  BY <1>1, LaunchFields
<1>3. h \in Inst \cup {NoHost}
  BY <1>2, HostOfType
<1>4. Goes(p, t)
  BY DEF Gather
<1> HIDE DEF h
<1>5. ProcessOK(t)
  BY <1>1, <1>3, NextTemplateOK
<1> HIDE DEF t
<1>6. Types' /\ proc'[p] = t /\ \A q \in Proc \ {p} : proc'[q] = proc[q]
  BY <1>4, <1>5, GoesTypes
<1>7. UNCHANGED <<groups, rules, inst, commands, strays, opened, upset>>
  BY <1>4 DEF Goes, ec2, history
<1>8. Advances(p, t)
  BY <1>1, <1>6, <1>7 DEF Advances, Waiting
<1> QED  BY <1>1, <1>3, <1>6, <1>7, <1>8 DEF t, h, At

\* A launch gives up waiting and goes on; where it cannot, it dies.
LEMMA WaitTimeoutTypes ==
    ASSUME Types, NEW p \in Proc, WaitTimeout(p)
    PROVE  /\ Types' /\ At(p, "wait")
           /\ \/ /\ Advances(p, NextTemplate(proc[p], proc[p].host))
                 /\ NextTemplate(proc[p], proc[p].host).pc \in {"idle", "site"}
                 /\ strays' = strays \cup proc[p].ids
              \/ Dies(p)
<1>1. ProcessOK(proc[p]) /\ proc[p].pc = "wait" /\ proc[p].pc \in Launching
  BY DEF Types, WaitTimeout, At, Launching, Waiting
<1>2. /\ proc[p].host \in Inst \cup {NoHost} /\ proc[p].ids \subseteq Inst
      /\ proc[p].kind \in Kinds /\ proc[p].templates \in TemplatesOf(proc[p].kind)
  BY <1>1, LaunchFields
<1>3. CASE proc[p].kind = "slaves" \/ Head(proc[p].templates).n # 1
  <2> DEFINE t == NextTemplate(proc[p], proc[p].host)
  <2>1. /\ Become(p, t) /\ strays' = strays \cup proc[p].ids
        /\ UNCHANGED <<ec2, site, commands, faults, opened, upset>>
    BY <1>3 DEF WaitTimeout
  <2>2. ProcessOK(t)
    BY <1>1, <1>2, NextTemplateOK
  <2>3. Head(proc[p].templates) # Masters \/ proc[p].kind # "cluster"
    BY <1>3, TemplateFacts
  <2>4. t.pc \in {"idle", "site"}
    BY <1>1, <1>2, <2>3, NextTemplateOK
  <2> HIDE DEF t
  <2>5. UNCHANGED <<groups, rules, inst, site, commands, faults, opened, upset>>
    BY <2>1 DEF ec2
  <2>6. TypeOK'
    BY <1>2, <2>1, <2>5, SameInstances DEF Types, TypeOK
  <2>7. Types' /\ proc'[p] = t /\ \A q \in Proc \ {p} : proc'[q] = proc[q]
    BY <2>1, <2>2, <2>6, ProcOK DEF Types
  <2>8. Advances(p, t)
    BY <1>1, <2>5, <2>7 DEF Advances, Waiting
  <2> QED  BY <1>1, <2>1, <2>4, <2>7, <2>8 DEF t, At
<1>4. CASE ~(proc[p].kind = "slaves" \/ Head(proc[p].templates).n # 1)
  <2>1. Dies(p)
    BY <1>4 DEF WaitTimeout
  <2> QED  BY <1>1, <2>1, DiesTypes DEF At
<1> QED  BY <1>3, <1>4

-----------------------------------------------------------------------------

LEMMA RuleForType ==
    ASSUME NEW port \in Role \X STRING, NEW source \in Inst \cup {Client}
    PROVE  RuleFor(port, source) \in Rule
BY DEF RuleFor, Rule

LEMMA ClientRulesType ==
    /\ ClientRules \in Seq(Rule) /\ \A n \in DOMAIN ClientRules : ClientRules[n] \in Rule
    /\ \A r \in Rule : r[1] \in Role
<1>1. \A n \in DOMAIN ClientPorts : RuleFor(ClientPorts[n], Client) \in Rule
  <2>1. \A n \in DOMAIN ClientPorts : ClientPorts[n] \in Role \X STRING
    BY Constants
  <2> QED  BY <2>1, RuleForType
<1>2. DOMAIN ClientRules = DOMAIN ClientPorts
      /\ \A n \in DOMAIN ClientPorts : ClientRules[n] = RuleFor(ClientPorts[n], Client)
  BY DEF ClientRules
<1>3. ClientRules \in Seq(Rule)
  <2>1. DOMAIN ClientPorts = 1 .. Len(ClientPorts) /\ Len(ClientPorts) \in Nat
    BY Constants
  <2>2. ClientRules \in [1 .. Len(ClientPorts) -> Rule]
    BY <1>1, <2>1 DEF ClientRules
  <2> QED  BY <2>1, <2>2
<1>4. \A r \in Rule : r[1] \in Role
  BY DEF Rule
<1> QED  BY <1>1, <1>2, <1>3, <1>4

LEMMA InnerRulesType ==
    ASSUME NEW nn \in Inst, NEW jt \in Inst
    PROVE  InnerRules(nn, jt) \in Seq(Rule)
<1>1. InnerPorts \in Seq(Role \X STRING) /\ Len(InnerPorts) \in Nat
      /\ DOMAIN InnerPorts = 1 .. Len(InnerPorts)
  BY Constants
<1>2. ASSUME NEW n \in 1 .. 2 * Len(InnerPorts), NEW h \in Inst
      PROVE  RuleFor(InnerPorts[(n + 1) \div 2], h) \in Rule
  <2>1. (n + 1) \div 2 \in 1 .. Len(InnerPorts)
    BY <1>1
  <2>2. InnerPorts[(n + 1) \div 2] \in Role \X STRING
    BY <1>1, <2>1
  <2> QED  BY <2>2, RuleForType
<1>3. InnerRules(nn, jt) \in [1 .. 2 * Len(InnerPorts) -> Rule]
  <2>1. \A n \in 1 .. 2 * Len(InnerPorts) : (IF n % 2 = 1 THEN nn ELSE jt) \in Inst
    OBVIOUS
  <2> QED  BY <1>2, <2>1 DEF InnerRules
<1>4. 2 * Len(InnerPorts) \in Nat
  BY <1>1
<1> QED  BY <1>3, <1>4

LEMMA OpenOK ==
    ASSUME NEW pc \in {"revoke", "grant"}, NEW ok \in BOOLEAN, NEW todo \in Seq(Rule),
           pc = "grant" => todo # <<>>
    PROVE  LET s == [pc |-> pc, ok |-> ok, todo |-> todo] IN
           ProcessOK(s) /\ s.pc = pc /\ s.todo = todo
<1> DEFINE s == [pc |-> pc, ok |-> ok, todo |-> todo]
<1>1. s \in OpenRec /\ s.pc = pc /\ s.todo = todo
  BY DEF OpenRec
<1> HIDE DEF s
<1>2. ProcessOK(s)
  BY <1>1 DEF ProcessOK, Process, Launching, Grouping, Waiting
<1> QED  BY <1>1, <1>2 DEF s

\* A launch is at what follows its instances, and leaves the groups alone.
Afterwards == {"site", "open", "revoke", "grant"}

OpenMove(p) == /\ proc[p].pc \in Afterwards /\ proc'[p].pc \in Afterwards
               /\ \A q \in Proc \ {p} : proc'[q] = proc[q]
               /\ UNCHANGED <<groups, inst, commands, strays, opened, upset>>

LEMMA FoundMastersType == FoundMasters \subseteq Inst \X Inst
BY DEF FoundMasters, Running

LEMMA WriteSiteTypes ==
    ASSUME Types, NEW p \in Proc, WriteSite(p)
    PROVE  Types' /\ OpenMove(p) /\ UNCHANGED rules /\ At(p, "site") /\ proc'[p].pc = "open"
<1>1. /\ At(p, "site") /\ Become(p, [pc |-> "open"]) /\ site' \in FoundMasters
      /\ UNCHANGED <<groups, rules, inst, commands, faults, strays, opened, upset>>
  BY DEF WriteSite, ec2, history
<1>2. TypeOK'
  BY <1>1, FoundMastersType, SameInstances DEF Types, TypeOK
<1> QED  BY <1>1, <1>2, ProcOK, SiteOK DEF Types, OpenMove, Afterwards, At

LEMMA BeginAuthorizeTypes ==
    ASSUME Types, NEW p \in Proc, BeginAuthorize(p) \/ BeginAuthorizeAlone(p)
    PROVE  /\ Types' /\ OpenMove(p) /\ UNCHANGED rules /\ At(p, "open") /\ proc'[p].pc = "revoke"
           /\ Elements(ClientRules) \subseteq Elements(proc'[p].todo)
<1>1. PICK ok \in BOOLEAN, todo \in Seq(Rule) :
          /\ Goes(p, [pc |-> "revoke", ok |-> ok, todo |-> todo])
          /\ Elements(ClientRules) \subseteq Elements(todo)
  <2>1. CASE BeginAuthorize(p)
    <3>1. PICK m \in FoundMasters :
              Goes(p, [pc |-> "revoke", ok |-> TRUE, todo |-> ClientRules \o InnerRules(m[1], m[2])])
      BY <2>1 DEF BeginAuthorize
    <3>2. m[1] \in Inst /\ m[2] \in Inst
      BY FoundMastersType
    <3> DEFINE a == ClientRules
               b == InnerRules(m[1], m[2])
    <3>3. a \in Seq(Rule) /\ b \in Seq(Rule)
      BY <3>2, ClientRulesType, InnerRulesType
    <3> HIDE DEF a, b
    <3>4. a \o b \in Seq(Rule) /\ \A n \in DOMAIN a : n \in DOMAIN (a \o b) /\ (a \o b)[n] = a[n]
      BY <3>3
    <3>5. Elements(a) \subseteq Elements(a \o b)
      BY <3>4 DEF Elements
    <3> QED  BY <3>1, <3>4, <3>5 DEF a, b
  <2>2. CASE BeginAuthorizeAlone(p)
    BY <2>2, ClientRulesType DEF BeginAuthorizeAlone
  <2> QED  BY <2>1, <2>2
<1> DEFINE t == [pc |-> "revoke", ok |-> ok, todo |-> todo]
<1>2. ProcessOK(t) /\ t.pc = "revoke" /\ t.todo = todo
  BY OpenOK
<1> HIDE DEF t
<1>3. Types' /\ proc'[p] = t /\ \A q \in Proc \ {p} : proc'[q] = proc[q]
  BY <1>1, <1>2, GoesTypes DEF t
<1>4. UNCHANGED <<groups, rules, inst, commands, strays, opened, upset>> /\ At(p, "open")
  BY <1>1 DEF Goes, ec2, history, BeginAuthorize, BeginAuthorizeAlone
<1> QED  BY <1>1, <1>2, <1>3, <1>4 DEF OpenMove, Afterwards, At

LEMMA RevokeTypes ==
    ASSUME Types, NEW p \in Proc, Revoke(p)
    PROVE  /\ Types' /\ OpenMove(p) /\ At(p, "revoke") /\ proc'[p].pc = "grant"
           /\ proc'[p].todo = proc[p].todo /\ Head(proc[p].todo) \in Rule
           /\ Head(proc[p].todo)[1] \in groups
           /\ rules' = rules \ {Head(proc[p].todo)}
<1>1. /\ At(p, "revoke") /\ proc[p].todo # <<>> /\ Head(proc[p].todo)[1] \in groups
      /\ rules' = rules \ {Head(proc[p].todo)}
      /\ Become(p, [proc[p] EXCEPT !.pc = "grant"])
      /\ UNCHANGED <<groups, inst, site, commands, faults, strays, opened, upset>>
  BY DEF Revoke, history
<1>2. ProcessOK(proc[p]) /\ proc[p].pc = "revoke"
  BY <1>1 DEF Types, At
<1>3. proc[p] \in OpenRec /\ proc[p].ok \in BOOLEAN /\ proc[p].todo \in Seq(Rule)
  BY <1>2, OpenFields
<1> DEFINE t == [pc |-> "grant", ok |-> proc[p].ok, todo |-> proc[p].todo]
<1>4. [proc[p] EXCEPT !.pc = "grant"] = t
  BY <1>3 DEF OpenRec
<1>5. ProcessOK(t) /\ t.pc = "grant" /\ t.todo = proc[p].todo
  BY <1>1, <1>3, OpenOK
<1> HIDE DEF t
<1>6. TypeOK'
  BY <1>1, SameInstances DEF Types, TypeOK
<1>7. Head(proc[p].todo) \in Rule
  BY <1>1, <1>3
<1> QED  BY <1>1, <1>2, <1>4, <1>5, <1>6, <1>7, ProcOK DEF Types, OpenMove, Afterwards, At

LEMMA GrantTypes ==
    ASSUME Types, NEW p \in Proc, Grant(p)
    PROVE  /\ Types' /\ OpenMove(p) /\ At(p, "grant") /\ proc'[p].pc = "revoke"
           /\ proc[p].todo \in Seq(Rule) /\ proc[p].todo # <<>>
           /\ proc'[p].todo = Tail(proc[p].todo)
           /\ rules' = rules \cup {Head(proc[p].todo)}
<1>1. /\ At(p, "grant") /\ Head(proc[p].todo)[1] \in groups
      /\ rules' = rules \cup {Head(proc[p].todo)}
      /\ Become(p, [proc[p] EXCEPT !.pc = "revoke", !.todo = Tail(@)])
      /\ UNCHANGED <<groups, inst, site, commands, faults, strays, opened, upset>>
  BY DEF Grant, history, Authorizable
<1>2. ProcessOK(proc[p]) /\ proc[p].pc = "grant"
  BY <1>1 DEF Types, At
<1>3. /\ proc[p] \in OpenRec /\ proc[p].ok \in BOOLEAN /\ proc[p].todo \in Seq(Rule)
      /\ proc[p].todo # <<>>
  BY <1>2, OpenFields
<1>4. Tail(proc[p].todo) \in Seq(Rule)
  BY <1>3
<1> DEFINE t == [proc[p] EXCEPT !.pc = "revoke", !.todo = Tail(proc[p].todo)]
<1>5. t \in OpenRec /\ t.pc = "revoke" /\ t.todo = Tail(proc[p].todo)
  BY <1>3, <1>4 DEF OpenRec
<1>9. Become(p, t)
  BY <1>1, <1>3 DEF OpenRec
<1> HIDE DEF t
<1>6. ProcessOK(t)
  BY <1>5 DEF ProcessOK, Process, Launching, Grouping, Waiting
<1>7. \A r \in rules' : r[1] \in groups'
  BY <1>1 DEF Types, TypeOK
<1>8. TypeOK'
  BY <1>1, <1>7, SameInstances DEF Types, TypeOK
<1>10. Types' /\ proc'[p] = t /\ \A q \in Proc \ {p} : proc'[q] = proc[q]
  BY <1>6, <1>8, <1>9, ProcOK DEF Types
<1>11. OpenMove(p)
  BY <1>1, <1>2, <1>5, <1>10 DEF OpenMove, Afterwards
<1> QED  BY <1>1, <1>3, <1>5, <1>10, <1>11

LEMMA LaunchDoneTypes ==
    ASSUME Types, NEW p \in Proc, LaunchDone(p)
    PROVE  /\ Types' /\ At(p, "revoke") /\ proc[p].todo = <<>> /\ proc'[p] = Idle /\ opened'
           /\ \A q \in Proc \ {p} : proc'[q] = proc[q]
           /\ UNCHANGED <<groups, rules, inst, commands, strays, upset>>
<1>1. /\ At(p, "revoke") /\ proc[p].todo = <<>> /\ Become(p, Idle) /\ opened' = TRUE
      /\ UNCHANGED <<groups, rules, inst, site, commands, faults, strays, upset>>
  BY DEF LaunchDone, ec2
<1>2. TypeOK'
  BY <1>1, SameInstances DEF Types, TypeOK
<1> QED  BY <1>1, <1>2, ProcOK, IdleOK DEF Types

LEMMA GrantRefusedTypes ==
    ASSUME Types, NEW p \in Proc, GrantRefused(p)
    PROVE  /\ Types' /\ At(p, "grant") /\ Ends(p) /\ proc'[p] = Idle /\ UNCHANGED upset
           /\ ~Authorizable(Head(proc[p].todo))
           /\ \A q \in Proc \ {p} : proc'[q] = proc[q]
BY EndsTypes DEF GrantRefused, Types, TypeOK

LEMMA WriteSiteRaisesTypes ==
    ASSUME Types, NEW p \in Proc, WriteSiteRaises(p)
    PROVE  /\ Types' /\ At(p, "site") /\ Ends(p) /\ proc'[p] = Idle /\ UNCHANGED upset
           /\ \A q \in Proc \ {p} : proc'[q] = proc[q]
BY EndsTypes DEF WriteSiteRaises, Types, TypeOK

\* Instances that were used are so still, with nothing about them changed but that
\* they have started or ended.
Aged(i) == /\ inst'[i] \in Instance
           /\ inst'[i].groups = inst[i].groups /\ inst'[i].host = inst[i].host
           /\ inst'[i].by = inst[i].by /\ inst'[i].kind = inst[i].kind
           /\ \/ inst'[i].st = inst[i].st
              \/ inst'[i].st = "terminated" /\ inst[i].st # "unused"
              \/ inst[i].st = "pending" /\ inst'[i].st = "running"

\* They get no younger.
LEMMA AgedType ==
    ASSUME Types, inst' = [i \in Inst |-> inst'[i]], \A i \in Inst : Aged(i),
           UNCHANGED <<groups, rules, site, history>>, commands' \in Nat, faults' \in Nat
    PROVE  TypeOK' /\ Alive' \subseteq Alive
<1>1. UNCHANGED <<strays, opened, upset>>
  BY DEF history
<1>2. Alive' \subseteq Alive
  BY DEF Alive, Aged
<1>3. inst' \in [Inst -> Instance]
  BY DEF Aged
<1>4. \A i \in Alive' : CG \in inst'[i].groups /\ inst'[i].groups \subseteq groups'
  BY <1>2 DEF Types, TypeOK, Aged, Alive
<1> QED  BY <1>1, <1>2, <1>3, <1>4 DEF Types, TypeOK

LEMMA InstanceStartsTypes ==
    ASSUME Types, InstanceStarts
    PROVE  /\ Types' /\ (\A i \in Inst : Aged(i)) /\ Alive' \subseteq Alive
           /\ \A i \in Inst : inst[i].st # "pending" => inst'[i].st = inst[i].st
           /\ UNCHANGED <<groups, rules, proc, commands, strays, opened, upset>>
<1>1. PICK i \in Inst : inst[i].st = "pending" /\ inst' = [inst EXCEPT ![i].st = "running"]
  BY DEF InstanceStarts
<1>2. inst \in [Inst -> Instance]
  BY DEF Types, TypeOK
<1> DEFINE x == [inst[i] EXCEPT !.st = "running"]
<1>3. inst' = [inst EXCEPT ![i] = x]
  BY <1>1
<1>4. /\ x \in Instance /\ x.st = "running" /\ x.groups = inst[i].groups
      /\ x.host = inst[i].host /\ x.by = inst[i].by /\ x.kind = inst[i].kind
  BY <1>1, <1>2 DEF Instance
<1> HIDE DEF x
<1>5. /\ inst' = [j \in Inst |-> inst'[j]] /\ inst'[i] = x
      /\ \A j \in Inst \ {i} : inst'[j] = inst[j] /\ inst[j] \in Instance
  BY <1>2, <1>3
<1>6. \A j \in Inst : Aged(j)
  BY <1>1, <1>4, <1>5 DEF Aged
<1>7. UNCHANGED <<groups, rules, site, proc, commands, faults, history>>
  BY DEF InstanceStarts
<1>8. TypeOK' /\ Alive' \subseteq Alive
  BY <1>5, <1>6, <1>7, AgedType DEF Types, TypeOK
<1> QED  BY <1>1, <1>5, <1>6, <1>7, <1>8 DEF Types, history

LEMMA InstanceFailsTypes ==
    ASSUME Types, InstanceFails
    PROVE  /\ Types' /\ (\A i \in Inst : Aged(i)) /\ Alive' \subseteq Alive
           /\ \A i \in Inst : inst'[i].st = inst[i].st \/ inst'[i].st = "terminated"
           /\ UNCHANGED <<groups, rules, proc, commands, strays, opened, upset>>
<1>1. PICK i \in Alive : inst' = [inst EXCEPT ![i].st = "terminated"]
  BY DEF InstanceFails
<1>2. inst \in [Inst -> Instance] /\ i \in Inst /\ inst[i].st # "unused"
  BY DEF Types, TypeOK, Alive
<1> DEFINE x == [inst[i] EXCEPT !.st = "terminated"]
<1>3. inst' = [inst EXCEPT ![i] = x]
  BY <1>1
<1>4. /\ x \in Instance /\ x.st = "terminated" /\ x.groups = inst[i].groups
      /\ x.host = inst[i].host /\ x.by = inst[i].by /\ x.kind = inst[i].kind
  BY <1>2 DEF Instance
<1> HIDE DEF x
<1>5. /\ inst' = [j \in Inst |-> inst'[j]] /\ inst'[i] = x
      /\ \A j \in Inst \ {i} : inst'[j] = inst[j] /\ inst[j] \in Instance
  BY <1>2, <1>3
<1>6. \A j \in Inst : Aged(j)
  BY <1>2, <1>4, <1>5 DEF Aged
<1>7. UNCHANGED <<groups, rules, site, proc, commands, history>> /\ faults' \in Nat
  BY DEF InstanceFails, Types, TypeOK
<1>8. TypeOK' /\ Alive' \subseteq Alive
  BY <1>5, <1>6, <1>7, AgedType DEF Types, TypeOK
<1> QED  BY <1>2, <1>4, <1>5, <1>6, <1>7, <1>8 DEF Types, history

\* What was listed was running, and so has been used.
LEMMA TerminateListedTypes ==
    ASSUME Types, NEW p \in Proc, TerminateListed(p),
           \A i \in proc[p].ids : inst[i].st # "unused"
    PROVE  /\ Types' /\ (\A i \in Inst : Aged(i)) /\ Alive' \subseteq Alive
           /\ At(p, "terminate") /\ proc'[p] = Idle /\ \A q \in Proc \ {p} : proc'[q] = proc[q]
           /\ \A i \in Inst : inst'[i].st = inst[i].st \/ inst'[i].st = "terminated"
           /\ UNCHANGED <<groups, rules, commands, strays, opened, upset>>
<1>1. /\ At(p, "terminate") /\ Become(p, Idle)
      /\ inst' = [i \in Inst |-> IF i \in proc[p].ids
                                 THEN [inst[i] EXCEPT !.st = "terminated"] ELSE inst[i]]
      /\ UNCHANGED <<groups, rules, site, commands, faults, history>>
  BY DEF TerminateListed
<1>2. inst \in [Inst -> Instance]
  BY DEF Types, TypeOK
<1>3. \A i \in Inst : /\ i \in proc[p].ids => inst'[i] = [inst[i] EXCEPT !.st = "terminated"]
                      /\ i \notin proc[p].ids => inst'[i] = inst[i]
  BY <1>1
<1>4. inst' = [i \in Inst |-> inst'[i]]
  BY <1>1
<1>5. ASSUME NEW i \in Inst
      PROVE  Aged(i) /\ (inst'[i].st = inst[i].st \/ inst'[i].st = "terminated")
  <2>1. CASE i \in proc[p].ids
    <3> DEFINE x == [inst[i] EXCEPT !.st = "terminated"]
    <3>1. /\ x \in Instance /\ x.st = "terminated" /\ x.groups = inst[i].groups
          /\ x.host = inst[i].host /\ x.by = inst[i].by /\ x.kind = inst[i].kind
      BY <1>2 DEF Instance
    <3>2. inst'[i] = x /\ inst[i].st # "unused"
      BY <1>3, <2>1
    <3> HIDE DEF x
    <3> QED  BY <3>1, <3>2 DEF Aged
  <2>2. CASE i \notin proc[p].ids
    BY <1>2, <1>3, <2>2 DEF Aged
  <2> QED  BY <2>1, <2>2
<1>6. TypeOK' /\ Alive' \subseteq Alive
  BY <1>1, <1>4, <1>5, AgedType DEF Types, TypeOK
<1> QED  BY <1>1, <1>5, <1>6, ProcOK, IdleOK DEF Types, history

LEMMA DeleteGroupTypes ==
    ASSUME Types, NEW p \in Proc, DeleteGroup(p)
    PROVE  /\ Types' /\ At(p, "delete") /\ proc'[p].pc = "delete" /\ ~opened'
           /\ \E g \in proc[p].todo :
                 /\ groups' = groups \ {g} /\ rules' = {r \in rules : r[1] # g}
                 /\ proc'[p].todo = proc[p].todo \ {g}
           /\ upset' = upset \cup (IF Others(p, Grouping) THEN {"delete"} ELSE {})
                             \cup (IF Others(p, {"revoke", "grant"}) THEN {"grant"} ELSE {})
           /\ \A q \in Proc \ {p} : proc'[q] = proc[q]
           /\ UNCHANGED <<inst, commands, strays>>
<1>1. PICK g \in proc[p].todo :
          /\ Deletable(g) /\ groups' = groups \ {g} /\ rules' = {r \in rules : r[1] # g}
          /\ Become(p, [proc[p] EXCEPT !.todo = @ \ {g}])
  BY DEF DeleteGroup
<1>2. /\ At(p, "delete") /\ opened' = FALSE
      /\ upset' = upset \cup (IF Others(p, Grouping) THEN {"delete"} ELSE {})
                        \cup (IF Others(p, {"revoke", "grant"}) THEN {"grant"} ELSE {})
      /\ UNCHANGED <<inst, site, commands, faults, strays>>
  BY DEF DeleteGroup
<1>3. ProcessOK(proc[p]) /\ proc[p].pc = "delete"
  BY <1>2 DEF Types, At
<1>4. proc[p] \in DeleteRec /\ proc[p].todo \in SUBSET Group
  BY <1>3, EndFields
<1> DEFINE t == [proc[p] EXCEPT !.todo = proc[p].todo \ {g}]
<1>5. t \in DeleteRec /\ t.pc = "delete" /\ t.todo = proc[p].todo \ {g}
  BY <1>3, <1>4 DEF DeleteRec
<1>6. Become(p, t)
  BY <1>1
<1> HIDE DEF t
<1>7. ProcessOK(t)
  BY <1>5 DEF ProcessOK, Process, Launching, Grouping, Waiting
<1>8. /\ groups' \subseteq Group /\ (\A r \in rules' : r[1] \in groups')
      /\ \A i \in Alive : inst[i].groups \subseteq groups'
  BY <1>1 DEF Types, TypeOK, Deletable
<1>9. upset' \subseteq {"ssh", "grant", "delete"}
  BY <1>2 DEF Types, TypeOK
<1>10. TypeOK'
  BY <1>2, <1>8, <1>9, SameInstances DEF Types, TypeOK
<1>11. Types' /\ proc'[p] = t /\ \A q \in Proc \ {p} : proc'[q] = proc[q]
  BY <1>6, <1>7, <1>10, ProcOK DEF Types
<1> QED  BY <1>1, <1>2, <1>5, <1>11

LEMMA DeleteDoneTypes ==
    ASSUME Types, NEW p \in Proc, DeleteDone(p)
    PROVE  /\ Types' /\ At(p, "delete") /\ proc[p].todo = {} /\ proc'[p] = Idle
           /\ \A q \in Proc \ {p} : proc'[q] = proc[q]
           /\ UNCHANGED <<groups, rules, inst, commands, strays, opened, upset>>
<1>1. At(p, "delete") /\ proc[p].todo = {} /\ Goes(p, Idle)
  BY DEF DeleteDone
<1>2. Types' /\ proc'[p] = Idle /\ \A q \in Proc \ {p} : proc'[q] = proc[q]
  BY <1>1, GoesTypes, IdleOK
<1> QED  BY <1>1, <1>2 DEF Goes, ec2, history

-----------------------------------------------------------------------------
(* Instances and launches: the steps that leave the instances alone        *)

\* Only process p goes somewhere else.
Only(p) == \A q \in Proc \ {p} : proc'[q] = proc[q]

\* Process p does not wait for instances, nor will it: it is in another place of
\* the same launch, or in none.
Calm(p) ==
    /\ Only(p) /\ UNCHANGED <<inst, strays>> /\ commands' >= commands
    /\ proc[p].pc \notin Waiting /\ proc'[p].pc \notin Waiting
    /\ proc'[p].pc \in Launching => proc[p].pc \in Launching /\ SameLaunch(proc[p], proc'[p])
    /\ At(p, "terminate")' => \A i \in proc'[p].ids : inst[i].st # "unused"

LEMMA CalmWatched ==
    ASSUME NEW p \in Proc, Calm(p), Watched
    PROVE  Watched'
<1>1. \A q \in Proc : proc[q].pc \in Waiting \/ proc'[q].pc \in Waiting => proc'[q] = proc[q]
  BY DEF Calm, Only
<1>2. PendingIsWatched'
  <2> SUFFICES ASSUME NEW i \in Inst, inst'[i].st = "pending", i \notin strays'
               PROVE  \E q \in Proc : At(q, "wait")' /\ i \in proc'[q].ids
    BY DEF PendingIsWatched
  <2>1. PICK q \in Proc : At(q, "wait") /\ i \in proc[q].ids
    BY DEF Watched, PendingIsWatched, Calm
  <2>2. proc'[q] = proc[q]
    BY <1>1, <2>1 DEF At, Waiting
  <2> QED  BY <2>1, <2>2 DEF At
<1>3. \A q \in Proc : proc'[q].pc \in Waiting =>
         \A i \in proc'[q].ids : /\ inst'[i].st # "unused"
                                 /\ inst'[i].by = proc'[q].by /\ inst'[i].kind = proc'[q].kind
  BY <1>1 DEF Watched, Calm
<1>4. \A q \in Proc : At(q, "gather")' => \A i \in proc'[q].ids : inst'[i].st # "pending"
  BY <1>1 DEF Watched, Calm, At, Waiting
<1>5. \A q \in Proc : At(q, "terminate")' => \A i \in proc'[q].ids : inst'[i].st # "unused"
  BY DEF Watched, Calm, Only, At
<1> QED  BY <1>2, <1>3, <1>4, <1>5 DEF Watched

LEMMA CalmNumbered ==
    ASSUME Types, Types', NEW p \in Proc, Calm(p), Numbered
    PROVE  Numbered'
<1>1. /\ commands \in Nat /\ commands' \in Nat /\ commands <= commands' /\ inst' = inst
      /\ \A i \in Inst : inst[i].by \in Nat
  BY DEF Types, TypeOK, Calm, Instance
<1>2. \A q \in Proc : proc'[q].pc \in Launching => proc[q].pc \in Launching /\ proc'[q].by = proc[q].by
  BY DEF Calm, Only, SameLaunch
<1>3. \A q \in Proc : proc[q].pc \in Launching => proc[q].by \in Nat
  BY LaunchFields DEF Types
<1>4. \A q \in Proc : proc'[q].pc \in Launching => proc'[q].by \in 1 .. commands'
  BY <1>1, <1>2, <1>3 DEF Numbered
<1>5. \A q, r \in Proc : proc'[q].pc \in Launching /\ proc'[r].pc \in Launching =>
          (proc'[q].by = proc'[r].by => q = r)
  BY <1>2 DEF Numbered
<1>6. \A i \in Inst : inst'[i].by <= commands'
  BY <1>1 DEF Numbered
<1> QED  BY <1>4, <1>5, <1>6 DEF Numbered

\* The owners remain if no process begins to launch a master and no instance
\* becomes one that is ready.
LEMMA SameOwners ==
    ASSUME OwnedMasters, Ready' \subseteq Ready,
           \A q \in Proc : MasterLaunch(q)' => MasterLaunch(q)
    PROVE  \E f \in [Ready' -> Proc] : /\ \A i, j \in Ready' : f[i] = f[j] => i = j
                                       /\ \A i \in Ready' : ~MasterLaunch(f[i])'
<1>1. PICK f \in [Ready -> Proc] : /\ \A i, j \in Ready : f[i] = f[j] => i = j
                                   /\ \A i \in Ready : ~MasterLaunch(f[i])
  BY DEF OwnedMasters
<1>2. PICK g \in [Ready' -> Proc] : \A i \in Ready' : g[i] = f[i]
  <2> DEFINE h == [i \in Ready' |-> f[i]]
  <2>1. h \in [Ready' -> Proc] /\ \A i \in Ready' : h[i] = f[i]
    BY <1>1
  <2> HIDE DEF h
  <2> QED  BY <2>1
<1>3. \A i, j \in Ready' : g[i] = g[j] => i = j
  BY <1>1, <1>2
<1>4. \A i \in Ready' : g[i] \in Proc /\ ~MasterLaunch(g[i])
  BY <1>1, <1>2
<1>5. \A i \in Ready' : ~MasterLaunch(g[i])'
  BY <1>4
<1> QED  BY <1>2, <1>3, <1>5

LEMMA CalmOwned ==
    ASSUME NEW p \in Proc, Calm(p), OwnedMasters
    PROVE  OwnedMasters'
<1>1. \A q \in Proc : proc[q].pc \in Waiting \/ proc'[q].pc \in Waiting => proc'[q] = proc[q]
  BY DEF Calm, Only
<1>2. Ready' \subseteq Ready /\ Alive' = Alive /\ inst' = inst
  BY <1>1 DEF Ready, Alive, Calm
<1>3. \A q \in Proc : MasterLaunch(q)' => MasterLaunch(q)
  BY DEF MasterLaunch, Calm, Only, SameLaunch
<1>4. \A i \in Alive' : inst'[i].kind = "master" => NAMENODE \in inst'[i].groups
  BY <1>2 DEF OwnedMasters
<1>5. \A q \in Proc : proc'[q].pc \in Waiting /\ proc'[q].kind = "master" =>
          \A i, j \in proc'[q].ids : i = j
  BY <1>1 DEF OwnedMasters
<1> QED  BY <1>2, <1>3, <1>4, <1>5, SameOwners DEF OwnedMasters

LEMMA CalmHosts ==
    ASSUME NEW p \in Proc, Calm(p), Hosts
    PROVE  Hosts'
<1>1. Alive' = Alive /\ inst' = inst /\ strays' = strays
  BY DEF Alive, Calm
<1>2. ASSUME NEW q \in Proc, proc'[q].pc \in Launching
      PROVE  /\ proc[q].pc \in Launching /\ proc'[q].by = proc[q].by /\ proc'[q].host = proc[q].host
             /\ proc'[q].ids = proc[q].ids /\ proc'[q].templates = proc[q].templates
             /\ proc'[q].pc \in Waiting => proc[q].pc \in Waiting
             /\ proc'[q].pc \in Grouping => proc[q].pc \in Grouping
  BY <1>2 DEF Calm, Only, SameLaunch, Launching
<1>3. \A i \in Inst : GivenHost(i)'
  BY <1>1 DEF Hosts, GivenHost, RightHost
<1>4. \A q \in Proc : FoundHost(q)'
  BY <1>1, <1>2 DEF Hosts, FoundHost, RightHost
<1>5. ASSUME NEW q \in Proc
      PROVE  MastersFirst(q)'
  <2> SUFFICES ASSUME proc'[q].pc \in Launching, HasMasters(q)'
               PROVE  MastersFirst(q)'
    BY DEF MastersFirst
  <2>1. HasMasters(q)
    BY <1>2 DEF HasMasters
  <2>2. MastersFirst(q)
    BY DEF Hosts
  <2> QED  BY <1>1, <1>2, <2>1, <2>2 DEF MastersFirst
<1> QED  BY <1>3, <1>4, <1>5 DEF Hosts

LEMMA CalmFleet ==
    ASSUME Types, Types', NEW p \in Proc, Calm(p), Fleet
    PROVE  Fleet'
BY CalmWatched, CalmNumbered, CalmOwned, CalmHosts DEF Fleet

-----------------------------------------------------------------------------
(* Instances and launches: a launch begins                                 *)

NewLaunch(p) ==
    /\ Only(p) /\ UNCHANGED <<inst, strays>> /\ commands' = commands + 1
    /\ At(p, "idle") /\ At(p, "list")'
    /\ proc'[p].by = commands + 1 /\ proc'[p].host = NoHost
    /\ proc'[p].kind = "master" => MasterMayBeLaunched

LEMMA NewLaunchWatched ==
    ASSUME NEW p \in Proc, NewLaunch(p), Watched
    PROVE  Watched'
<1>1. \A q \in Proc : \/ proc'[q] = proc[q]
                      \/ q = p /\ proc[q].pc = "idle" /\ proc'[q].pc = "list"
  BY DEF NewLaunch, Only, At
<1>2. UNCHANGED <<inst, strays>>
  BY DEF NewLaunch
<1>3. PendingIsWatched'
  <2> SUFFICES ASSUME NEW i \in Inst, inst'[i].st = "pending", i \notin strays'
               PROVE  \E q \in Proc : At(q, "wait")' /\ i \in proc'[q].ids
    BY DEF PendingIsWatched
  <2>1. PICK q \in Proc : At(q, "wait") /\ i \in proc[q].ids
    BY <1>2 DEF Watched, PendingIsWatched
  <2>2. proc'[q] = proc[q]
    BY <1>1, <2>1 DEF At
  <2> QED  BY <2>1, <2>2 DEF At
<1> QED  BY <1>1, <1>2, <1>3 DEF Watched, At, Waiting

LEMMA NewLaunchNumbered ==
    ASSUME Types, NEW p \in Proc, NewLaunch(p), Numbered
    PROVE  Numbered'
<1>1. commands \in Nat /\ commands' = commands + 1 /\ inst' = inst /\ \A i \in Inst : inst[i].by \in Nat
  BY DEF Types, TypeOK, NewLaunch, Instance
<1>2. \A q \in Proc : proc[q].pc \in Launching => proc[q].by \in Nat /\ proc[q].by <= commands
                                                 /\ 1 <= proc[q].by
  BY <1>1 DEF Numbered
<1>3. \A q \in Proc : \/ proc'[q] = proc[q]
                      \/ q = p /\ proc'[q].by = commands + 1
  BY DEF NewLaunch, Only
<1>4. \A q \in Proc : proc'[q].pc \in Launching => proc'[q].by \in 1 .. commands'
  BY <1>1, <1>2, <1>3
<1>5. ASSUME NEW q \in Proc, NEW r \in Proc, proc'[q].pc \in Launching, proc'[r].pc \in Launching,
             proc'[q].by = proc'[r].by
      PROVE  q = r
  <2>1. q # p => proc'[q] = proc[q]
    BY DEF NewLaunch, Only
  <2>2. r # p => proc'[r] = proc[r]
    BY DEF NewLaunch, Only
  <2>3. proc'[p].by = commands + 1
    BY DEF NewLaunch
  <2>4. ASSUME q = p, r # p PROVE FALSE
    BY <1>1, <1>2, <1>5, <2>2, <2>3, <2>4
  <2>5. ASSUME q # p, r = p PROVE FALSE
    BY <1>1, <1>2, <1>5, <2>1, <2>3, <2>5
  <2>6. ASSUME q # p, r # p PROVE q = r
    BY <1>5, <2>1, <2>2, <2>6 DEF Numbered
  <2> QED  BY <2>4, <2>5, <2>6
<1>6. \A i \in Inst : inst'[i].by <= commands'
  BY <1>1 DEF Numbered
<1> QED  BY <1>4, <1>5, <1>6 DEF Numbered

\* A master that is ready runs, and launch-master looks for it.
LEMMA ReadyRuns ==
    ASSUME Types, Watched, OwnedMasters
    PROVE  Ready \subseteq Running(NAMENODE)
<1> SUFFICES ASSUME NEW i \in Ready
             PROVE  i \in Running(NAMENODE)
  OBVIOUS
<1>1. /\ i \in Inst /\ i \in Alive /\ inst[i].st \in {"pending", "running"}
      /\ NAMENODE \in inst[i].groups /\ i \notin strays
      /\ \A q \in Proc : proc[q].pc \in Waiting => i \notin proc[q].ids
  BY DEF Ready, Alive, OwnedMasters
<1>2. inst[i].st # "pending"
  BY <1>1 DEF Watched, PendingIsWatched, At, Waiting
<1> QED  BY <1>1, <1>2 DEF Running

LEMMA NewLaunchOwned ==
    ASSUME Types, Watched, NEW p \in Proc, NewLaunch(p), OwnedMasters
    PROVE  OwnedMasters'
<1>1. \A q \in Proc : \/ proc'[q] = proc[q]
                      \/ q = p /\ proc[q].pc = "idle" /\ proc'[q].pc = "list"
  BY DEF NewLaunch, Only, At
<1>2. UNCHANGED <<inst, strays>> /\ Alive' = Alive
  BY DEF NewLaunch, Alive
<1>3. Ready' \subseteq Ready
  BY <1>1, <1>2 DEF Ready, Waiting
<1>4. \E f \in [Ready' -> Proc] : /\ \A i, j \in Ready' : f[i] = f[j] => i = j
                                  /\ \A i \in Ready' : ~MasterLaunch(f[i])'
  <2>1. CASE proc'[p].kind = "master"
    <3>1. Ready' = {}
      BY <1>3, <2>1, ReadyRuns DEF NewLaunch, MasterMayBeLaunched
    <3>2. [i \in Ready' |-> p] \in [Ready' -> Proc]
      OBVIOUS
    <3> QED  BY <3>1, <3>2
  <2>2. CASE proc'[p].kind # "master"
    <3>1. \A q \in Proc : MasterLaunch(q)' => MasterLaunch(q)
      BY <1>1, <2>2 DEF MasterLaunch
    <3> QED  BY <1>3, <3>1, SameOwners
  <2> QED  BY <2>1, <2>2
<1> QED  BY <1>1, <1>2, <1>4 DEF OwnedMasters, Waiting

LEMMA NewLaunchHosts ==
    ASSUME Types, Numbered, NEW p \in Proc, NewLaunch(p), Hosts
    PROVE  Hosts'
<1>1. Alive' = Alive /\ inst' = inst /\ strays' = strays
  BY DEF Alive, NewLaunch
<1>2. \A q \in Proc : q # p => proc'[q] = proc[q]
  BY DEF NewLaunch, Only
<1>3. proc'[p].pc = "list" /\ proc'[p].host = NoHost /\ proc'[p].by = commands + 1
  BY DEF NewLaunch, At
<1>4. \A i \in Inst : GivenHost(i)'
  BY <1>1 DEF Hosts, GivenHost, RightHost
<1>5. \A q \in Proc : FoundHost(q)'
  BY <1>1, <1>2, <1>3 DEF Hosts, FoundHost, RightHost
<1>6. \A i \in Inst : inst[i].by # commands + 1
  BY DEF Numbered, Types, TypeOK, Instance
<1>7. \A q \in Proc : MastersFirst(q)'
  <2> SUFFICES ASSUME NEW q \in Proc
               PROVE  MastersFirst(q)'
    OBVIOUS
  <2>1. CASE q = p
    BY <1>1, <1>3, <1>6, <2>1 DEF MastersFirst, Waiting
  <2>2. CASE q # p
    <3>1. MastersFirst(q)
      BY DEF Hosts
    <3> QED  BY <1>1, <1>2, <2>2, <3>1 DEF MastersFirst, HasMasters
  <2> QED  BY <2>1, <2>2
<1> QED  BY <1>4, <1>5, <1>7 DEF Hosts

LEMMA NewLaunchFleet ==
    ASSUME Types, NEW p \in Proc, NewLaunch(p), Fleet
    PROVE  Fleet'
BY NewLaunchWatched, NewLaunchNumbered, NewLaunchOwned, NewLaunchHosts DEF Fleet

-----------------------------------------------------------------------------
(* Instances and launches: instances are made                              *)

\* What is true of the new instances, of those there were, and of the launch: it
\* is told of them, or nobody is.
Grown(p, t, ids) ==
    /\ \A i \in ids : /\ inst[i].st = "unused" /\ inst'[i].st = "pending"
                      /\ inst'[i].groups = GroupNames(t.roles)
                      /\ inst'[i].host = proc[p].host /\ inst'[i].by = proc[p].by
                      /\ inst'[i].kind = proc[p].kind
    /\ \A i \in Inst : i \notin ids => inst'[i] = inst[i]
    /\ \A i \in Alive : i \notin ids /\ i \in Alive'
    /\ \A i \in Alive' : i \in ids \/ i \in Alive
    /\ ids \subseteq Inst /\ proc[p].pc = "run"
    /\ \/ proc'[p].pc = "wait" /\ proc'[p].ids = ids /\ strays' = strays
       \/ proc'[p].pc = "run" /\ strays' = strays \cup ids
    /\ proc'[p].by = proc[p].by /\ proc'[p].kind = proc[p].kind
    /\ proc'[p].host = proc[p].host /\ proc'[p].templates = proc[p].templates
    /\ t = Head(proc[p].templates)
    /\ \/ t = Masters /\ t.roles = MasterRoles /\ \A i, j \in ids : i = j
       \/ t # Masters /\ t.roles = SlaveRoles /\ proc[p].kind # "master"
    /\ Only(p) /\ UNCHANGED <<groups, rules, commands, opened, upset>>

LEMMA GrowsGrown ==
    ASSUME Types, NEW p \in Proc, NEW t, NEW ids, Grows(p, t, ids), Only(p),
           UNCHANGED <<groups, rules, commands, opened, upset>>,
           \/ proc'[p].pc = "wait" /\ proc'[p].ids = ids /\ strays' = strays
           \/ proc'[p].pc = "run" /\ strays' = strays \cup ids,
           proc'[p].by = proc[p].by, proc'[p].kind = proc[p].kind,
           proc'[p].host = proc[p].host, proc'[p].templates = proc[p].templates
    PROVE  Grown(p, t, ids)
<1>1. /\ \A i \in ids : /\ inst[i].st = "unused" /\ inst'[i].st = "pending"
                        /\ inst'[i].groups = GroupNames(t.roles)
                        /\ inst'[i].host = proc[p].host /\ inst'[i].by = proc[p].by
                        /\ inst'[i].kind = proc[p].kind
      /\ \A i \in Inst : i \notin ids => inst'[i] = inst[i]
      /\ ids \in SUBSET Inst /\ proc[p].pc = "run"
      /\ t = Head(proc[p].templates) /\ t \in Template /\ Cardinality(ids) = t.n
  BY DEF Grows
<1>2. /\ \A i \in Alive : i \notin ids /\ i \in Alive'
      /\ \A i \in Alive' : i \in ids \/ i \in Alive
  BY <1>1 DEF Alive
<1>3. CASE t = Masters
  <2>1. IsFiniteSet(ids)
    BY <1>1, Constants, FS_Subset
  <2>2. Cardinality(ids) = 1
    BY <1>1, <1>3, TemplateFacts
  <2>3. PICK i : ids = {i}
    BY <2>1, <2>2, FS_Singleton
  <2>4. t.roles = MasterRoles /\ \A i_1, j \in ids : i_1 = j
    BY <1>3, <2>3, TemplateFacts
  <2> QED  BY <1>1, <1>2, <1>3, <2>4 DEF Grown
<1>4. CASE t # Masters
  <2>1. ProcessOK(proc[p]) /\ proc[p].pc \in Launching
    BY <1>1 DEF Types, Launching, Grouping
  <2>2. proc[p].kind \in Kinds /\ proc[p].templates \in TemplatesOf(proc[p].kind)
    BY <2>1, LaunchFields
  <2>3. proc[p].kind = "master" => Head(proc[p].templates) = Masters
    BY <2>2, TemplatesFacts
  <2>4. \E n \in Numbers : t = Slaves(n)
    BY <1>1, <1>4 DEF Template
  <2>5. t.roles = SlaveRoles /\ proc[p].kind # "master"
    BY <1>1, <1>4, <2>3, <2>4, TemplateFacts
  <2> QED  BY <1>1, <1>2, <1>4, <2>5 DEF Grown
<1> QED  BY <1>3, <1>4

LEMMA GrownWatched ==
    ASSUME Types, NEW p \in Proc, NEW t, NEW ids, Grown(p, t, ids), Watched
    PROVE  Watched'
<1>1. \A q \in Proc : q # p => proc'[q] = proc[q]
  BY DEF Grown, Only
<1>2. PendingIsWatched'
  <2> SUFFICES ASSUME NEW i \in Inst, inst'[i].st = "pending", i \notin strays'
               PROVE  \E q \in Proc : At(q, "wait")' /\ i \in proc'[q].ids
    BY DEF PendingIsWatched
  <2>1. CASE i \in ids
    BY <2>1 DEF Grown, At
  <2>2. CASE i \notin ids
    <3>1. PICK q \in Proc : At(q, "wait") /\ i \in proc[q].ids
      BY <2>2 DEF Grown, Watched, PendingIsWatched
    <3>2. proc'[q] = proc[q]
      BY <1>1, <3>1 DEF Grown, At
    <3> QED  BY <3>1, <3>2 DEF At
  <2> QED  BY <2>1, <2>2
<1>3. ASSUME NEW q \in Proc, proc'[q].pc \in Waiting, NEW i \in proc'[q].ids
      PROVE  inst'[i].st # "unused" /\ inst'[i].by = proc'[q].by /\ inst'[i].kind = proc'[q].kind
  <2>1. CASE q = p
    BY <1>3, <2>1 DEF Grown, Waiting
  <2>2. CASE q # p
    <3>1. proc[q].pc \in Waiting /\ i \in proc[q].ids /\ proc[q].ids \subseteq Inst
      BY <1>1, <1>3, <2>2, LaunchFields DEF Types, Launching
    <3>2. inst[i].st # "unused"
      BY <3>1 DEF Watched
    <3>3. inst'[i] = inst[i]
      BY <3>1, <3>2 DEF Grown
    <3> QED  BY <1>1, <2>2, <3>1, <3>3 DEF Watched
  <2> QED  BY <2>1, <2>2
<1>4. ASSUME NEW q \in Proc, At(q, "gather")', NEW i \in proc'[q].ids
      PROVE  inst'[i].st # "pending"
  <2>1. q # p
    BY <1>4 DEF Grown, At
  <2>2. At(q, "gather") /\ proc[q].pc \in Waiting /\ i \in proc[q].ids /\ proc[q].ids \subseteq Inst
    BY <1>1, <1>4, <2>1, LaunchFields DEF Types, Launching, Waiting, At
  <2>3. inst[i].st # "unused" /\ inst[i].st # "pending"
    BY <2>2 DEF Watched
  <2> QED  BY <2>2, <2>3 DEF Grown
<1>5. ASSUME NEW q \in Proc, At(q, "terminate")', NEW i \in proc'[q].ids
      PROVE  inst'[i].st # "unused"
  <2>1. q # p
    BY <1>5 DEF Grown, At
  <2>2. At(q, "terminate") /\ i \in proc[q].ids /\ proc[q].ids \subseteq Inst
    BY <1>1, <1>5, <2>1, EndFields DEF Types, At
  <2>3. inst[i].st # "unused"
    BY <2>2 DEF Watched
  <2> QED  BY <2>2, <2>3 DEF Grown
<1> QED  BY <1>2, <1>3, <1>4, <1>5 DEF Watched

LEMMA GrownNumbered ==
    ASSUME Types, NEW p \in Proc, NEW t, NEW ids, Grown(p, t, ids), Numbered
    PROVE  Numbered'
<1>1. /\ proc[p].pc \in Launching /\ proc'[p].by = proc[p].by /\ commands' = commands
      /\ \A q \in Proc : q # p => proc'[q] = proc[q]
  BY DEF Grown, Only, Launching, Grouping
<1>2. \A q \in Proc : proc'[q].pc \in Launching =>
          proc[q].pc \in Launching /\ proc'[q].by = proc[q].by
  BY <1>1
<1>3. \A i \in Inst : inst'[i].by <= commands'
  <2> SUFFICES ASSUME NEW i \in Inst
               PROVE  inst'[i].by <= commands'
    OBVIOUS
  <2>1. CASE i \in ids
    <3>1. proc[p].by \in 1 .. commands /\ commands \in Nat
      BY <1>1 DEF Numbered, Types, TypeOK
    <3> QED  BY <1>1, <2>1, <3>1 DEF Grown
  <2>2. CASE i \notin ids
    BY <1>1, <2>2 DEF Grown, Numbered
  <2> QED  BY <2>1, <2>2
<1>4. \A q \in Proc : proc'[q].pc \in Launching => proc'[q].by \in 1 .. commands'
  BY <1>1, <1>2 DEF Numbered
<1>5. \A q, r \in Proc : proc'[q].pc \in Launching /\ proc'[r].pc \in Launching =>
          (proc'[q].by = proc'[r].by => q = r)
  BY <1>2 DEF Numbered
<1> QED  BY <1>3, <1>4, <1>5 DEF Numbered

LEMMA GrownOwned ==
    ASSUME Types, NEW p \in Proc, NEW t, NEW ids, Grown(p, t, ids), OwnedMasters
    PROVE  OwnedMasters'
<1>1. /\ \A q \in Proc : q # p => proc'[q] = proc[q]
      /\ proc[p].pc = "run" /\ proc'[p].kind = proc[p].kind
      /\ \/ proc'[p].pc = "wait" /\ proc'[p].ids = ids /\ strays' = strays
         \/ proc'[p].pc = "run" /\ strays' = strays \cup ids
  BY DEF Grown, Only
<1>2. Ready' \subseteq Ready
  <2> SUFFICES ASSUME NEW i \in Ready'
               PROVE  i \in Ready
    OBVIOUS
  <2>1. /\ i \in Alive' /\ inst'[i].kind = "master" /\ i \notin strays'
        /\ \A q \in Proc : proc'[q].pc \in Waiting => i \notin proc'[q].ids
    BY DEF Ready
  <2>2. i \notin ids
    BY <1>1, <2>1 DEF Waiting
  <2>3. i \in Alive /\ inst'[i] = inst[i]
    BY <2>1, <2>2 DEF Grown, Alive
  <2>4. \A q \in Proc : proc[q].pc \in Waiting => i \notin proc[q].ids
    BY <1>1, <2>1 DEF Waiting
  <2> QED  BY <1>1, <2>1, <2>3, <2>4 DEF Ready
<1>3. \A q \in Proc : MasterLaunch(q)' => MasterLaunch(q)
  BY <1>1 DEF MasterLaunch, Launching, Grouping
<1>4. ASSUME NEW i \in Alive', inst'[i].kind = "master"
      PROVE  NAMENODE \in inst'[i].groups
  <2>1. CASE i \in ids
    <3>1. inst'[i].groups = GroupNames(t.roles) /\ t.roles = MasterRoles
      BY <1>4, <2>1 DEF Grown
    <3> QED  BY <3>1, Constants DEF GroupNames
  <2>2. CASE i \notin ids
    <3>1. i \in Alive /\ inst'[i] = inst[i]
      BY <2>2 DEF Grown, Alive
    <3> QED  BY <1>4, <3>1 DEF OwnedMasters
  <2> QED  BY <2>1, <2>2
<1>5. ASSUME NEW q \in Proc, proc'[q].pc \in Waiting, proc'[q].kind = "master"
      PROVE  \A i, j \in proc'[q].ids : i = j
  <2>1. CASE q = p
    BY <1>1, <1>5, <2>1 DEF Grown, Waiting
  <2>2. CASE q # p
    BY <1>1, <1>5, <2>2 DEF OwnedMasters
  <2> QED  BY <2>1, <2>2
<1> QED  BY <1>2, <1>3, <1>4, <1>5, SameOwners DEF OwnedMasters

\* Whatever host is right stays so: a launch of masters is the first of its
\* command, and slaves are in no namenode's group.
LEMMA GrownRightHost ==
    ASSUME Types, NEW p \in Proc, NEW t, NEW ids, Grown(p, t, ids), Hosts,
           NEW h \in Inst, NEW b, inst[h].st # "unused", RightHost(h, b),
           t = Masters => b # proc[p].by
    PROVE  inst'[h].st # "unused" /\ RightHost(h, b)'
<1>1. h \notin ids /\ inst'[h] = inst[h]
  BY DEF Grown
<1>2. CASE inst[h].by = b
  BY <1>1, <1>2 DEF RightHost
<1>3. CASE \A j \in Alive \ strays : inst[j].by = b => NAMENODE \notin inst[j].groups
  <2>1. ASSUME NEW j \in Alive' \ strays', inst'[j].by = b
        PROVE  NAMENODE \notin inst'[j].groups
    <3>1. CASE j \in ids
      <4>1. inst'[j].by = proc[p].by /\ inst'[j].groups = GroupNames(t.roles)
        BY <3>1 DEF Grown
      <4>2. t.roles = SlaveRoles
        BY <2>1, <4>1 DEF Grown
      <4> QED  BY <4>1, <4>2, Constants DEF GroupNames
    <3>2. CASE j \notin ids
      BY <1>3, <2>1, <3>2 DEF Grown, Alive
    <3> QED  BY <3>1, <3>2
  <2> QED  BY <1>1, <2>1 DEF RightHost
<1> QED  BY <1>2, <1>3 DEF RightHost

LEMMA GrownHosts ==
    ASSUME Types, Watched, Numbered, NEW p \in Proc, NEW t, NEW ids, Grown(p, t, ids), Hosts
    PROVE  Hosts'
<1>1. /\ \A q \in Proc : q # p => proc'[q] = proc[q]
      /\ proc[p].pc = "run" /\ proc'[p].by = proc[p].by
      /\ proc'[p].host = proc[p].host /\ proc'[p].templates = proc[p].templates
      /\ t = Head(proc[p].templates)
      /\ \/ proc'[p].pc = "wait" /\ proc'[p].ids = ids /\ strays' = strays
         \/ proc'[p].pc = "run" /\ strays' = strays \cup ids
      /\ proc[p].pc \in Launching /\ proc[p].pc \in Grouping
  BY DEF Grown, Only, Launching, Grouping
<1>2. t = Masters => /\ proc[p].host = NoHost
                     /\ \A i \in Inst : inst[i].by = proc[p].by =>
                           i \in strays /\ inst[i].host = NoHost
  BY <1>1 DEF Hosts, MastersFirst, HasMasters
<1>3. ASSUME NEW h \in Inst, h = proc[p].host
      PROVE  inst'[h].st # "unused" /\ RightHost(h, proc[p].by)'
  <2>1. h # NoHost
    BY Constants
  <2>2. inst[h].st # "unused" /\ RightHost(h, proc[p].by) /\ t # Masters
    BY <1>1, <1>2, <1>3, <2>1 DEF Hosts, FoundHost
  <2>3. PICK b : b = proc[p].by /\ b = proc'[p].by
    BY <1>1
  <2>4. inst'[h].st # "unused" /\ RightHost(h, b)'
    BY <2>2, <2>3, GrownRightHost
  <2> QED  BY <2>3, <2>4
<1>4. ASSUME NEW i \in Inst, inst'[i].host # NoHost
      PROVE  inst'[inst'[i].host].st # "unused" /\ RightHost(inst[i].host, inst[i].by)'
  <2>1. CASE i \in ids
    <3>1. inst'[i].host = proc[p].host /\ inst'[i].by = proc[p].by
      BY <2>1 DEF Grown
    <3>2. proc[p].host \in Inst
      BY <1>1, <1>4, <3>1, LaunchFields DEF Types
    <3>3. PICK h \in Inst : h = proc[p].host
      BY <3>2
    <3>4. inst'[h].st # "unused" /\ RightHost(h, proc[p].by)'
      BY <1>3, <3>3
    <3> QED  BY <1>1, <3>1, <3>3, <3>4 DEF RightHost
  <2>2. CASE i \notin ids
    <3>1. inst'[i] = inst[i] /\ inst[i].host \in Inst
      BY <1>4, <2>2 DEF Grown, Types, TypeOK, Instance
    <3>2. PICK h \in Inst : h = inst[i].host
      BY <3>1
    <3>b. PICK b : b = inst[i].by
      OBVIOUS
    <3>3. inst[h].st # "unused" /\ RightHost(h, b)
      BY <1>4, <3>1, <3>2, <3>b DEF Hosts, GivenHost
    <3>4. t = Masters => b # proc[p].by
      BY <1>2, <1>4, <3>1, <3>b
    <3>5. inst'[h].st # "unused" /\ RightHost(h, b)'
      BY <3>3, <3>4, GrownRightHost
    <3> QED  BY <3>1, <3>2, <3>b, <3>5 DEF RightHost
  <2> QED  BY <2>1, <2>2
<1>5. ASSUME NEW q \in Proc
      PROVE  FoundHost(q)'
  <2> SUFFICES ASSUME proc'[q].pc \in Launching, proc'[q].host # NoHost
               PROVE  inst'[proc'[q].host].st # "unused" /\ RightHost(proc[q].host, proc[q].by)'
    BY DEF FoundHost
  <2>1. proc[q].pc \in Launching /\ proc'[q].host = proc[q].host /\ proc'[q].by = proc[q].by
    BY <1>1
  <2>2. proc[q].host \in Inst /\ proc[q].host # NoHost
    BY <2>1, LaunchFields DEF Types
  <2>3. PICK h \in Inst : h = proc[q].host
    BY <2>2
  <2>b. PICK b : b = proc[q].by
    OBVIOUS
  <2>4. inst[h].st # "unused" /\ RightHost(h, b)
    BY <2>1, <2>2, <2>3, <2>b DEF Hosts, FoundHost
  <2>5. t = Masters => b # proc[p].by
    <3>1. CASE q = p
      BY <1>2, <2>2, <3>1
    <3>2. CASE q # p
      BY <1>1, <2>1, <2>3, <2>b, <3>2 DEF Numbered
    <3> QED  BY <3>1, <3>2
  <2>6. inst'[h].st # "unused" /\ RightHost(h, b)'
    BY <2>4, <2>5, GrownRightHost
  <2> QED  BY <2>1, <2>3, <2>b, <2>6 DEF RightHost
<1>6. ASSUME NEW q \in Proc
      PROVE  MastersFirst(q)'
  <2> SUFFICES ASSUME proc'[q].pc \in Launching, HasMasters(q)'
               PROVE  MastersFirst(q)'
    BY DEF MastersFirst
  <2>1. CASE q = p
    <3>1. t = Masters
      BY <1>1, <2>1 DEF HasMasters
    <3>2. t.roles = MasterRoles /\ \A i, j \in ids : i = j
      BY <3>1 DEF Grown
    <3>3. \A i \in ids : NAMENODE \in inst'[i].groups
      BY <3>2, Constants DEF Grown, GroupNames
    <3>4. \A i \in Inst : inst'[i].by = proc[p].by => i \in ids \/ i \in strays
      BY <1>2, <3>1 DEF Grown
    <3>5. CASE proc'[p].pc = "wait"
      BY <1>1, <1>2, <2>1, <3>1, <3>2, <3>3, <3>4, <3>5 DEF MastersFirst, Grouping
    <3>6. CASE proc'[p].pc = "run"
      <4>1. \A i \in Inst : inst'[i].by = proc[p].by => inst'[i].host = NoHost
        BY <1>2, <3>1 DEF Grown
      <4> QED  BY <1>1, <1>2, <2>1, <3>1, <3>4, <3>6, <4>1 DEF MastersFirst, Waiting
    <3> QED  BY <1>1, <3>5, <3>6
  <2>2. CASE q # p
    <3>1. proc[q].pc \in Launching /\ proc'[q] = proc[q] /\ HasMasters(q)
      BY <1>1, <2>2 DEF HasMasters
    <3>2. MastersFirst(q) /\ proc[q].by # proc[p].by
      BY <1>1, <2>2, <3>1 DEF Hosts, Numbered
    <3>3. \A i \in Inst : inst'[i] = inst[i] \/ inst'[i].by = proc[p].by
      BY DEF Grown
    <3>4. proc[q].pc \in Waiting => \A i \in proc[q].ids : inst'[i] = inst[i]
      <4> SUFFICES ASSUME proc[q].pc \in Waiting, NEW i \in proc[q].ids
                   PROVE  inst'[i] = inst[i]
        OBVIOUS
      <4>1. i \in Inst /\ inst[i].st # "unused"
        BY <3>1, LaunchFields DEF Watched, Types
      <4> QED  BY <4>1 DEF Grown
    <3> QED  BY <1>1, <3>1, <3>2, <3>3, <3>4 DEF MastersFirst
  <2> QED  BY <2>1, <2>2
<1> QED  BY <1>4, <1>5, <1>6 DEF Hosts, GivenHost

LEMMA GrownFleet ==
    ASSUME Types, NEW p \in Proc, NEW t, NEW ids, Grown(p, t, ids), Fleet
    PROVE  Fleet'
BY GrownWatched, GrownNumbered, GrownOwned, GrownHosts DEF Fleet

-----------------------------------------------------------------------------
(* Instances and launches: a launch has waited, or gives up                *)

LEMMA WaitFleet ==
    ASSUME Types, Types', NEW p \in Proc, Fleet, At(p, "wait"), proc'[p].pc = "gather",
           SameLaunch(proc[p], proc'[p]), \A i \in proc[p].ids : inst[i].st = "running",
           Only(p), UNCHANGED <<inst, commands, strays>>
    PROVE  Fleet'
<1>1. \A q \in Proc : q # p => proc'[q] = proc[q]
  BY DEF Only
<1>2. \A q \in Proc : /\ proc'[q].pc \in Waiting <=> proc[q].pc \in Waiting
                      /\ proc'[q].pc \in Grouping <=> proc[q].pc \in Grouping
                      /\ proc'[q].pc \in Launching <=> proc[q].pc \in Launching
                      /\ proc[q].pc \in Launching => SameLaunch(proc[q], proc'[q])
  BY <1>1 DEF At, Waiting, Grouping, Launching, SameLaunch
<1>3. inst' = inst /\ Alive' = Alive /\ strays' = strays /\ commands' = commands
  BY DEF Alive
<1>4. Watched'
  <2>1. PendingIsWatched'
    <3> SUFFICES ASSUME NEW i \in Inst, inst'[i].st = "pending", i \notin strays'
                 PROVE  \E q \in Proc : At(q, "wait")' /\ i \in proc'[q].ids
      BY DEF PendingIsWatched
    <3>1. PICK q \in Proc : At(q, "wait") /\ i \in proc[q].ids
      BY <1>3 DEF Fleet, Watched, PendingIsWatched
    <3>2. q # p
      BY <1>3, <3>1
    <3> QED  BY <1>1, <3>1, <3>2 DEF At
  <2>2. ASSUME NEW q \in Proc, proc'[q].pc \in Waiting
        PROVE  \A i \in proc'[q].ids : /\ inst'[i].st # "unused"
                                       /\ inst'[i].by = proc'[q].by /\ inst'[i].kind = proc'[q].kind
    <3>1. proc[q].pc \in Waiting /\ SameLaunch(proc[q], proc'[q])
      BY <1>2, <2>2 DEF Launching
    <3> QED  BY <1>3, <3>1 DEF Fleet, Watched, SameLaunch
  <2>3. ASSUME NEW q \in Proc, At(q, "gather")'
        PROVE  \A i \in proc'[q].ids : inst'[i].st # "pending"
    <3>1. CASE q = p
      BY <1>3, <3>1 DEF SameLaunch
    <3>2. CASE q # p
      BY <1>1, <1>3, <2>3, <3>2 DEF Fleet, Watched, At
    <3> QED  BY <3>1, <3>2
  <2>4. \A q \in Proc : At(q, "terminate")' => \A i \in proc'[q].ids : inst'[i].st # "unused"
    BY <1>1, <1>3 DEF Fleet, Watched, At
  <2> QED  BY <2>1, <2>2, <2>3, <2>4 DEF Watched
<1>5. Numbered'
  BY <1>2, <1>3 DEF Fleet, Numbered, SameLaunch
<1>6. OwnedMasters'
  <2>1. Ready' \subseteq Ready
    BY <1>2, <1>3 DEF Ready, SameLaunch, Launching
  <2>2. \A q \in Proc : MasterLaunch(q)' => MasterLaunch(q)
    BY <1>2 DEF MasterLaunch, SameLaunch
  <2>3. \A q \in Proc : proc'[q].pc \in Waiting /\ proc'[q].kind = "master" =>
            \A i, j \in proc'[q].ids : i = j
    BY <1>2 DEF Fleet, OwnedMasters, SameLaunch, Launching
  <2> QED  BY <1>3, <2>1, <2>2, <2>3, SameOwners DEF Fleet, OwnedMasters
<1>7. Hosts'
  <2>1. \A i \in Inst : GivenHost(i)'
    BY <1>3 DEF Fleet, Hosts, GivenHost, RightHost
  <2>2. ASSUME NEW q \in Proc PROVE FoundHost(q)' /\ MastersFirst(q)'
    <3>1. FoundHost(q) /\ MastersFirst(q)
      BY DEF Fleet, Hosts
    <3>2. FoundHost(q)'
      BY <1>2, <1>3, <3>1 DEF FoundHost, RightHost, SameLaunch
    <3>3. MastersFirst(q)'
      BY <1>2, <1>3, <3>1 DEF MastersFirst, HasMasters, SameLaunch
    <3> QED  BY <3>2, <3>3
  <2> QED  BY <2>1, <2>2 DEF Hosts
<1> QED  BY <1>4, <1>5, <1>6, <1>7 DEF Fleet

\* A launch does not wait to the end for its instances, and makes no others.
LEMMA LeaveFleet ==
    ASSUME NEW p \in Proc, Fleet, proc[p].pc \in Waiting, proc'[p].pc \in {"idle", "site"},
           strays' = strays \cup proc[p].ids, Only(p), UNCHANGED <<inst, commands>>
    PROVE  Fleet'
<1>1. \A q \in Proc : q # p => proc'[q] = proc[q]
  BY DEF Only
<1>2. inst' = inst /\ Alive' = Alive /\ commands' = commands /\ strays \subseteq strays'
  BY DEF Alive
<1>3. \A q \in Proc : proc'[q].pc \in Launching \/ proc'[q].pc = "terminate" => proc'[q] = proc[q]
  BY <1>1 DEF Launching, Waiting, Grouping
<1>4. Watched'
  <2>1. PendingIsWatched'
    <3> SUFFICES ASSUME NEW i \in Inst, inst'[i].st = "pending", i \notin strays'
                 PROVE  \E q \in Proc : At(q, "wait")' /\ i \in proc'[q].ids
      BY DEF PendingIsWatched
    <3>1. PICK q \in Proc : At(q, "wait") /\ i \in proc[q].ids
      BY <1>2 DEF Fleet, Watched, PendingIsWatched
    <3>2. q # p
      BY <3>1
    <3> QED  BY <1>1, <3>1, <3>2 DEF At
  <2> QED  BY <1>2, <1>3, <2>1 DEF Fleet, Watched, At, Launching, Waiting
<1>5. Numbered'
  BY <1>2, <1>3 DEF Fleet, Numbered
<1>6. OwnedMasters'
  <2>1. ASSUME NEW i \in Ready' PROVE i \in Ready
    <3>1. /\ i \in Alive /\ inst[i].kind = "master" /\ i \notin strays /\ i \notin proc[p].ids
          /\ \A q \in Proc : proc'[q].pc \in Waiting => i \notin proc'[q].ids
      BY <1>2 DEF Ready
    <3> QED  BY <1>1, <3>1 DEF Ready
  <2>2. \A q \in Proc : MasterLaunch(q)' => MasterLaunch(q)
    BY <1>3 DEF MasterLaunch
  <2>3. \A q \in Proc : proc'[q].pc \in Waiting /\ proc'[q].kind = "master" =>
            \A i, j \in proc'[q].ids : i = j
    BY <1>3 DEF Fleet, OwnedMasters, Launching
  <2> QED  BY <1>2, <2>1, <2>2, <2>3, SameOwners DEF Fleet, OwnedMasters
<1>7. Hosts'
  <2>1. \A i \in Inst : GivenHost(i)'
    BY <1>2 DEF Fleet, Hosts, GivenHost, RightHost
  <2>2. ASSUME NEW q \in Proc PROVE FoundHost(q)' /\ MastersFirst(q)'
    <3>1. FoundHost(q) /\ MastersFirst(q)
      BY DEF Fleet, Hosts
    <3>2. FoundHost(q)'
      BY <1>2, <1>3, <3>1 DEF FoundHost, RightHost
    <3>3. MastersFirst(q)'
      BY <1>2, <1>3, <3>1 DEF MastersFirst, HasMasters
    <3> QED  BY <3>2, <3>3
  <2> QED  BY <2>1, <2>2 DEF Hosts
<1> QED  BY <1>4, <1>5, <1>6, <1>7 DEF Fleet

\* A launch has waited to the end and goes on to the next template, or is done
\* with its instances.
Gathered(p, h) ==
    /\ At(p, "gather") /\ h = HostOf(Head(proc[p].templates), proc[p].host)
    /\ \/ /\ HasMasters(p) /\ proc[p].kind = "cluster" /\ At(p, "list")'
          /\ proc'[p].kind = proc[p].kind /\ proc'[p].by = proc[p].by
          /\ ~HasMasters(p)' /\ proc'[p].host = h
       \/ proc'[p].pc \in {"idle", "site"}
    /\ Only(p) /\ UNCHANGED <<inst, commands, strays>>

LEMMA GatherGathered ==
    ASSUME Types, NEW p \in Proc, Gather(p)
    PROVE  \E h : Gathered(p, h)
<1> DEFINE h == HostOf(Head(proc[p].templates), proc[p].host)
           t == NextTemplate(proc[p], h)
<1>1. /\ proc[p].pc = "gather" /\ proc'[p] = t /\ Only(p) /\ UNCHANGED <<inst, commands, strays>>
      /\ h \in Inst \cup {NoHost}
  BY GatherTypes DEF Advances, Only, At
<1>2. ProcessOK(proc[p]) /\ proc[p].pc \in Launching
  BY <1>1 DEF Types, Launching, Waiting
<1>3. \/ /\ Head(proc[p].templates) = Masters /\ proc[p].kind = "cluster" /\ t.pc = "list"
         /\ t.kind = proc[p].kind /\ t.by = proc[p].by /\ t.templates \in SlaveTemplates
         /\ t.host = h
      \/ t.pc \in {"idle", "site"}
  <2> HIDE DEF h
  <2> QED  BY <1>1, <1>2, NextTemplateOK
<1>4. proc'[p].templates \in SlaveTemplates => ~HasMasters(p)'
  <2> SUFFICES ASSUME proc'[p].templates \in SlaveTemplates
               PROVE  ~HasMasters(p)'
    OBVIOUS
  <2>1. PICK n \in Numbers : proc'[p].templates = <<Slaves(n)>>
    BY DEF SlaveTemplates
  <2>2. Head(proc'[p].templates) = Slaves(n)
    BY <2>1
  <2> QED  BY <2>2, TemplateFacts DEF HasMasters
<1>5. Gathered(p, h)
  <2> HIDE DEF h, t
  <2>1. h = HostOf(Head(proc[p].templates), proc[p].host)
    BY DEF h
  <2> QED  BY <1>1, <1>3, <1>4, <2>1 DEF Gathered, HasMasters, At
<1> QED  BY <1>5

LEMMA GatheredWatched ==
    ASSUME NEW p \in Proc, NEW h, Gathered(p, h), Watched
    PROVE  Watched'
<1>1. \A q \in Proc : q # p => proc'[q] = proc[q]
  BY DEF Gathered, Only
<1>2. /\ inst' = inst /\ strays' = strays /\ proc[p].pc = "gather"
      /\ proc'[p].pc \in {"idle", "site", "list"}
  BY DEF Gathered, At
<1>3. \A q \in Proc : proc'[q].pc \in Waiting \/ proc'[q].pc = "terminate" => proc'[q] = proc[q]
  BY <1>1, <1>2 DEF Waiting
<1>4. PendingIsWatched'
  <2> SUFFICES ASSUME NEW i \in Inst, inst'[i].st = "pending", i \notin strays'
               PROVE  \E q \in Proc : At(q, "wait")' /\ i \in proc'[q].ids
    BY DEF PendingIsWatched
  <2>1. PICK q \in Proc : At(q, "wait") /\ i \in proc[q].ids
    BY <1>2 DEF Watched, PendingIsWatched
  <2>2. q # p
    BY <1>2, <2>1 DEF At
  <2> QED  BY <1>1, <2>1, <2>2 DEF At
<1> QED  BY <1>2, <1>3, <1>4 DEF Watched, At, Waiting

\* The process of a master that it has waited for owns it.
LEMMA GatheredOwned ==
    ASSUME Types, Watched, NEW p \in Proc, NEW h, Gathered(p, h), OwnedMasters
    PROVE  OwnedMasters'
<1>1. \A q \in Proc : q # p => proc'[q] = proc[q]
  BY DEF Gathered, Only
<1>2. /\ inst' = inst /\ strays' = strays /\ Alive' = Alive /\ proc[p].pc = "gather"
      /\ proc'[p].pc \in {"idle", "site", "list"}
      /\ proc'[p].pc = "list" => proc'[p].kind = "cluster" /\ proc[p].kind = "cluster"
  BY DEF Gathered, At, Alive
<1>3. \A q \in Proc : MasterLaunch(q)' => MasterLaunch(q)
  BY <1>1, <1>2 DEF MasterLaunch, Launching, Grouping, Waiting
<1>4. ~MasterLaunch(p)'
  BY <1>2 DEF MasterLaunch, Launching, Grouping, Waiting
<1>5. ASSUME NEW i \in Ready', i \notin Ready
      PROVE  i \in proc[p].ids /\ proc[p].kind = "master"
  <2>1. /\ i \in Alive /\ inst[i].kind = "master" /\ i \notin strays
        /\ \A q \in Proc : proc'[q].pc \in Waiting => i \notin proc'[q].ids
    BY <1>2 DEF Ready
  <2>2. PICK q \in Proc : proc[q].pc \in Waiting /\ i \in proc[q].ids
    BY <1>5, <2>1 DEF Ready
  <2>3. q = p
    BY <1>1, <2>1, <2>2
  <2> QED  BY <2>1, <2>2, <2>3 DEF Watched
<1>6. \E f \in [Ready' -> Proc] : /\ \A i, j \in Ready' : f[i] = f[j] => i = j
                                  /\ \A i \in Ready' : ~MasterLaunch(f[i])'
  <2>1. CASE Ready' \subseteq Ready
    BY <1>3, <2>1, SameOwners
  <2>2. CASE ~(Ready' \subseteq Ready)
    <3>1. proc[p].kind = "master" /\ MasterLaunch(p) /\ \A i, j \in proc[p].ids : i = j
      <4>1. PICK i \in Ready' : i \notin Ready
        BY <2>2
      <4>2. proc[p].kind = "master"
        BY <1>5, <4>1
      <4> QED  BY <1>2, <4>2 DEF OwnedMasters, MasterLaunch, Launching, Waiting
    <3>2. PICK f \in [Ready -> Proc] : /\ \A i, j \in Ready : f[i] = f[j] => i = j
                                       /\ \A i \in Ready : ~MasterLaunch(f[i])
      BY DEF OwnedMasters
    <3>3. PICK g \in [Ready' -> Proc] : \A i \in Ready' : g[i] = IF i \in Ready THEN f[i] ELSE p
      <4> DEFINE e == [i \in Ready' |-> IF i \in Ready THEN f[i] ELSE p]
      <4>1. e \in [Ready' -> Proc] /\ \A i \in Ready' : e[i] = IF i \in Ready THEN f[i] ELSE p
        BY <3>2
      <4> HIDE DEF e
      <4> QED  BY <4>1
    <3>4. ASSUME NEW i \in Ready', NEW j \in Ready', g[i] = g[j]
          PROVE  i = j
      <4>1. CASE i \in Ready /\ j \in Ready
        BY <3>2, <3>3, <3>4, <4>1
      <4>2. CASE i \notin Ready /\ j \notin Ready
        BY <1>5, <3>1, <4>2
      <4>3. CASE i \in Ready /\ j \notin Ready
        <5>1. f[i] = p
          BY <3>3, <3>4, <4>3
        <5> QED  BY <3>1, <3>2, <4>3, <5>1
      <4>4. CASE i \notin Ready /\ j \in Ready
        <5>1. f[j] = p
          BY <3>3, <3>4, <4>4
        <5> QED  BY <3>1, <3>2, <4>4, <5>1
      <4> QED  BY <4>1, <4>2, <4>3, <4>4
    <3>5. \A i \in Ready' : g[i] \in Proc /\ (g[i] = p \/ ~MasterLaunch(g[i]))
      BY <3>2, <3>3
    <3>6. \A q \in Proc : q = p \/ ~MasterLaunch(q) => ~MasterLaunch(q)'
      BY <1>3, <1>4
    <3>7. \A i \in Ready' : ~MasterLaunch(g[i])'
      BY <3>5, <3>6
    <3> QED  BY <3>4, <3>7
  <2> QED  BY <2>1, <2>2
<1>7. \A q \in Proc : proc'[q].pc \in Waiting /\ proc'[q].kind = "master" =>
          \A i, j \in proc'[q].ids : i = j
  BY <1>1, <1>2 DEF OwnedMasters, Waiting
<1> QED  BY <1>2, <1>6, <1>7 DEF OwnedMasters

\* The one running namenode is the launch's own master, if that is alive.
LEMMA GatheredHost ==
    ASSUME Types, Watched, NEW p \in Proc, NEW h \in Inst, Gathered(p, h), Hosts, HasMasters(p)
    PROVE  inst[h].st # "unused" /\ RightHost(h, proc[p].by)
<1>1. proc[p].pc = "gather" /\ proc[p].pc \in Launching /\ proc[p].pc \in Waiting
  BY DEF Gathered, At, Launching, Waiting
<1>2. /\ proc[p].host = NoHost
      /\ \A i \in Inst \ strays : inst[i].by = proc[p].by => i \in proc[p].ids
      /\ \A i \in proc[p].ids : NAMENODE \in inst[i].groups
  BY <1>1 DEF Hosts, MastersFirst
<1>3. Running(NAMENODE) = {h}
  <2>1. h = HostOf(Masters, NoHost)
    BY <1>2 DEF Gathered, HasMasters
  <2>2. h # NoHost
    BY Constants
  <2>3. Running(Masters.roles[1]) = {HostOf(Masters, NoHost)}
    BY <2>1, <2>2, HostOfType
  <2> QED  BY <2>1, <2>3, TemplateFacts DEF NAMENODE
<1>4. inst[h].st = "running"
  BY <1>3 DEF Running
<1>5. ASSUME NEW j \in Alive \ strays, inst[j].by = proc[p].by, NAMENODE \in inst[j].groups
      PROVE  j = h
  <2>1. j \in Inst /\ j \in proc[p].ids /\ inst[j].st \in {"pending", "running"}
    BY <1>2, <1>5 DEF Alive
  <2>2. inst[j].st # "pending"
    BY <1>1, <2>1 DEF Watched, At
  <2>3. j \in Running(NAMENODE)
    BY <1>5, <2>1, <2>2 DEF Running
  <2> QED  BY <1>3, <2>3
<1> QED  BY <1>4, <1>5 DEF RightHost

LEMMA GatheredFleet ==
    ASSUME Types, Types', NEW p \in Proc, NEW h, Gathered(p, h), Fleet
    PROVE  Fleet'
<1>1. \A q \in Proc : q # p => proc'[q] = proc[q]
  BY DEF Gathered, Only
<1>2. /\ inst' = inst /\ Alive' = Alive /\ commands' = commands /\ proc[p].pc = "gather"
      /\ strays' = strays /\ proc[p].pc \in Launching
      /\ \/ proc'[p].pc \in {"idle", "site"}
         \/ proc'[p].pc = "list" /\ proc'[p].by = proc[p].by
  <2>1. /\ inst' = inst /\ commands' = commands /\ strays' = strays
        /\ proc[p].pc = "gather" /\ proc[p].pc \in Launching
    BY DEF Gathered, At, Launching, Waiting
  <2>2. proc'[p].pc \in {"idle", "site"} \/ (proc'[p].pc = "list" /\ proc'[p].by = proc[p].by)
    BY DEF Gathered, At
  <2> QED  BY <2>1, <2>2 DEF Alive
<1>3. \A q \in Proc : proc'[q].pc \in Launching =>
          proc[q].pc \in Launching /\ proc'[q].by = proc[q].by
  BY <1>1, <1>2 DEF Launching, Grouping, Waiting
<1>4. Numbered'
  BY <1>2, <1>3 DEF Fleet, Numbered
<1>5. \A i \in Inst : GivenHost(i)'
  BY <1>2 DEF Fleet, Hosts, GivenHost, RightHost
<1>6. ASSUME NEW q \in Proc, q # p
      PROVE  FoundHost(q)' /\ MastersFirst(q)'
  <2>1. FoundHost(q) /\ MastersFirst(q) /\ proc'[q] = proc[q]
    BY <1>1, <1>6 DEF Fleet, Hosts
  <2>2. FoundHost(q)'
    BY <1>2, <2>1 DEF FoundHost, RightHost
  <2>3. MastersFirst(q)'
    BY <1>2, <2>1 DEF MastersFirst, HasMasters
  <2> QED  BY <2>2, <2>3
<1>7. FoundHost(p)' /\ MastersFirst(p)'
  <2>1. CASE proc'[p].pc \in {"idle", "site"}
    BY <2>1 DEF FoundHost, MastersFirst, Launching, Grouping, Waiting
  <2>2. CASE proc'[p].pc = "list"
    <3>1. HasMasters(p) /\ ~HasMasters(p)' /\ proc'[p].host = h /\ proc'[p].by = proc[p].by
      BY <2>2 DEF Gathered
    <3>2. MastersFirst(p)'
      BY <3>1 DEF MastersFirst
    <3>3. FoundHost(p)'
      <4> SUFFICES ASSUME proc'[p].host # NoHost
                   PROVE  inst'[h].st # "unused" /\ RightHost(proc[p].host, proc[p].by)'
        BY <3>1 DEF FoundHost
      <4>1. h \in Inst
        <5>1. proc'[p].pc \in Launching /\ ProcessOK(proc[p])'
          BY <2>2 DEF Types, Launching, Grouping
        <5>2. proc'[p].host \in Inst \cup {NoHost}
          <6>1. ASSUME NEW s, s = proc'[p] PROVE s.host \in Inst \cup {NoHost}
            <7>1. ProcessOK(s) /\ s.pc \in Launching
              BY <2>2, <6>1 DEF Types, Launching, Grouping
            <7> QED  BY <7>1, LaunchFields
          <6> QED  BY <6>1
        <5> QED  BY <3>1, <5>2
      <4>2. inst[h].st # "unused" /\ RightHost(h, proc[p].by)
        BY <3>1, <4>1, GatheredHost DEF Fleet
      <4> QED  BY <1>2, <3>1, <4>2 DEF RightHost
    <3> QED  BY <3>2, <3>3
  <2> QED  BY <1>2, <2>1, <2>2
<1> QED  BY <1>4, <1>5, <1>6, <1>7, GatheredWatched, GatheredOwned DEF Fleet, Hosts

-----------------------------------------------------------------------------
(* Instances and launches: instances start and end                         *)

Ages == /\ \A i \in Inst : /\ Aged(i)
                           /\ inst[i].st = "pending" \/ inst'[i].st # "pending"
        /\ Alive' \subseteq Alive
        /\ \A q \in Proc : \/ proc'[q] = proc[q]
                           \/ proc[q].pc = "terminate" /\ proc'[q] = Idle
        /\ UNCHANGED <<commands, strays>>

LEMMA AgesFleet ==
    ASSUME Types, Ages, Fleet
    PROVE  Fleet'
<1>1. \A q \in Proc : proc[q].pc \in Launching \/ proc'[q].pc # "idle" => proc'[q] = proc[q]
  BY IdleOK DEF Ages, Launching, Grouping, Waiting
<1>2. /\ \A i \in Inst : /\ inst'[i].by = inst[i].by /\ inst'[i].kind = inst[i].kind
                         /\ inst'[i].groups = inst[i].groups /\ inst'[i].host = inst[i].host
                         /\ inst[i].st # "unused" => inst'[i].st # "unused"
                         /\ inst'[i].st = "pending" => inst[i].st = "pending"
      /\ Alive' \subseteq Alive /\ commands' = commands /\ strays' = strays
  BY DEF Ages, Aged
<1>3. \A q \in Proc : proc'[q].pc \in Launching <=> proc[q].pc \in Launching
  BY <1>1, IdleOK DEF Ages, Launching, Grouping, Waiting
<1>4. \A q \in Proc : proc'[q].pc \in Launching \/ proc'[q].pc = "terminate" => proc'[q] = proc[q]
  BY <1>1, <1>3
<1>w. \A q \in Proc : proc'[q].pc \in Waiting \cup {"gather", "terminate"} =>
          proc'[q] = proc[q] /\ proc[q].ids \subseteq Inst
  <2> SUFFICES ASSUME NEW q \in Proc, proc'[q].pc \in Waiting \cup {"gather", "terminate"}
               PROVE  proc'[q] = proc[q] /\ proc[q].ids \subseteq Inst
    OBVIOUS
  <2>1. proc'[q] = proc[q] /\ ProcessOK(proc[q])
    BY <1>4 DEF Types, Launching, Waiting
  <2> QED  BY <2>1, LaunchFields, EndFields DEF Launching, Waiting
<1>5. Watched'
  <2>1. PendingIsWatched'
    <3> SUFFICES ASSUME NEW i \in Inst, inst'[i].st = "pending", i \notin strays'
                 PROVE  \E q \in Proc : At(q, "wait")' /\ i \in proc'[q].ids
      BY DEF PendingIsWatched
    <3>1. PICK q \in Proc : At(q, "wait") /\ i \in proc[q].ids
      BY <1>2 DEF Fleet, Watched, PendingIsWatched
    <3>2. proc'[q] = proc[q]
      BY <1>1, <3>1 DEF At, Launching, Waiting
    <3> QED  BY <3>1, <3>2 DEF At
  <2>2. \A q \in Proc : proc'[q].pc \in Waiting =>
           \A i \in proc'[q].ids : /\ inst'[i].st # "unused"
                                   /\ inst'[i].by = proc'[q].by /\ inst'[i].kind = proc'[q].kind
    BY <1>2, <1>w DEF Fleet, Watched
  <2>3. \A q \in Proc : At(q, "gather")' => \A i \in proc'[q].ids : inst'[i].st # "pending"
    BY <1>2, <1>w DEF Fleet, Watched, At
  <2>4. \A q \in Proc : At(q, "terminate")' => \A i \in proc'[q].ids : inst'[i].st # "unused"
    BY <1>2, <1>w DEF Fleet, Watched, At
  <2> QED  BY <2>1, <2>2, <2>3, <2>4 DEF Watched
<1>6. Numbered'
  BY <1>2, <1>4 DEF Fleet, Numbered
<1>7. OwnedMasters'
  <2>1. Ready' \subseteq Ready
    <3> SUFFICES ASSUME NEW i \in Ready'
                 PROVE  i \in Ready
      OBVIOUS
    <3>1. /\ i \in Alive /\ i \in Inst /\ inst'[i].kind = "master" /\ i \notin strays
          /\ \A q \in Proc : proc'[q].pc \in Waiting => i \notin proc'[q].ids
      BY <1>2 DEF Ready, Alive
    <3>2. \A q \in Proc : proc[q].pc \in Waiting => i \notin proc[q].ids
      BY <1>1, <3>1 DEF Launching
    <3> QED  BY <1>2, <3>1, <3>2 DEF Ready
  <2>2. \A q \in Proc : MasterLaunch(q)' => MasterLaunch(q)
    BY <1>4 DEF MasterLaunch
  <2>3. \A i \in Alive' : inst'[i].kind = "master" => NAMENODE \in inst'[i].groups
    BY <1>2 DEF Fleet, OwnedMasters, Alive
  <2>4. \A q \in Proc : proc'[q].pc \in Waiting /\ proc'[q].kind = "master" =>
            \A i, j \in proc'[q].ids : i = j
    BY <1>4 DEF Fleet, OwnedMasters, Launching
  <2> QED  BY <2>1, <2>2, <2>3, <2>4, SameOwners DEF OwnedMasters, Fleet
<1>8. ASSUME NEW h \in Inst, NEW b, inst[h].st # "unused", RightHost(h, b)
      PROVE  inst'[h].st # "unused" /\ RightHost(h, b)'
  <2>1. inst'[h].st # "unused" /\ inst'[h].by = inst[h].by
    BY <1>2, <1>8
  <2>2. \A j \in Alive' \ strays' :
           j \in Alive \ strays /\ inst'[j].by = inst[j].by /\ inst'[j].groups = inst[j].groups
    BY <1>2 DEF Alive
  <2> QED  BY <1>8, <2>1, <2>2 DEF RightHost
<1>9. ASSUME NEW i \in Inst
      PROVE  GivenHost(i)'
  <2> SUFFICES ASSUME inst'[i].host # NoHost
               PROVE  inst'[inst'[i].host].st # "unused" /\ RightHost(inst[i].host, inst[i].by)'
    BY DEF GivenHost
  <2>1. inst[i].host \in Inst
    BY <1>2 DEF Types, TypeOK, Instance
  <2>2. PICK h \in Inst : h = inst[i].host
    BY <2>1
  <2>b. PICK b : b = inst[i].by
    OBVIOUS
  <2>3. inst[h].st # "unused" /\ RightHost(h, b)
    BY <1>2, <2>2, <2>b DEF Fleet, Hosts, GivenHost
  <2>4. inst'[h].st # "unused" /\ RightHost(h, b)'
    BY <1>8, <2>3
  <2> QED  BY <1>2, <2>2, <2>b, <2>4 DEF RightHost
<1>10. ASSUME NEW q \in Proc
       PROVE  FoundHost(q)'
  <2> SUFFICES ASSUME proc'[q].pc \in Launching, proc'[q].host # NoHost
               PROVE  inst'[proc'[q].host].st # "unused" /\ RightHost(proc[q].host, proc[q].by)'
    BY DEF FoundHost
  <2>1. proc'[q] = proc[q] /\ proc[q].host \in Inst
    BY <1>4, LaunchFields DEF Types
  <2>2. PICK h \in Inst : h = proc[q].host
    BY <2>1
  <2>b. PICK b : b = proc[q].by
    OBVIOUS
  <2>3. inst[h].st # "unused" /\ RightHost(h, b)
    BY <2>1, <2>2, <2>b DEF Fleet, Hosts, FoundHost
  <2>4. inst'[h].st # "unused" /\ RightHost(h, b)'
    BY <1>8, <2>3
  <2> QED  BY <2>1, <2>2, <2>b, <2>4 DEF RightHost
<1>11. ASSUME NEW q \in Proc
       PROVE  MastersFirst(q)'
  <2> SUFFICES ASSUME proc'[q].pc \in Launching, HasMasters(q)'
               PROVE  MastersFirst(q)'
    BY DEF MastersFirst
  <2>1. proc'[q] = proc[q] /\ HasMasters(q) /\ MastersFirst(q)
    BY <1>4 DEF Fleet, Hosts, HasMasters
  <2>2. proc[q].ids \subseteq Inst
    BY <2>1, LaunchFields DEF Types
  <2> QED  BY <1>2, <2>1, <2>2 DEF MastersFirst
<1> QED  BY <1>5, <1>6, <1>7, <1>9, <1>10, <1>11 DEF Fleet, Hosts

-----------------------------------------------------------------------------
(* Groups and rules: the steps that leave them alone                       *)

\* Process p leaves the places that the rules and groups depend on only as its
\* end is accounted for, and gets to them only as these facts allow.
Still(p) ==
    /\ Only(p) /\ UNCHANGED <<groups, rules, opened>> /\ upset \subseteq upset'
    /\ proc[p].pc \in {"self", "ssh"} => "ssh" \in upset'
    /\ At(p, "grant") => \/ "grant" \in upset'
                         \/ Head(proc[p].todo) \in rules
    /\ At(p, "delete") => "delete" \in upset' \/ proc[p].todo = {}
    /\ At(p, "delete")' => proc'[p].todo = ClusterGroups
    /\ proc'[p].pc \notin {"self", "ssh", "grant"}
    /\ At(p, "role")' => CG \in groups
    /\ At(p, "revoke")' => Elements(ClientRules) \subseteq Elements(proc'[p].todo)

LEMMA StillNetwork ==
    ASSUME Types, NEW p \in Proc, Still(p), Network
    PROVE  Network'
<1>1. /\ \A q \in Proc : q # p => proc'[q] = proc[q]
      /\ groups' = groups /\ rules' = rules /\ opened' = opened /\ upset \subseteq upset'
  BY DEF Still, Only
<1>2. Reachable'
  <2> SUFFICES ASSUME CG \in groups, "ssh" \notin upset', ~({SelfRule, SshRule} \subseteq rules)
               PROVE  \/ \E q \in Proc : At(q, "self")'
                      \/ SelfRule \in rules /\ \E q \in Proc : At(q, "ssh")'
    BY <1>1 DEF Reachable
  <2>1. \/ \E q \in Proc : At(q, "self")
        \/ SelfRule \in rules /\ \E q \in Proc : At(q, "ssh")
    BY <1>1 DEF Network, Reachable
  <2>2. \A q \in Proc : At(q, "self") \/ At(q, "ssh") => proc'[q] = proc[q]
    BY <1>1 DEF Still, At
  <2> QED  BY <2>1, <2>2 DEF At
<1>3. Orphans'
  <2> SUFFICES ASSUME "delete" \notin upset'
               PROVE  Orphans'
    BY DEF Orphans
  <2>1. ASSUME NEW q \in Proc, At(q, "delete")', CG \in proc'[q].todo
        PROVE  groups \subseteq proc'[q].todo
    <3>1. CASE q = p
      BY <2>1, <3>1 DEF Still, ClusterGroups
    <3>2. CASE q # p
      BY <1>1, <2>1, <3>2 DEF Network, Orphans, At
    <3> QED  BY <3>1, <3>2
  <2>2. ASSUME NEW q \in Proc, proc'[q].pc \in {"self", "ssh", "role"}
        PROVE  CG \in groups
    <3>1. CASE q = p
      BY <2>2, <3>1 DEF Still, At
    <3>2. CASE q # p
      BY <1>1, <2>2, <3>2 DEF Network, Orphans
    <3> QED  BY <3>1, <3>2
  <2>3. ASSUME CG \notin groups, groups # {}
        PROVE  \E q \in Proc : At(q, "delete")' /\ groups \subseteq proc'[q].todo
    <3>1. PICK q \in Proc : At(q, "delete") /\ groups \subseteq proc[q].todo
      BY <1>1, <2>3 DEF Network, Orphans
    <3>2. proc[q].todo # {}
      BY <2>3, <3>1
    <3>3. q # p
      BY <3>1, <3>2 DEF Still
    <3> QED  BY <1>1, <3>1, <3>3 DEF At
  <2> QED  BY <1>1, <2>1, <2>2, <2>3 DEF Orphans
<1>4. Ports'
  <2> SUFFICES ASSUME "grant" \notin upset'
               PROVE  Ports'
    BY DEF Ports
  <2>1. \A r : Covered(r) => Covered(r)'
    <3> SUFFICES ASSUME NEW r, Covered(r)
                 PROVE  r \in rules \/ \E q \in Proc : At(q, "grant")' /\ Head(proc'[q].todo) = r
      BY <1>1 DEF Covered
    <3>1. CASE r \in rules
      BY <3>1
    <3>2. CASE r \notin rules
      <4>1. PICK q \in Proc : At(q, "grant") /\ Head(proc[q].todo) = r
        BY <3>2 DEF Covered
      <4>2. q # p
        BY <3>2, <4>1 DEF Still
      <4> QED  BY <1>1, <4>1, <4>2 DEF At
    <3> QED  BY <3>1, <3>2
  <2>2. \A q \in Proc : At(q, "grant")' => Head(proc'[q].todo)[1] \in groups
    <3> SUFFICES ASSUME NEW q \in Proc, At(q, "grant")'
                 PROVE  Head(proc'[q].todo)[1] \in groups
      OBVIOUS
    <3>1. q # p
      BY DEF Still, At
    <3> QED  BY <1>1, <3>1 DEF Network, Ports, At
  <2>3. ASSUME NEW q \in Proc, proc'[q].pc \in {"revoke", "grant"}, NEW n \in DOMAIN ClientRules
        PROVE  ClientRules[n] \in Elements(proc'[q].todo) \/ Covered(ClientRules[n])'
    <3>1. CASE q = p
      <4>1. ClientRules[n] \in Elements(ClientRules)
        BY DEF Elements
      <4> QED  BY <2>3, <3>1, <4>1 DEF Still, At
    <3>2. CASE q # p
      <4>1. ClientRules[n] \in Elements(proc[q].todo) \/ Covered(ClientRules[n])
        BY <1>1, <2>3, <3>2 DEF Network, Ports
      <4> QED  BY <1>1, <2>1, <3>2, <4>1
    <3> QED  BY <3>1, <3>2
  <2>4. ASSUME opened', NEW n \in DOMAIN ClientRules
        PROVE  Covered(ClientRules[n])'
    BY <1>1, <2>1, <2>4 DEF Network, Ports
  <2> QED  BY <1>1, <2>2, <2>3, <2>4 DEF Ports, Elements
<1> QED  BY <1>2, <1>3, <1>4 DEF Network

-----------------------------------------------------------------------------
(* Groups and rules: what each step on them keeps                          *)

LEMMA SelfSshFacts == /\ SelfRule[1] = CG /\ SshRule[1] = CG
                      /\ \A r \in Rule : r[1] # CG
BY Constants, ClientRulesType DEF SelfRule, SshRule

\* Rules only get more, nobody's list of rules changes: the ports are as safe as
\* before.
LEMMA MoreRules ==
    ASSUME NEW p \in Proc, Only(p), UNCHANGED opened, upset \subseteq upset',
           groups \subseteq groups', rules \subseteq rules',
           proc[p].pc \notin {"revoke", "grant"}, proc'[p].pc \notin {"revoke", "grant"},
           Ports
    PROVE  Ports'
<1>1. \A q \in Proc : /\ proc[q].pc \in {"revoke", "grant"} => proc'[q] = proc[q]
                      /\ proc'[q].pc \in {"revoke", "grant"} => proc'[q] = proc[q]
  BY DEF Only
<1>2. \A r : Covered(r) => Covered(r)'
  BY <1>1 DEF Covered, At
<1> SUFFICES ASSUME "grant" \notin upset'
             PROVE  Ports'
  BY DEF Ports
<1>3. \A q \in Proc : At(q, "grant")' => Head(proc'[q].todo)[1] \in groups'
  BY <1>1 DEF Ports, At
<1>4. ASSUME NEW q \in Proc, proc'[q].pc \in {"revoke", "grant"}, NEW n \in DOMAIN ClientRules
      PROVE  ClientRules[n] \in Elements(proc'[q].todo) \/ Covered(ClientRules[n])'
  <2>1. ClientRules[n] \in Elements(proc[q].todo) \/ Covered(ClientRules[n])
    BY <1>1, <1>4 DEF Ports
  <2> QED  BY <1>1, <1>2, <1>4, <2>1
<1>5. ASSUME opened', NEW n \in DOMAIN ClientRules
      PROVE  Covered(ClientRules[n])'
  BY <1>2, <1>5 DEF Ports
<1> QED  BY <1>3, <1>4, <1>5 DEF Ports, Elements

LEMMA CreateClusterGroupNetwork ==
    ASSUME Types, NEW p \in Proc, CreateClusterGroup(p), Network
    PROVE  Network'
<1>1. /\ Only(p) /\ proc[p].pc = "cluster" /\ proc'[p].pc = "self" /\ CG \notin groups
      /\ groups' = groups \cup {CG} /\ rules' = rules /\ upset' = upset /\ opened' = opened
  BY CreateClusterGroupTypes DEF GroupMove, Only, At
<1>2. \A q \in Proc : q # p => proc'[q] = proc[q]
  BY <1>1 DEF Only
<1>3. Reachable'
  BY <1>1 DEF Reachable, At
<1>4. Orphans'
  <2>1. \A q \in Proc : At(q, "delete")' => proc'[q] = proc[q]
    BY <1>1, <1>2 DEF At
  <2>2. "delete" \notin upset => \A q \in Proc : At(q, "delete")' /\ CG \in proc'[q].todo =>
            groups' \subseteq proc'[q].todo
    BY <1>1, <2>1 DEF Network, Orphans, At
  <2> QED  BY <1>1, <2>2 DEF Orphans
<1>5. Ports'
  BY <1>1, MoreRules DEF Network
<1> QED  BY <1>3, <1>4, <1>5 DEF Network

LEMMA SameOrphans ==
    ASSUME NEW p \in Proc, Only(p), UNCHANGED groups, upset \subseteq upset', Orphans,
           proc[p].pc # "delete", proc'[p].pc # "delete",
           proc'[p].pc \in {"self", "ssh", "role"} => CG \in groups
    PROVE  Orphans'
<1>1. \A q \in Proc : q # p => proc'[q] = proc[q]
  BY DEF Only
<1> SUFFICES ASSUME "delete" \notin upset'
             PROVE  Orphans'
  BY DEF Orphans
<1>2. \A q \in Proc : At(q, "delete") \/ At(q, "delete")' => proc'[q] = proc[q]
  BY <1>1 DEF At
<1>3. \A q \in Proc : At(q, "delete")' /\ CG \in proc'[q].todo => groups' \subseteq proc'[q].todo
  BY <1>2 DEF Orphans, At
<1>4. \A q \in Proc : proc'[q].pc \in {"self", "ssh", "role"} => CG \in groups'
  BY <1>1 DEF Orphans
<1>5. CG \notin groups' /\ groups' # {} =>
          \E q \in Proc : At(q, "delete")' /\ groups' \subseteq proc'[q].todo
  BY <1>2 DEF Orphans, At
<1> QED  BY <1>3, <1>4, <1>5 DEF Orphans

LEMMA AuthorizeSelfNetwork ==
    ASSUME Types, NEW p \in Proc, AuthorizeSelf(p), Network
    PROVE  Network'
<1>1. /\ Only(p) /\ proc[p].pc = "self" /\ proc'[p].pc = "ssh" /\ CG \in groups
      /\ groups' = groups /\ rules' = rules \cup {SelfRule} /\ upset' = upset /\ opened' = opened
  BY AuthorizeSelfTypes DEF GroupMove, Only, At
<1>2. Reachable'
  BY <1>1 DEF Reachable, At
<1>3. Orphans'
  BY <1>1, SameOrphans DEF Network
<1>4. Ports'
  BY <1>1, MoreRules DEF Network
<1> QED  BY <1>2, <1>3, <1>4 DEF Network

LEMMA AuthorizeSshNetwork ==
    ASSUME Types, NEW p \in Proc, AuthorizeSsh(p), Network
    PROVE  Network'
<1>1. /\ Only(p) /\ proc[p].pc = "ssh" /\ proc'[p].pc \in {"list", "run", "role"} /\ CG \in groups
      /\ groups' = groups /\ rules' = rules \cup {SshRule} /\ upset' = upset /\ opened' = opened
  BY AuthorizeSshTypes DEF GroupMove, Only, At
<1>2. \A q \in Proc : q # p => proc'[q] = proc[q]
  BY <1>1 DEF Only
<1>3. Reachable'
  <2> SUFFICES ASSUME "ssh" \notin upset, SelfRule \notin rules
               PROVE  \E q \in Proc : At(q, "self")'
    BY <1>1 DEF Reachable
  <2>1. PICK q \in Proc : At(q, "self")
    BY <1>1 DEF Network, Reachable
  <2> QED  BY <1>1, <1>2, <2>1 DEF At
<1>4. Orphans'
  BY <1>1, SameOrphans DEF Network
<1>5. Ports'
  BY <1>1, MoreRules DEF Network
<1> QED  BY <1>3, <1>4, <1>5 DEF Network

\* A role's group that is made while another command deletes groups is marked.
LEMMA CreateRoleGroupNetwork ==
    ASSUME Types, NEW p \in Proc, CreateRoleGroup(p), Network
    PROVE  Network'
<1>1. /\ Only(p) /\ proc[p].pc = "role" /\ proc'[p].pc \in {"list", "run"}
      /\ rules' = rules /\ opened' = opened
      /\ upset' = upset \cup (IF Others(p, {"delete"}) THEN {"delete"} ELSE {})
  BY CreateRoleGroupTypes DEF GroupMove, Only, At
<1>2. PICK g \in Role : groups' = groups \cup {g}
  BY CreateRoleGroupTypes
<1>3. \A q \in Proc : q # p => proc'[q] = proc[q]
  BY <1>1 DEF Only
<1>4. Reachable'
  <2>1. CG \in groups' => CG \in groups
    BY <1>2, Constants
  <2>2. \A q \in Proc : At(q, "self") \/ At(q, "ssh") => proc'[q] = proc[q]
    BY <1>1, <1>3 DEF At
  <2> QED  BY <1>1, <2>1, <2>2 DEF Network, Reachable, At
<1>5. Orphans'
  <2> SUFFICES ASSUME "delete" \notin upset'
               PROVE  Orphans'
    BY DEF Orphans
  <2>1. CG \in groups /\ "delete" \notin upset
    BY <1>1 DEF Network, Orphans
  <2>2. \A q \in Proc : ~At(q, "delete")'
    BY <1>1, <1>3 DEF Others, At
  <2> QED  BY <1>2, <2>1, <2>2 DEF Orphans
<1>6. Ports'
  BY <1>1, <1>2, MoreRules DEF Network
<1> QED  BY <1>4, <1>5, <1>6 DEF Network

\* The rules of the cluster's group are not those that launches revoke.
LEMMA OpenReachable ==
    ASSUME NEW p \in Proc, Only(p), UNCHANGED <<groups, upset>>, Reachable,
           proc[p].pc \in {"revoke", "grant"},
           \A r \in rules : r[1] = CG => r \in rules'
    PROVE  Reachable'
<1>1. \A q \in Proc : At(q, "self") \/ At(q, "ssh") => proc'[q] = proc[q]
  BY DEF Only, At
<1>2. /\ SelfRule \in rules => SelfRule \in rules'
      /\ SshRule \in rules => SshRule \in rules'
  BY SelfSshFacts
<1> QED  BY <1>1, <1>2 DEF Reachable, At

LEMMA RevokeNetwork ==
    ASSUME Types, NEW p \in Proc, Revoke(p), Network
    PROVE  Network'
<1> DEFINE r == Head(proc[p].todo)
<1>1. /\ Only(p) /\ proc[p].pc = "revoke" /\ proc'[p].pc = "grant"
      /\ proc'[p].todo = proc[p].todo /\ r \in Rule /\ r[1] \in groups
      /\ groups' = groups /\ rules' = rules \ {r} /\ upset' = upset /\ opened' = opened
  BY RevokeTypes DEF OpenMove, Only, At
<1>2. \A q \in Proc : q # p => proc'[q] = proc[q]
  BY <1>1 DEF Only
<1>3. Reachable'
  BY <1>1, SelfSshFacts, OpenReachable DEF Network
<1>4. Orphans'
  BY <1>1, SameOrphans DEF Network
<1>5. Ports'
  <2> SUFFICES ASSUME "grant" \notin upset
               PROVE  Ports'
    BY <1>1 DEF Ports
  <2>1. \A x : Covered(x) => Covered(x)'
    <3> SUFFICES ASSUME NEW x, Covered(x)
                 PROVE  x \in rules' \/ \E q \in Proc : At(q, "grant")' /\ Head(proc'[q].todo) = x
      BY DEF Covered
    <3>1. CASE x = r
      BY <1>1, <3>1 DEF At
    <3>2. CASE x # r
      BY <1>1, <1>2, <3>2 DEF Covered, At
    <3> QED  BY <3>1, <3>2
  <2>2. \A q \in Proc : At(q, "grant")' => Head(proc'[q].todo)[1] \in groups'
    BY <1>1, <1>2 DEF Network, Ports, At
  <2>3. ASSUME NEW q \in Proc, proc'[q].pc \in {"revoke", "grant"}, NEW n \in DOMAIN ClientRules
        PROVE  ClientRules[n] \in Elements(proc'[q].todo) \/ Covered(ClientRules[n])'
    <3>1. proc[q].pc \in {"revoke", "grant"} /\ proc'[q].todo = proc[q].todo
      BY <1>1, <1>2, <2>3
    <3>2. ClientRules[n] \in Elements(proc[q].todo) \/ Covered(ClientRules[n])
      BY <3>1 DEF Network, Ports
    <3> QED  BY <2>1, <3>1, <3>2
  <2>4. ASSUME opened', NEW n \in DOMAIN ClientRules
        PROVE  Covered(ClientRules[n])'
    BY <1>1, <2>1, <2>4 DEF Network, Ports
  <2> QED  BY <2>2, <2>3, <2>4 DEF Ports, Elements
<1> QED  BY <1>3, <1>4, <1>5 DEF Network

LEMMA HeadOrTail ==
    ASSUME NEW S, NEW s \in Seq(S), s # <<>>
    PROVE  \A x \in Elements(s) : x = Head(s) \/ x \in Elements(Tail(s))
<1> SUFFICES ASSUME NEW n \in DOMAIN s, n # 1
             PROVE  s[n] \in Elements(Tail(s))
  BY DEF Elements
<1>1. n \in 2 .. Len(s) /\ Len(s) \in Nat
  OBVIOUS
<1>2. Tail(s) \in Seq(S) /\ Len(Tail(s)) = Len(s) - 1
  OBVIOUS
<1>3. n - 1 \in DOMAIN Tail(s)
  BY <1>1, <1>2
<1>4. Tail(s)[n - 1] = s[n]
  BY <1>1
<1> QED  BY <1>3, <1>4 DEF Elements

LEMMA GrantNetwork ==
    ASSUME Types, NEW p \in Proc, Grant(p), Network
    PROVE  Network'
<1> DEFINE r == Head(proc[p].todo)
<1>1. /\ Only(p) /\ proc[p].pc = "grant" /\ proc'[p].pc = "revoke"
      /\ proc[p].todo \in Seq(Rule) /\ proc[p].todo # <<>> /\ proc'[p].todo = Tail(proc[p].todo)
      /\ groups' = groups /\ rules' = rules \cup {r} /\ upset' = upset /\ opened' = opened
  BY GrantTypes DEF OpenMove, Only, At
<1>2. \A q \in Proc : q # p => proc'[q] = proc[q]
  BY <1>1 DEF Only
<1>3. Reachable'
  BY <1>1, OpenReachable DEF Network
<1>4. Orphans'
  BY <1>1, SameOrphans DEF Network
<1>5. Ports'
  <2> SUFFICES ASSUME "grant" \notin upset
               PROVE  Ports'
    BY <1>1 DEF Ports
  <2>1. \A x : Covered(x) => Covered(x)'
    <3> SUFFICES ASSUME NEW x, Covered(x)
                 PROVE  x \in rules' \/ \E q \in Proc : At(q, "grant")' /\ Head(proc'[q].todo) = x
      BY DEF Covered
    <3>1. CASE x = r
      BY <1>1, <3>1
    <3>2. CASE x # r
      BY <1>1, <1>2, <3>2 DEF Covered, At
    <3> QED  BY <3>1, <3>2
  <2>2. \A q \in Proc : At(q, "grant")' => Head(proc'[q].todo)[1] \in groups'
    BY <1>1, <1>2 DEF Network, Ports, At
  <2>3. ASSUME NEW q \in Proc, proc'[q].pc \in {"revoke", "grant"}, NEW n \in DOMAIN ClientRules
        PROVE  ClientRules[n] \in Elements(proc'[q].todo) \/ Covered(ClientRules[n])'
    <3>1. proc[q].pc \in {"revoke", "grant"}
      BY <1>1, <1>2, <2>3
    <3>2. ClientRules[n] \in Elements(proc[q].todo) \/ Covered(ClientRules[n])
      BY <3>1 DEF Network, Ports
    <3>3. CASE q = p
      <4>1. ClientRules[n] \in Elements(proc[p].todo) =>
                ClientRules[n] = r \/ ClientRules[n] \in Elements(Tail(proc[p].todo))
        BY <1>1, HeadOrTail
      <4>2. ClientRules[n] = r => Covered(ClientRules[n])'
        BY <1>1 DEF Covered
      <4>3. proc'[q].todo = Tail(proc[p].todo) /\ proc[q].todo = proc[p].todo
        BY <1>1, <3>3
      <4>4. Covered(ClientRules[n]) => Covered(ClientRules[n])'
        BY <2>1
      <4> HIDE DEF r
      <4> QED  BY <3>2, <4>1, <4>2, <4>3, <4>4
    <3>4. CASE q # p
      BY <1>2, <2>1, <3>2, <3>4
    <3> QED  BY <3>3, <3>4
  <2>4. ASSUME opened', NEW n \in DOMAIN ClientRules
        PROVE  Covered(ClientRules[n])'
    BY <1>1, <2>1, <2>4 DEF Network, Ports
  <2> QED  BY <2>2, <2>3, <2>4 DEF Ports, Elements
<1> QED  BY <1>3, <1>4, <1>5 DEF Network

\* A launch that has been through its list has each rule in force, or another
\* launch is about to grant it.
LEMMA LaunchDoneNetwork ==
    ASSUME Types, NEW p \in Proc, LaunchDone(p), Network
    PROVE  Network'
<1>1. /\ Only(p) /\ proc[p].pc = "revoke" /\ proc[p].todo = <<>> /\ proc'[p] = Idle /\ opened'
      /\ groups' = groups /\ rules' = rules /\ upset' = upset
  BY LaunchDoneTypes DEF Only, At
<1>2. \A q \in Proc : q # p => proc'[q] = proc[q]
  BY <1>1 DEF Only
<1>3. proc'[p].pc = "idle"
  BY <1>1, IdleOK
<1>4. Reachable'
  BY <1>1, OpenReachable DEF Network
<1>5. Orphans'
  BY <1>1, <1>3, SameOrphans DEF Network
<1>6. Ports'
  <2> SUFFICES ASSUME "grant" \notin upset
               PROVE  Ports'
    BY <1>1 DEF Ports
  <2>1. \A x : Covered(x) => Covered(x)'
    BY <1>1, <1>2 DEF Covered, At
  <2>2. \A q \in Proc : At(q, "grant")' => Head(proc'[q].todo)[1] \in groups'
    BY <1>1, <1>2, <1>3 DEF Network, Ports, At
  <2>3. ASSUME NEW q \in Proc, proc'[q].pc \in {"revoke", "grant"}, NEW n \in DOMAIN ClientRules
        PROVE  ClientRules[n] \in Elements(proc'[q].todo) \/ Covered(ClientRules[n])'
    <3>1. proc[q].pc \in {"revoke", "grant"} /\ proc'[q].todo = proc[q].todo
      BY <1>2, <1>3, <2>3
    <3>2. ClientRules[n] \in Elements(proc[q].todo) \/ Covered(ClientRules[n])
      BY <3>1 DEF Network, Ports
    <3> QED  BY <2>1, <3>1, <3>2
  <2>4. ASSUME NEW n \in DOMAIN ClientRules
        PROVE  Covered(ClientRules[n])'
    <3>1. Elements(proc[p].todo) = {}
      BY <1>1 DEF Elements
    <3>2. Covered(ClientRules[n])
      BY <1>1, <3>1 DEF Network, Ports
    <3> QED  BY <2>1, <3>2
  <2> QED  BY <2>2, <2>3, <2>4 DEF Ports, Elements
<1> QED  BY <1>4, <1>5, <1>6 DEF Network

\* A delete-cluster takes groups away; a launch that makes groups or is at its
\* ports then is marked.
LEMMA DeleteGroupNetwork ==
    ASSUME Types, NEW p \in Proc, DeleteGroup(p), Network
    PROVE  Network'
<1>1. /\ Only(p) /\ proc[p].pc = "delete" /\ proc'[p].pc = "delete" /\ ~opened'
      /\ upset' = upset \cup (IF Others(p, Grouping) THEN {"delete"} ELSE {})
                        \cup (IF Others(p, {"revoke", "grant"}) THEN {"grant"} ELSE {})
  BY DeleteGroupTypes DEF Only, At
<1>2. PICK g \in proc[p].todo : /\ groups' = groups \ {g} /\ rules' = {r \in rules : r[1] # g}
                                /\ proc'[p].todo = proc[p].todo \ {g}
  BY DeleteGroupTypes
<1>3. \A q \in Proc : q # p => proc'[q] = proc[q]
  BY <1>1 DEF Only
<1>4. Reachable'
  <2> SUFFICES ASSUME CG \in groups'
               PROVE  Reachable'
    BY DEF Reachable
  <2>1. CG \in groups /\ g # CG
    BY <1>2
  <2>2. /\ SelfRule \in rules => SelfRule \in rules'
        /\ SshRule \in rules => SshRule \in rules'
    BY <1>2, <2>1, SelfSshFacts
  <2>3. \A q \in Proc : At(q, "self") \/ At(q, "ssh") => proc'[q] = proc[q]
    BY <1>1, <1>3 DEF At
  <2> QED  BY <1>1, <2>1, <2>2, <2>3 DEF Network, Reachable, At
<1>5. Orphans'
  <2> SUFFICES ASSUME "delete" \notin upset'
               PROVE  Orphans'
    BY DEF Orphans
  <2>1. "delete" \notin upset /\ \A q \in Proc : proc'[q].pc \notin Grouping
    BY <1>1, <1>3 DEF Others, Grouping
  <2>2. \A q \in Proc : At(q, "delete")' => At(q, "delete")
    BY <1>1, <1>3 DEF At
  <2>3. \A q \in Proc : At(q, "delete") /\ CG \in proc[q].todo => groups \subseteq proc[q].todo
    BY <2>1 DEF Network, Orphans
  <2>4. ASSUME NEW q \in Proc, At(q, "delete"), groups \subseteq proc[q].todo
        PROVE  At(q, "delete")' /\ groups' \subseteq proc'[q].todo
    <3>1. CASE q = p
      BY <1>1, <1>2, <2>4, <3>1 DEF At
    <3>2. CASE q # p
      BY <1>2, <1>3, <2>4, <3>2 DEF At
    <3> QED  BY <3>1, <3>2
  <2>5. \A q \in Proc : proc'[q].todo = proc[q].todo \/ (q = p /\ proc'[q].todo \subseteq proc[q].todo)
    BY <1>2, <1>3
  <2>6. \A q \in Proc : At(q, "delete")' /\ CG \in proc'[q].todo => groups' \subseteq proc'[q].todo
    BY <2>2, <2>3, <2>4, <2>5
  <2>7. CG \notin groups' /\ groups' # {} =>
            \E q \in Proc : At(q, "delete")' /\ groups' \subseteq proc'[q].todo
    <3> SUFFICES ASSUME CG \notin groups', groups' # {}
                 PROVE  \E q \in Proc : At(q, "delete")' /\ groups' \subseteq proc'[q].todo
      OBVIOUS
    <3>1. CASE CG \in groups
      <4>1. groups \subseteq proc[p].todo /\ At(p, "delete")
        BY <1>1, <1>2, <2>3, <3>1 DEF At
      <4> QED  BY <2>4, <4>1
    <3>2. CASE CG \notin groups
      <4>1. groups # {}
        BY <1>2
      <4>2. PICK q \in Proc : At(q, "delete") /\ groups \subseteq proc[q].todo
        BY <2>1, <3>2, <4>1 DEF Network, Orphans
      <4> QED  BY <2>4, <4>2
    <3> QED  BY <3>1, <3>2
  <2> QED  BY <2>1, <2>6, <2>7 DEF Orphans, Grouping
<1>6. Ports'
  <2> SUFFICES ASSUME "grant" \notin upset'
               PROVE  Ports'
    BY DEF Ports
  <2>1. \A q \in Proc : proc'[q].pc \notin {"revoke", "grant"}
    BY <1>1, <1>3 DEF Others
  <2> QED  BY <1>1, <2>1 DEF Ports, At
<1> QED  BY <1>4, <1>5, <1>6 DEF Network

-----------------------------------------------------------------------------
(* Commands that end early                                                 *)

LEMMA EndsFacts ==
    ASSUME Types, NEW p \in Proc, Ends(p)
    PROVE  /\ proc'[p].pc = "idle" /\ Only(p)
           /\ UNCHANGED <<groups, rules, inst, commands, opened>>
           /\ proc[p].pc \in Waiting => strays' = strays \cup proc[p].ids
           /\ proc[p].pc \notin Waiting => strays' = strays
<1>1. Become(p, Idle) /\ proc'[p] = Idle /\ \A q \in Proc \ {p} : proc'[q] = proc[q]
  BY ProcOK, IdleOK DEF Ends
<1> QED  BY <1>1, IdleOK DEF Ends, ec2, Only

LEMMA EndsFleet ==
    ASSUME Types, Types', NEW p \in Proc, Ends(p), Fleet
    PROVE  Fleet'
<1>1. /\ proc'[p].pc = "idle" /\ Only(p) /\ inst' = inst /\ commands' = commands
      /\ proc[p].pc \in Waiting => strays' = strays \cup proc[p].ids
      /\ proc[p].pc \notin Waiting => strays' = strays
  BY EndsFacts
<1>2. CASE proc[p].pc \in Waiting
  BY <1>1, <1>2, LeaveFleet
<1>3. CASE proc[p].pc \notin Waiting
  <2>1. commands' >= commands
    BY <1>1 DEF Types, TypeOK
  <2>2. Calm(p)
    BY <1>1, <1>3, <2>1 DEF Calm, At, Launching, Grouping, Waiting
  <2> QED  BY <2>2, CalmFleet
<1> QED  BY <1>2, <1>3

\* What it leaves undone is noted; where a rule's group is gone, the command that
\* deleted it has noted that.
LEMMA EndsNetwork ==
    ASSUME Types, NEW p \in Proc, Ends(p), Network,
           \/ upset' = upset \cup Undone(p)
           \/ /\ upset' = upset /\ proc[p].pc \notin {"self", "ssh", "delete"}
              /\ At(p, "grant") => ~Authorizable(Head(proc[p].todo))
    PROVE  Network'
<1>1. /\ proc'[p].pc = "idle" /\ Only(p)
      /\ UNCHANGED <<groups, rules, opened>> /\ upset \subseteq upset'
  BY EndsFacts
<1>2. proc[p].pc \in {"self", "ssh"} => "ssh" \in upset'
  <2>1. ASSUME proc[p].pc \in {"self", "ssh"}
        PROVE  Undone(p) = {"ssh"}
    <3>1. ~(proc[p].pc = "delete") /\ ~(proc[p].pc = "grant")
      BY <2>1
    <3> QED  BY <2>1, <3>1 DEF Undone, At
  <2> QED  BY <2>1
<1>3. At(p, "delete") => "delete" \in upset'
  <2>1. ASSUME proc[p].pc = "delete"
        PROVE  Undone(p) = {"delete"}
    <3>1. ~(proc[p].pc \in {"self", "ssh"}) /\ ~(proc[p].pc = "grant")
      BY <2>1
    <3> QED  BY <2>1, <3>1 DEF Undone, At
  <2> QED  BY <2>1 DEF At
<1>4. At(p, "grant") => "grant" \in upset' \/ Head(proc[p].todo) \in rules
  <2> SUFFICES ASSUME At(p, "grant"), "grant" \notin upset, Head(proc[p].todo) \notin rules
               PROVE  "grant" \in upset'
    BY <1>1
  <2>1. Head(proc[p].todo)[1] \in groups
    BY DEF Network, Ports
  <2>2. Undone(p) = {"grant"}
    BY <2>1 DEF Undone, At
  <2> QED  BY <2>1, <2>2 DEF Authorizable
<1>5. Still(p)
  BY <1>1, <1>2, <1>3, <1>4 DEF Still, At
<1> QED  BY <1>5, StillNetwork

-----------------------------------------------------------------------------
(* Every step keeps the invariant.                                         *)

LEMMA DeathInv ==
    ASSUME IInv, NEW p \in Proc, Dies(p) \/ Killed(p)
    PROVE  IInv'
BY DiesTypes, EndsFleet, EndsNetwork DEF IInv

LEMMA GroupMoveFleet ==
    ASSUME Types, Types', NEW p \in Proc, GroupMove(p), Fleet
    PROVE  Fleet'
<1>1. commands' >= commands
  BY DEF GroupMove, Types, TypeOK
<1>2. Calm(p)
  BY <1>1 DEF Calm, GroupMove, Only, At, Launching, Grouping, Waiting
<1> QED  BY <1>2, CalmFleet

LEMMA OpenMoveFleet ==
    ASSUME Types, Types', NEW p \in Proc, OpenMove(p), Fleet
    PROVE  Fleet'
<1>1. commands' >= commands
  BY DEF OpenMove, Types, TypeOK
<1>2. Calm(p)
  BY <1>1 DEF Calm, OpenMove, Afterwards, Only, At, Launching, Grouping, Waiting
<1> QED  BY <1>2, CalmFleet

LEMMA NewLaunchInv ==
    ASSUME IInv, NEW p \in Proc, NEW kind \in Kinds, NEW ts \in TemplatesOf(kind),
           Begins(p, Launch(kind, ts)), kind = "master" => MasterMayBeLaunched
    PROVE  IInv'
<1> DEFINE t == Launch(kind, ts)
<1>1. /\ ProcessOK(t) /\ t.pc = "list" /\ t.kind = kind /\ t.by = commands + 1
      /\ t.host = NoHost
  BY LaunchOK DEF IInv
<1> HIDE DEF t
<1>2. Types' /\ proc'[p] = t /\ \A q \in Proc \ {p} : proc'[q] = proc[q]
  BY <1>1, BeginsTypes DEF IInv, t
<1>3. /\ At(p, "idle") /\ commands' = commands + 1
      /\ UNCHANGED <<groups, rules, inst, site, faults, strays, opened, upset>>
  BY DEF Begins, ec2, history
<1>4. NewLaunch(p)
  BY <1>1, <1>2, <1>3 DEF NewLaunch, Only, At
<1>5. Still(p)
  BY <1>1, <1>2, <1>3 DEF Still, Only, At
<1> QED  BY <1>2, <1>4, <1>5, NewLaunchFleet, StillNetwork DEF IInv

\* terminate-cluster and delete-cluster begin with what they see.
LEMMA NewEndInv ==
    ASSUME IInv, NEW p \in Proc, Terminate(p) \/ Delete(p)
    PROVE  IInv'
<1>1. PICK t : /\ Begins(p, t) /\ ProcessOK(t) /\ t.pc \in {"terminate", "delete"}
               /\ t.pc = "terminate" => t.ids = Running(CG)
               /\ t.pc = "delete" => t.todo = ClusterGroups
  <2>1. CASE Terminate(p)
    <3> DEFINE t == [pc |-> "terminate", ids |-> Running(CG)]
    <3>1. t \in TerminateRec /\ t.pc = "terminate" /\ t.ids = Running(CG)
      BY DEF TerminateRec, Running
    <3>2. Begins(p, t)
      BY <2>1 DEF Terminate
    <3> HIDE DEF t
    <3>3. ProcessOK(t)
      BY <3>1 DEF ProcessOK, Process, Launching, Grouping, Waiting
    <3> QED  BY <3>1, <3>2, <3>3
  <2>2. CASE Delete(p)
    <3> DEFINE t == [pc |-> "delete", todo |-> ClusterGroups]
    <3>1. t \in DeleteRec /\ t.pc = "delete" /\ t.todo = ClusterGroups
      BY DEF DeleteRec, ClusterGroups, IInv, Types, TypeOK
    <3>2. Begins(p, t)
      BY <2>2 DEF Delete
    <3> HIDE DEF t
    <3>3. ProcessOK(t)
      BY <3>1 DEF ProcessOK, Process, Launching, Grouping, Waiting
    <3> QED  BY <3>1, <3>2, <3>3
  <2> QED  BY <2>1, <2>2
<1>2. Types' /\ proc'[p] = t /\ \A q \in Proc \ {p} : proc'[q] = proc[q]
  BY <1>1, BeginsTypes DEF IInv
<1>3. /\ At(p, "idle") /\ commands' = commands + 1
      /\ UNCHANGED <<groups, rules, inst, site, faults, strays, opened, upset>>
  BY <1>1 DEF Begins, ec2, history
<1>4. commands' >= commands
  BY <1>3 DEF IInv, Types, TypeOK
<1>5. Calm(p)
  BY <1>1, <1>2, <1>3, <1>4 DEF Calm, Only, At, Launching, Grouping, Waiting, Running
<1>6. Still(p)
  BY <1>1, <1>2, <1>3 DEF Still, Only, At
<1> QED  BY <1>2, <1>5, <1>6, CalmFleet, StillNetwork DEF IInv

LEMMA CommandInv ==
    ASSUME IInv, NEW p \in Proc, Command(p)
    PROVE  IInv'
<1>1. CASE LaunchMaster(p)
  <2>1. <<Masters>> \in TemplatesOf("master") /\ "master" \in Kinds
    BY DEF TemplatesOf, Kinds
  <2> QED  BY <1>1, <2>1, NewLaunchInv DEF LaunchMaster
<1>2. ASSUME NEW n \in Numbers, LaunchSlaves(p, n)
      PROVE  IInv'
  <2>1. <<Slaves(n)>> \in TemplatesOf("slaves") /\ "slaves" \in Kinds
    BY DEF TemplatesOf, Kinds, SlaveTemplates
  <2>2. Begins(p, Launch("slaves", <<Slaves(n)>>))
    BY <1>2 DEF LaunchSlaves
  <2> QED  BY <2>1, <2>2, NewLaunchInv
<1>3. ASSUME NEW n \in Numbers, LaunchCluster(p, n)
      PROVE  IInv'
  <2>1. <<Masters, Slaves(n)>> \in TemplatesOf("cluster") /\ "cluster" \in Kinds
    BY DEF TemplatesOf, Kinds
  <2>2. Begins(p, Launch("cluster", <<Masters, Slaves(n)>>))
    BY <1>3 DEF LaunchCluster
  <2> QED  BY <2>1, <2>2, NewLaunchInv
<1>4. CASE Terminate(p) \/ Delete(p)
  BY <1>4, NewEndInv
<1> QED  BY <1>1, <1>2, <1>3, <1>4 DEF Command

LEMMA GroupStepInv ==
    ASSUME IInv, NEW p \in Proc, GroupStep(p)
    PROVE  IInv'
<1> USE DEF IInv
<1>1. CASE ListGroups(p)
  <2>1. /\ Types' /\ GroupMove(p) /\ UNCHANGED <<groups, rules, upset>> /\ At(p, "list")
        /\ proc'[p].pc \in {"list", "run", "role", "cluster"}
        /\ proc'[p].pc = "role" => CG \in groups
    BY <1>1, ListGroupsTypes
  <2>2. Still(p)
    BY <2>1 DEF Still, GroupMove, Only, At
  <2> QED  BY <2>1, <2>2, GroupMoveFleet, StillNetwork
<1>2. CASE CreateClusterGroup(p)
  BY <1>2, CreateClusterGroupTypes, GroupMoveFleet, CreateClusterGroupNetwork
<1>3. CASE AuthorizeSelf(p)
  BY <1>3, AuthorizeSelfTypes, GroupMoveFleet, AuthorizeSelfNetwork
<1>4. CASE AuthorizeSsh(p)
  BY <1>4, AuthorizeSshTypes, GroupMoveFleet, AuthorizeSshNetwork
<1>5. CASE CreateRoleGroup(p)
  BY <1>5, CreateRoleGroupTypes, GroupMoveFleet, CreateRoleGroupNetwork
<1>6. CASE \/ ClusterGroupExists(p) \/ AuthorizeSelfRefused(p) \/ AuthorizeSshRefused(p)
           \/ RoleGroupExists(p)
  BY <1>6, DeathInv DEF ClusterGroupExists, AuthorizeSelfRefused, AuthorizeSshRefused,
                        RoleGroupExists
<1> QED  BY <1>1, <1>2, <1>3, <1>4, <1>5, <1>6 DEF GroupStep

LEMMA InstanceStepInv ==
    ASSUME IInv, NEW p \in Proc, InstanceStep(p)
    PROVE  IInv'
<1> USE DEF IInv
<1>1. CASE RunInstances(p)
  <2>1. PICK t, ids : Grown(p, t, ids) /\ Types' /\ proc'[p].pc = "wait"
    <3>1. Grown(p, Head(proc[p].templates), Made(p)) /\ Types' /\ proc'[p].pc = "wait"
      BY <1>1, RunInstancesTypes, GrowsGrown DEF Only
    <3> QED  BY <3>1
  <2>2. Fleet'
    BY <2>1, GrownFleet
  <2>3. Still(p)
    BY <2>1 DEF Grown, Still, Only, At
  <2> QED  BY <2>1, <2>2, <2>3, StillNetwork
<1>2. CASE Wait(p)
  <2>1. /\ Types' /\ At(p, "wait") /\ proc'[p].pc = "gather" /\ SameLaunch(proc[p], proc'[p])
        /\ \A i \in proc[p].ids : inst[i].st = "running"
        /\ Only(p) /\ UNCHANGED <<groups, rules, inst, commands, strays, opened, upset>>
    BY <1>2, WaitTypes DEF Only
  <2>2. Fleet'
    BY <2>1, WaitFleet
  <2>3. Still(p)
    BY <2>1 DEF Still, At
  <2> QED  BY <2>1, <2>2, <2>3, StillNetwork
<1>3. CASE WaitTimeout(p)
  <2>1. CASE Dies(p)
    BY <2>1, DeathInv
  <2>2. CASE ~Dies(p)
    <3> DEFINE t == NextTemplate(proc[p], proc[p].host)
    <3>1. /\ Types' /\ At(p, "wait") /\ Advances(p, t) /\ t.pc \in {"idle", "site"}
          /\ strays' = strays \cup proc[p].ids
      BY <1>3, <2>2, WaitTimeoutTypes
    <3> HIDE DEF t
    <3>2. /\ proc[p].pc \in Waiting /\ proc[p].pc = "wait" /\ proc'[p].pc \in {"idle", "site"}
          /\ Only(p) /\ UNCHANGED <<groups, rules, inst, commands, opened, upset>>
      BY <3>1 DEF Advances, Only, At
    <3>3. Fleet'
      BY <3>1, <3>2, LeaveFleet
    <3>4. Still(p)
      BY <3>2 DEF Still, At
    <3> QED  BY <3>1, <3>3, <3>4, StillNetwork
  <2> QED  BY <2>1, <2>2
<1>4. CASE Gather(p)
  <2>1. PICK h : Gathered(p, h)
    BY <1>4, GatherGathered
  <2>2. Types' /\ UNCHANGED <<groups, rules, opened, upset>>
    BY <1>4, GatherTypes DEF Advances
  <2>3. Fleet'
    BY <2>1, <2>2, GatheredFleet
  <2>4. Still(p)
    BY <2>1, <2>2 DEF Gathered, Still, At
  <2> QED  BY <2>2, <2>3, <2>4, StillNetwork
<1>5. CASE RunRefused(p)
  BY <1>5, DeathInv DEF RunRefused
<1>6. CASE RunAnswerLost(p)
  <2>1. PICK t, ids : Grown(p, t, ids) /\ Types' /\ UNCHANGED proc
    <3>1. proc[p].pc = "run"
      BY <1>6, RunAnswerLostTypes DEF Grows
    <3>2. Grown(p, Head(proc[p].templates), Made(p)) /\ Types' /\ UNCHANGED proc
      BY <1>6, <3>1, RunAnswerLostTypes, GrowsGrown DEF Only
    <3> QED  BY <3>2
  <2>2. Fleet'
    BY <2>1, GrownFleet
  <2>3. Still(p)
    BY <2>1 DEF Grown, Still, Only, At
  <2> QED  BY <2>1, <2>2, <2>3, StillNetwork
<1> QED  BY <1>1, <1>2, <1>3, <1>4, <1>5, <1>6 DEF InstanceStep

LEMMA OpenStepInv ==
    ASSUME IInv, NEW p \in Proc, OpenStep(p)
    PROVE  IInv'
<1> USE DEF IInv
<1>1. CASE WriteSite(p)
  <2>1. Types' /\ OpenMove(p) /\ UNCHANGED rules /\ At(p, "site") /\ proc'[p].pc = "open"
    BY <1>1, WriteSiteTypes
  <2>2. Still(p)
    BY <2>1 DEF Still, OpenMove, Only, At
  <2> QED  BY <2>1, <2>2, OpenMoveFleet, StillNetwork
<1>2. CASE WriteSiteRaises(p)
  <2>1. Types' /\ At(p, "site") /\ Ends(p) /\ UNCHANGED upset
    BY <1>2, WriteSiteRaisesTypes
  <2>2. proc[p].pc \notin {"self", "ssh", "delete"} /\ ~At(p, "grant")
    BY <2>1 DEF At
  <2> QED  BY <2>1, <2>2, EndsFleet, EndsNetwork
<1>3. CASE BeginAuthorize(p) \/ BeginAuthorizeAlone(p)
  <2>1. /\ Types' /\ OpenMove(p) /\ UNCHANGED rules /\ At(p, "open") /\ proc'[p].pc = "revoke"
        /\ Elements(ClientRules) \subseteq Elements(proc'[p].todo)
    BY <1>3, BeginAuthorizeTypes
  <2>2. Still(p)
    BY <2>1 DEF Still, OpenMove, Only, At
  <2> QED  BY <2>1, <2>2, OpenMoveFleet, StillNetwork
<1>4. CASE Revoke(p)
  BY <1>4, RevokeTypes, OpenMoveFleet, RevokeNetwork
<1>5. CASE Grant(p)
  BY <1>5, GrantTypes, OpenMoveFleet, GrantNetwork
<1>6. CASE GrantRefused(p)
  <2>1. /\ Types' /\ At(p, "grant") /\ Ends(p) /\ UNCHANGED upset
        /\ ~Authorizable(Head(proc[p].todo))
    BY <1>6, GrantRefusedTypes
  <2>2. proc[p].pc \notin {"self", "ssh", "delete"}
    BY <2>1 DEF At
  <2> QED  BY <2>1, <2>2, EndsFleet, EndsNetwork
<1>7. CASE LaunchDone(p)
  <2>1. /\ Types' /\ proc[p].pc = "revoke" /\ proc'[p].pc = "idle" /\ Only(p)
        /\ UNCHANGED <<inst, commands, strays>>
    BY <1>7, LaunchDoneTypes, IdleOK DEF Only, At
  <2>2. commands' >= commands
    BY <2>1 DEF Types, TypeOK
  <2>3. Calm(p)
    BY <2>1, <2>2 DEF Calm, At, Launching, Grouping, Waiting
  <2> QED  BY <1>7, <2>1, <2>3, CalmFleet, LaunchDoneNetwork
<1>8. CASE RevokeRefused(p) \/ LaunchRaises(p)
  BY <1>8, DeathInv DEF RevokeRefused, LaunchRaises
<1> QED  BY <1>1, <1>2, <1>3, <1>4, <1>5, <1>6, <1>7, <1>8 DEF OpenStep

\* Instances start and end: nothing at the groups, nor at the commands that are
\* at them.
LEMMA AgesInv ==
    ASSUME IInv, Types', Ages, UNCHANGED <<groups, rules, opened, upset>>
    PROVE  IInv'
<1>1. Fleet'
  BY AgesFleet DEF IInv
<1>2. Network'
  <2>2. \A q \in Proc : proc[q].pc # "terminate" => proc'[q] = proc[q]
    BY DEF Ages
  <2>3. \A q \in Proc : proc[q].pc = "terminate" => proc'[q] = proc[q] \/ proc'[q].pc = "idle"
    BY IdleOK DEF Ages
  <2>4. Reachable'
    BY <2>2, <2>3 DEF IInv, Network, Reachable, At
  <2>5. Orphans'
    BY <2>2, <2>3 DEF IInv, Network, Orphans, At
  <2>6. \A r : Covered(r) <=> Covered(r)'
    BY <2>2, <2>3 DEF Covered, At
  <2>7. Ports'
    <3> SUFFICES ASSUME "grant" \notin upset
                 PROVE  Ports'
      BY DEF Ports
    <3>1. \A q \in Proc : proc'[q].pc \in {"revoke", "grant"} => proc'[q] = proc[q]
      BY <2>2, <2>3
    <3>2. \A q \in Proc : At(q, "grant")' => Head(proc'[q].todo)[1] \in groups'
      BY <3>1 DEF IInv, Network, Ports, At
    <3>3. ASSUME NEW q \in Proc, proc'[q].pc \in {"revoke", "grant"}, NEW n \in DOMAIN ClientRules
          PROVE  ClientRules[n] \in Elements(proc'[q].todo) \/ Covered(ClientRules[n])'
      BY <2>6, <3>1, <3>3 DEF IInv, Network, Ports
    <3>4. ASSUME opened', NEW n \in DOMAIN ClientRules
          PROVE  Covered(ClientRules[n])'
      BY <2>6, <3>4 DEF IInv, Network, Ports
    <3> QED  BY <3>2, <3>3, <3>4 DEF Ports, Elements
  <2> QED  BY <2>4, <2>5, <2>7 DEF Network
<1> QED  BY <1>1, <1>2 DEF IInv

LEMMA EndStepInv ==
    ASSUME IInv, NEW p \in Proc, EndStep(p)
    PROVE  IInv'
<1> USE DEF IInv
<1>1. CASE TerminateListed(p)
  <2>1. \A i \in proc[p].ids : inst[i].st # "unused"
    BY <1>1 DEF TerminateListed, Fleet, Watched
  <2>2. /\ Types' /\ (\A i \in Inst : Aged(i)) /\ Alive' \subseteq Alive
        /\ At(p, "terminate") /\ proc'[p] = Idle /\ \A q \in Proc \ {p} : proc'[q] = proc[q]
        /\ \A i \in Inst : inst'[i].st = inst[i].st \/ inst'[i].st = "terminated"
        /\ UNCHANGED <<groups, rules, commands, strays, opened, upset>>
    BY <1>1, <2>1, TerminateListedTypes
  <2>3. Ages
    BY <2>2 DEF Ages, At
  <2> QED  BY <2>2, <2>3, AgesInv
<1>2. CASE DeleteGroup(p)
  <2>1. /\ Types' /\ proc[p].pc = "delete" /\ proc'[p].pc = "delete" /\ Only(p)
        /\ UNCHANGED <<inst, commands, strays>>
    BY <1>2, DeleteGroupTypes DEF Only, At
  <2>2. commands' >= commands
    BY <2>1 DEF Types, TypeOK
  <2>3. Calm(p)
    BY <2>1, <2>2 DEF Calm, At, Launching, Grouping, Waiting
  <2> QED  BY <1>2, <2>1, <2>3, CalmFleet, DeleteGroupNetwork
<1>3. CASE DeleteRefused(p)
  BY <1>3, DeathInv DEF DeleteRefused
<1>4. CASE DeleteDone(p)
  <2>1. /\ Types' /\ proc[p].pc = "delete" /\ proc[p].todo = {} /\ proc'[p].pc = "idle" /\ Only(p)
        /\ UNCHANGED <<groups, rules, inst, commands, strays, opened, upset>>
    BY <1>4, DeleteDoneTypes, IdleOK DEF Only, At
  <2>2. commands' >= commands
    BY <2>1 DEF Types, TypeOK
  <2>3. Calm(p)
    BY <2>1, <2>2 DEF Calm, At, Launching, Grouping, Waiting
  <2>4. Still(p)
    BY <2>1 DEF Still, At
  <2> QED  BY <2>1, <2>3, <2>4, CalmFleet, StillNetwork
<1> QED  BY <1>1, <1>2, <1>3, <1>4 DEF EndStep

LEMMA EC2Inv ==
    ASSUME IInv, InstanceStarts \/ InstanceFails
    PROVE  IInv'
<1>1. CASE InstanceStarts
  <2>1. Types' /\ Ages /\ UNCHANGED <<groups, rules, opened, upset>>
    BY <1>1, InstanceStartsTypes DEF IInv, Ages
  <2> QED  BY <2>1, AgesInv
<1>2. CASE InstanceFails
  <2>1. Types' /\ Ages /\ UNCHANGED <<groups, rules, opened, upset>>
    BY <1>2, InstanceFailsTypes DEF IInv, Ages
  <2> QED  BY <2>1, AgesInv
<1> QED  BY <1>1, <1>2

LEMMA NextInv ==
    ASSUME IInv, [Next]_vars
    PROVE  IInv'
<1>1. ASSUME NEW p \in Proc, Command(p) \/ Step(p) \/ Killed(p)
      PROVE  IInv'
  BY <1>1, CommandInv, GroupStepInv, InstanceStepInv, OpenStepInv, EndStepInv, DeathInv DEF Step
<1>2. CASE InstanceStarts \/ InstanceFails
  BY <1>2, EC2Inv
<1>3. CASE UNCHANGED vars
  <2>1. UNCHANGED <<groups, rules, inst, site, proc, commands, faults, strays, opened, upset>>
    BY <1>3 DEF vars, ec2, history
  <2>2. TypeOK' /\ Types'
    BY <2>1 DEF IInv, Types, TypeOK, Alive
  <2>3. Ages
    BY <2>1 DEF IInv, Types, TypeOK, Ages, Aged, Alive
  <2> QED  BY <2>1, <2>2, <2>3, AgesInv
<1> QED  BY <1>1, <1>2, <1>3 DEF Next

LEMMA InitInv == Init => IInv
<1> SUFFICES ASSUME Init
             PROVE  IInv
  OBVIOUS
<1>1. /\ groups = {} /\ rules = {} /\ inst = [i \in Inst |-> Unused] /\ site = <<>>
      /\ proc = [p \in Proc |-> Idle] /\ commands = 0 /\ faults = 0
      /\ strays = {} /\ opened = FALSE /\ upset = {}
  BY DEF Init
<1>2. \A i \in Inst : /\ inst[i] = Unused /\ inst[i].st = "unused" /\ inst[i].by = 0
                      /\ inst[i].host = NoHost
  BY <1>1 DEF Unused
<1>3. \A p \in Proc : proc[p] = Idle /\ proc[p].pc = "idle"
  BY <1>1, IdleOK
<1>4. Alive = {} /\ Ready = {}
  BY <1>2 DEF Alive, Ready
<1>5. Types
  <2>1. Unused \in Instance
    BY DEF Unused, Instance
  <2>2. TypeOK
    BY <1>1, <1>4, <2>1 DEF TypeOK
  <2> QED  BY <1>1, <1>3, <2>2, IdleOK DEF Types
<1>6. Network
  BY <1>1, <1>3 DEF Network, Reachable, Orphans, Ports, At
<1>7. Watched /\ Numbered
  BY <1>1, <1>2, <1>3 DEF Watched, PendingIsWatched, Numbered, At, Launching, Grouping, Waiting
<1>8. OwnedMasters
  <2>1. [i \in {} |-> {}] \in [Ready -> Proc]
    BY <1>4
  <2> QED  BY <1>3, <1>4, <2>1 DEF OwnedMasters, Waiting
<1>9. Hosts
  BY <1>2, <1>3 DEF Hosts, GivenHost, FoundHost, MastersFirst, Launching, Grouping, Waiting
<1> QED  BY <1>5, <1>6, <1>7, <1>8, <1>9 DEF IInv, Fleet

\* The inductive invariant: what every launch has made of groups, rules and instances
\* where it is, and what it still owes, for any number of commands side by side.
THEOREM Invariance == Spec => []IInv
BY InitInv, NextInv, PTL DEF Spec

-----------------------------------------------------------------------------
(* The theorems                                                            *)

\* Rules are of groups that exist and instances are in the groups that they were
\* made for, whatever delete-cluster and the launches do in between: for any
\* roles, ports and numbers of processes.
THEOREM TypeCorrect == Spec => []TypeOK
<1>1. IInv => TypeOK
  BY DEF IInv, Types
<1> QED  BY <1>1, Invariance, PTL

\* terminate-cluster looks at running instances only; what it misses is waited
\* for, or its launch gave up, or was never told of it because EC2's answer was lost,
\* for any number of launches and of lost answers.
THEOREM PendingAreWatched == Spec => []PendingIsWatched
<1>1. IInv => PendingIsWatched
  BY DEF IInv, Fleet, Watched
<1> QED  BY <1>1, Invariance, PTL

\* The cluster's group has its rules, or the launch that made it is about to add
\* them, or a launch was stopped there.
THEOREM GroupsAreReachable == Spec => []GroupIsReachable
<1>1. IInv => GroupIsReachable
  BY DEF IInv, Network, Reachable, GroupIsReachable, At
<1> QED  BY <1>1, Invariance, PTL

\* Groups of roles without the cluster's group come from a delete-cluster only.
THEOREM OrphansExplained == Spec => []OrphansAreExplained
<1>1. IInv => OrphansAreExplained
  BY DEF IInv, Network, Orphans, OrphansAreExplained
<1> QED  BY <1>1, Invariance, PTL

\* The address that launch-cluster gives to its slaves is that of its own master,
\* whatever other launches do at the same time and however often RunInstances is
\* sent again.
THEOREM RightMaster == Spec => []SlavesFollowTheirMaster
<1>1. IInv => SlavesFollowTheirMaster
  BY DEF IInv, Fleet, Hosts, GivenHost, RightHost, SlavesFollowTheirMaster
<1> QED  BY <1>1, Invariance, PTL

\* Client ports once opened stay open while later launches revoke and grant them,
\* for any number of ports and of launches at once.
THEOREM PortsStayOpen == Spec => []ClientPortsStayOpen
<1>1. IInv => ClientPortsStayOpen
  BY DEF IInv, Network, Ports, Covered, ClientPortsStayOpen
<1> QED  BY <1>1, Invariance, PTL

\* Masters that count: those that are ready, and those of launches under way.
LEMMA MastersAreFew ==
    ASSUME IInv
    PROVE  MastersPerProcess
<1> DEFINE M == {i \in Alive : inst[i].kind = "master" /\ i \notin strays}
<1>1. PICK f \in [Ready -> Proc] : /\ \A i, j \in Ready : f[i] = f[j] => i = j
                                   /\ \A i \in Ready : ~MasterLaunch(f[i])
  BY DEF IInv, Fleet, OwnedMasters
<1>2. ASSUME NEW i \in M, i \notin Ready
      PROVE  \E p \in Proc : proc[p].pc \in Waiting /\ i \in proc[p].ids
  BY <1>2 DEF Ready
<1>3. ASSUME NEW p \in Proc, NEW i \in M, proc[p].pc \in Waiting, i \in proc[p].ids
      PROVE  MasterLaunch(p) /\ \A j \in proc[p].ids : i = j
  <2>1. proc[p].kind = "master"
    BY <1>3 DEF IInv, Fleet, Watched
  <2> QED  BY <1>3, <2>1 DEF IInv, Fleet, OwnedMasters, MasterLaunch, Launching
<1> DEFINE g == [i \in M |-> IF i \in Ready THEN f[i]
                              ELSE CHOOSE p \in Proc : proc[p].pc \in Waiting /\ i \in proc[p].ids]
<1>4. \A i \in M : /\ i \in Ready => g[i] = f[i]
                   /\ i \notin Ready => /\ g[i] \in Proc /\ proc[g[i]].pc \in Waiting
                                        /\ i \in proc[g[i]].ids
  BY <1>2
<1>5. g \in [M -> Proc]
  BY <1>1, <1>2
<1> HIDE DEF g
<1>6. ASSUME NEW i \in M, NEW j \in M, g[i] = g[j]
      PROVE  i = j
  <2> HIDE DEF M
  <2>1. CASE i \in Ready /\ j \in Ready
    BY <1>1, <1>4, <1>6, <2>1
  <2>2. CASE i \notin Ready /\ j \notin Ready
    BY <1>3, <1>4, <1>6, <2>2
  <2>3. ASSUME NEW k \in M, NEW l \in M, k \in Ready, l \notin Ready
        PROVE  g[k] # g[l]
    <3>1. ~MasterLaunch(g[k])
      BY <1>1, <1>4, <2>3
    <3>2. MasterLaunch(g[l])
      BY <1>3, <1>4, <2>3
    <3> QED  BY <3>1, <3>2
  <2> QED  BY <1>6, <2>1, <2>2, <2>3
<1>7. g \in Injection(M, Proc)
  BY <1>5, <1>6 DEF Injection, IsInjective
<1> HIDE DEF M
<1>8. Cardinality(M) <= Cardinality(Proc)
  BY <1>7, Constants, FS_Injection
<1> QED  BY <1>8 DEF MastersPerProcess, M

\* launch-master looks for a running namenode and launches one much later; still
\* there are never more masters that their launch knows of than processes: those of
\* calls whose answer was lost, and of launches that timed out, come on top.
THEOREM FewMasters == Spec => []MastersPerProcess
BY MastersAreFew, Invariance, PTL
=============================================================================
