---------------------------- MODULE VolumeStore ----------------------------
(***************************************************************************)
(* The storage of one cluster: the commands create-storage, attach-storage *)
(* and delete-storage of hadoop-ec2 (service.py, Ec2Storage in             *)
(* providers/ec2.py, JsonVolumeManager in storage.py), any number of them  *)
(* side by side.                                                           *)
(*                                                                         *)
(* EC2 has the volumes.  A JSON file beside the cluster's configuration    *)
(* has, for each role, one list of volume ids for each instance.  It is    *)
(* loaded, changed in memory, truncated by open(..., "w") and written      *)
(* again, without a lock.  A role is a sequence of letters, because        *)
(* Service.delete_storage passes one role where Ec2Storage.delete expects  *)
(* a list of roles, and so has it go through the role's letters.           *)
(***************************************************************************)
EXTENDS Integers, Sequences, FiniteSets, SequencesExt

CONSTANTS Proc,        \* hadoop-ec2 processes
          Vol,         \* volumes of the account, as numbers
          Foreign,     \* those that are not of this cluster
          Inst,        \* instances of the cluster
          Role,        \* role names, sequences of letters
          RoleOf,      \* RoleOf[i]: the role of instance i
          PerInstance, \* volumes for one instance in the specification file
          MaxNumber,   \* bound: MaxNumber[r] instances in one create-storage for role r
          MaxCommands, \* bound: commands in a behaviour
          MaxFaults    \* bound: processes killed, calls carried out twice

None == "none"
Letters == UNION {Range(r) : r \in Role}

ASSUME VolumeStoreAssumption ==
    /\ IsFiniteSet(Proc) /\ IsFiniteSet(Inst) /\ IsFiniteSet(Role) /\ None \notin Inst
    /\ Vol \subseteq Nat /\ IsFiniteSet(Vol) /\ Foreign \subseteq Vol
    /\ Role \subseteq Seq(Letters)
    /\ RoleOf \in [Inst -> Role]
    /\ PerInstance \in Nat \ {0}
    /\ MaxNumber \in [Role -> Nat] /\ {MaxCommands, MaxFaults} \subseteq Nat

VARIABLES vol,       \* vol[v]: EC2's status of volume v
          at,        \* at[v]: the instance v is attached to
          inst,      \* inst[i]: the state of instance i
          names,     \* names[r]: what the file has for role r
          torn,      \* the file exists and is not JSON
          proc,      \* proc[p]: where process p is
          commands,  \* number of commands so far
          faults,    \* number of faults so far
          dead,      \* number of create-storage commands that ended early
          resent,    \* number of volumes made by a call that was sent again
          undone,    \* volumes that a delete-storage that ended early had deleted
          mixed      \* what has been done by two commands at a time

ec2 == <<vol, at, inst>>
file == <<names, torn>>
history == <<dead, resent, undone, mixed>>
vars == <<ec2, file, proc, commands, faults, history>>

Own == Vol \ Foreign
Exists(v) == vol[v] \notin {"unborn", "gone"}
Empty == [r \in Role |-> <<>>]

\* All volumes of a list of lists, and of a whole file.
Flat(lists) == UNION {Range(lists[n]) : n \in DOMAIN lists}
Named(content) == UNION {Flat(content[r]) : r \in Role}

Idle == [pc |-> "idle"]

Init == /\ vol = [v \in Vol |-> IF v \in Own THEN "unborn" ELSE "available"]
        /\ at = [v \in Vol |-> None]
        /\ inst = [i \in Inst |-> "new"]
        /\ names = Empty /\ torn = FALSE
        /\ proc = [p \in Proc |-> Idle]
        /\ commands = 0 /\ faults = 0 /\ dead = 0 /\ resent = 0
        /\ undone = {} /\ mixed = {}

Become(p, s) == proc' = [proc EXCEPT ![p] = s]
At(p, pc) == proc[p].pc = pc
Others(p, pcs) == \E q \in Proc \ {p} : proc[q].pc \in pcs

\* The volumes process p has made and not yet put into the file, or holds while
\* the file is truncated.
InHand(p) == CASE At(p, "create") -> Range(proc[p].made)
               [] proc[p].pc \in {"store", "write"} -> Named(proc[p].copy)
               [] OTHER -> {}

\* delete() takes the next letter for a role.
Letter(p) == <<Head(proc[p].rest)>>

\* get_instance_storage_for_role: a role the file does not have has no volumes.
Stored(r) == IF r \in Role THEN Flat(names[r]) ELSE {}

\* Process p deletes the volumes of a role and will take the role out of the file,
\* and v is one of them; for a role without volumes, v may be any volume.
Deletes(p, v) ==
    /\ At(p, "delete") \/ (At(p, "store") /\ proc[p].cmd = "delete")
    /\ Stored(Letter(p)) = {} \/ v \in Stored(Letter(p))

-----------------------------------------------------------------------------
(* The end of a command.                                                   *)

\* The process ends by an exception.  Volumes it had made are left behind, and
\* those it had deleted stay in the file; a file it had truncated stays as it is.
Ends(p) == /\ Become(p, Idle)
           /\ dead' = dead + (IF proc[p].pc \in {"create", "store", "write"}
                                /\ proc[p].cmd = "create" THEN 1 ELSE 0)
           /\ undone' = undone \cup {v \in Vol : vol[v] = "gone" /\ Deletes(p, v)}
           /\ mixed' = mixed \cup (IF At(p, "write") THEN {"store"} ELSE {})
           /\ UNCHANGED <<ec2, file, commands, resent>>

Dies(p) == Ends(p) /\ UNCHANGED faults

Killed(p) == /\ ~At(p, "idle") /\ faults < MaxFaults
             /\ faults' = faults + 1
             /\ Ends(p)

Goes(p, s) == /\ Become(p, s)
              /\ UNCHANGED <<ec2, file, commands, faults, history>>

Begins(p, s) == /\ At(p, "idle") /\ commands < MaxCommands
                /\ commands' = commands + 1
                /\ Become(p, s)
                /\ UNCHANGED <<ec2, file, faults, history>>

-----------------------------------------------------------------------------
(* JsonVolumeManager: load, change, truncate, write.                       *)

\* Where a command has read the file and will write it.
Updating == {"check", "delete", "store", "write"}

\* _load and the change in memory; what is not JSON makes json.load raise.
Load(p, s) == ~torn /\ Goes(p, s)

\* _store: open(self.filename, "w").
Truncate(p) == /\ At(p, "store")
               /\ names' = Empty /\ torn' = TRUE
               /\ Become(p, [proc[p] EXCEPT !.pc = "write"])
               /\ mixed' = mixed \cup (IF Others(p, Updating) THEN {"store"} ELSE {})
               /\ UNCHANGED <<ec2, commands, faults, dead, resent, undone>>

Entries(content) == Cardinality(Named(content))

\* What is in the file after json.dump has written copy from its beginning: if
\* another process has written since the file was truncated, the end of a longer
\* text stays behind the shorter one.
Written(copy) == \/ names' = copy /\ torn' = FALSE
                 \/ /\ names # Empty /\ Entries(names) >= Entries(copy)
                    /\ names' = Empty /\ torn' = TRUE

\* The rest of the loop of create() or delete().
AfterWrite(p) ==
    IF proc[p].cmd = "delete"
    THEN [cmd |-> "delete", pc |-> "role", todo |-> proc[p].todo, rest |-> Tail(proc[p].rest)]
    ELSE [cmd |-> "create", pc |-> "create", role |-> proc[p].role,
          left |-> proc[p].left - 1, made |-> <<>>]

Write(p) == /\ At(p, "write")
            /\ Written(proc[p].copy)
            /\ Become(p, AfterWrite(p))
            /\ UNCHANGED <<ec2, commands, faults, history>>

-----------------------------------------------------------------------------
(* create-storage                                                          *)

Create(p, r, n) ==
    Begins(p, [cmd |-> "create", pc |-> "create", role |-> r, left |-> n, made |-> <<>>])

Unborn == {v \in Own : vol[v] = "unborn"}
NewId(v) == v \in Unborn /\ \A w \in Unborn : v <= w

MakesVolume(p) == /\ At(p, "create") /\ proc[p].left > 0
                  /\ Len(proc[p].made) < PerInstance

CreateVolume(p) ==
    /\ MakesVolume(p)
    /\ \E v \in Own :
          /\ NewId(v)
          /\ vol' = [vol EXCEPT ![v] = "creating"]
          /\ Become(p, [proc[p] EXCEPT !.made = Append(@, v)])
    /\ UNCHANGED <<at, inst, file, commands, faults, history>>

\* EC2 makes the volume, the answer is lost, and boto sends the call again.
CreateAnswerLost(p) ==
    /\ MakesVolume(p) /\ faults < MaxFaults
    /\ \E v \in Own : NewId(v) /\ vol' = [vol EXCEPT ![v] = "creating"]
    /\ faults' = faults + 1 /\ resent' = resent + 1
    /\ UNCHANGED <<at, inst, file, proc, commands, dead, undone, mixed>>

\* EC2 refuses.
CreateRefused(p) == MakesVolume(p) /\ Unborn = {} /\ Dies(p)

AddedAloneMutant(r, made) == [Empty EXCEPT ![r] = Append(names[r], made)]
AddedForeignMutant(r, made) == [names EXCEPT ![r] = Append(@, made \o SetToSeq(Foreign))]

\* add_instance_storage_for_role
Added(r, made) == [names EXCEPT ![r] = Append(@, made)]

Add(p) == /\ At(p, "create") /\ Len(proc[p].made) = PerInstance
          /\ Load(p, [cmd |-> "create", pc |-> "store", role |-> proc[p].role,
                      left |-> proc[p].left, made |-> proc[p].made,
                      copy |-> Added(proc[p].role, proc[p].made)])

AddRaises(p) == At(p, "create") /\ Len(proc[p].made) = PerInstance /\ torn /\ Dies(p)

\* All volumes are made and recorded.  print_status, which comes last here and in
\* attach-storage, changes nothing, whether it raises or not.
CreateDone(p) == At(p, "create") /\ proc[p].left = 0 /\ Goes(p, Idle)

-----------------------------------------------------------------------------
(* attach-storage, and _attach_storage at the end of a launch.             *)

\* get_instances_in_role(role, 'running')
Attach(p, r) ==
    Begins(p, [cmd |-> "attach", pc |-> "list", role |-> r,
               free |-> {i \in Inst : RoleOf[i] = r /\ inst[i] = "running"}])

\* _get_mountable_volumes; a role without volumes ends the command.
ReadRole(p) ==
    /\ At(p, "list") /\ ~torn
    /\ Goes(p, IF names[proc[p].role] = <<>> THEN Idle
               ELSE [cmd |-> "attach", pc |-> "describe", role |-> proc[p].role,
                     free |-> proc[p].free, lists |-> names[proc[p].role]])

ReadRoleRaises(p) == At(p, "list") /\ torn /\ Dies(p)

\* The lists none of whose volumes is attached, by their numbers.
FreeLists(lists) ==
    {n \in DOMAIN lists : \A v \in Range(lists[n]) : vol[v] = "available"}

\* The instances none of the volumes is attached to.
FreeInstances(free, lists) == free \ {at[v] : v \in Flat(lists)}

PlansMutant(free, lists) == [FreeLists(lists) -> FreeInstances(free, lists)]

\* zip(available_instances_dict.values(), available_mountable_volumes_list): the
\* lists as long as there are instances for them, in their order, and for each an
\* instance; a dictionary's values come in any order.
Plans(free, lists) ==
    LET first == {n \in FreeLists(lists) :
                    Cardinality({k \in FreeLists(lists) : k < n})
                        < Cardinality(FreeInstances(free, lists))}
    IN  Injection(first, FreeInstances(free, lists))

Describe(p) ==
    /\ At(p, "describe")
    /\ \A v \in Flat(proc[p].lists) : Exists(v)
    /\ \E plan \in Plans(proc[p].free, proc[p].lists) :
          Goes(p, [cmd |-> "attach", pc |-> "attach", role |-> proc[p].role,
                   lists |-> proc[p].lists, plan |-> plan, done |-> 0])

\* EC2 does not know one of the volumes.
DescribeRaises(p) ==
    At(p, "describe") /\ (\E v \in Flat(proc[p].lists) : ~Exists(v)) /\ Dies(p)

Attachable(i, v) == vol[v] = "available" /\ inst[i] = "running"

\* The list at hand: the first of those that are left.
Current(p) == {n \in DOMAIN proc[p].plan : \A k \in DOMAIN proc[p].plan : n <= k}

AttachNext(p) ==
    /\ At(p, "attach")
    /\ \E n \in Current(p) :
          /\ proc[p].done < Len(proc[p].lists[n])
          /\ LET i == proc[p].plan[n]
                 v == proc[p].lists[n][proc[p].done + 1]
             IN  /\ Attachable(i, v)
                 /\ vol' = [vol EXCEPT ![v] = "in-use"]
                 /\ at' = [at EXCEPT ![v] = i]
    /\ Become(p, [proc[p] EXCEPT !.done = @ + 1])
    /\ mixed' = mixed \cup (IF Others(p, {"describe", "attach"}) THEN {"attach"} ELSE {})
    /\ UNCHANGED <<inst, file, commands, faults, dead, resent, undone>>

AttachRefused(p) ==
    /\ At(p, "attach")
    /\ \E n \in Current(p) :
          /\ proc[p].done < Len(proc[p].lists[n])
          /\ ~Attachable(proc[p].plan[n], proc[p].lists[n][proc[p].done + 1])
    /\ Dies(p)

\* The next instance and its list.
NextInstance(p) ==
    /\ At(p, "attach")
    /\ \E n \in Current(p) :
          /\ proc[p].done = Len(proc[p].lists[n])
          /\ Goes(p, [proc[p] EXCEPT !.done = 0,
                                     !.plan = Restrict(@, DOMAIN @ \ {n})])

AttachDone(p) == At(p, "attach") /\ DOMAIN proc[p].plan = {} /\ Goes(p, Idle)

-----------------------------------------------------------------------------
(* delete-storage                                                          *)

\* Service.delete_storage begins with print_status, which lists the roles and reads
\* the file again for each of them.
Delete(p) == Begins(p, [cmd |-> "delete", pc |-> "print"])

ListRoles(p) ==
    /\ At(p, "print") /\ ~torn
    /\ Goes(p, [cmd |-> "delete", pc |-> "listing", todo |-> {r \in Role : names[r] # <<>>}])

\* A role that has gone from the file since: nothing is printed for it.
ListRole(p) ==
    /\ At(p, "listing") /\ ~torn
    /\ \E r \in proc[p].todo : /\ names[r] = <<>>
                              /\ Goes(p, [proc[p] EXCEPT !.todo = @ \ {r}])

\* _print_volume reads volume.availabilityZone, which no Volume of boto has: a role
\* with volumes ends the command.
ListRaises(p) == /\ \/ At(p, "print") /\ torn
                    \/ /\ At(p, "listing")
                       /\ \E r \in proc[p].todo : torn \/ names[r] # <<>>
                 /\ Dies(p)

Prompt(p) == /\ At(p, "listing") /\ proc[p].todo = {}
             /\ Goes(p, [cmd |-> "delete", pc |-> "prompt"])

\* The user says no.
Refrain(p) == At(p, "prompt") /\ Goes(p, Idle)

\* storage.get_roles(): the keys of a dictionary, in any order.  rest is the part
\* of the role at hand that delete() has still to go through.
GetRoles(p) ==
    /\ At(p, "prompt") /\ ~torn
    /\ \E o \in SetToSeqs({r \in Role : names[r] # <<>>}) :
          Goes(p, [cmd |-> "delete", pc |-> "role", todo |-> o, rest |-> <<>>])

GetRolesRaises(p) == At(p, "prompt") /\ torn /\ Dies(p)

NextRole(p) ==
    /\ At(p, "role") /\ proc[p].rest = <<>> /\ proc[p].todo # <<>>
    /\ Goes(p, [proc[p] EXCEPT !.todo = Tail(@), !.rest = Head(proc[p].todo)])

DeleteDone(p) ==
    At(p, "role") /\ proc[p].rest = <<>> /\ proc[p].todo = <<>> /\ Goes(p, Idle)

ReadLetter(p) ==
    /\ At(p, "role") /\ proc[p].rest # <<>> /\ ~torn
    /\ Goes(p, [cmd |-> "delete", pc |-> "check", todo |-> proc[p].todo,
                rest |-> proc[p].rest, ids |-> Stored(Letter(p))])

ReadLetterRaises(p) == At(p, "role") /\ proc[p].rest # <<>> /\ torn /\ Dies(p)

\* get_all_volumes(ids): without ids, all volumes of the account.
Described(ids) == IF ids = {} THEN {v \in Vol : Exists(v)} ELSE ids

\* All volumes are available, and will be deleted.
Check(p) ==
    /\ At(p, "check")
    /\ \A v \in Described(proc[p].ids) : vol[v] = "available"
    /\ Goes(p, [cmd |-> "delete", pc |-> "delete", todo |-> proc[p].todo,
                rest |-> proc[p].rest, ids |-> Described(proc[p].ids)])

\* One of them is not: delete() returns, and delete_storage goes on.
CheckAborts(p) ==
    /\ At(p, "check")
    /\ \A v \in proc[p].ids : Exists(v)
    /\ \E v \in Described(proc[p].ids) : vol[v] # "available"
    /\ Goes(p, [cmd |-> "delete", pc |-> "role", todo |-> proc[p].todo, rest |-> <<>>])

CheckRaises(p) == At(p, "check") /\ (\E v \in proc[p].ids : ~Exists(v)) /\ Dies(p)

DeleteVolume(p) ==
    /\ At(p, "delete")
    /\ \E v \in proc[p].ids :
          /\ vol[v] = "available"
          /\ vol' = [vol EXCEPT ![v] = "gone"]
          /\ Become(p, [proc[p] EXCEPT !.ids = @ \ {v}])
    /\ UNCHANGED <<at, inst, file, commands, faults, history>>

DeleteRefused(p) ==
    At(p, "delete") /\ (\E v \in proc[p].ids : vol[v] # "available") /\ Dies(p)

RemovedMutant(r) == names

\* remove_instance_storage_for_role
Removed(r) == [names EXCEPT ![r] = <<>>]

RemoveRole(p) ==
    /\ At(p, "delete") /\ proc[p].ids = {}
    /\ Letter(p) \in Role /\ names[Letter(p)] # <<>>
    /\ Load(p, [cmd |-> "delete", pc |-> "store", todo |-> proc[p].todo,
                rest |-> proc[p].rest, copy |-> Removed(Letter(p))])

\* The file is not JSON, or has no such role: KeyError.
RemoveRoleRaises(p) ==
    /\ At(p, "delete") /\ proc[p].ids = {}
    /\ torn \/ Letter(p) \notin Role \/ (Letter(p) \in Role /\ names[Letter(p)] = <<>>)
    /\ Dies(p)

-----------------------------------------------------------------------------
(* EC2                                                                     *)

VolumeReady == /\ \E v \in Vol : vol[v] = "creating" /\ vol' = [vol EXCEPT ![v] = "available"]
               /\ UNCHANGED <<at, inst, file, proc, commands, faults, history>>

InstanceStarts == /\ \E i \in Inst : inst[i] = "new" /\ inst' = [inst EXCEPT ![i] = "running"]
                  /\ UNCHANGED <<vol, at, file, proc, commands, faults, history>>

\* The volumes of an instance that is terminated are available again.
InstanceEnds ==
    /\ \E i \in Inst :
          /\ inst[i] = "running"
          /\ inst' = [inst EXCEPT ![i] = "terminated"]
          /\ vol' = [v \in Vol |-> IF at[v] = i THEN "available" ELSE vol[v]]
          /\ at' = [v \in Vol |-> IF at[v] = i THEN None ELSE at[v]]
    /\ UNCHANGED <<file, proc, commands, faults, history>>

Ec2Step == VolumeReady \/ InstanceStarts \/ InstanceEnds

CreateStep(p) == \/ CreateVolume(p) \/ CreateAnswerLost(p) \/ CreateRefused(p)
                 \/ Add(p) \/ AddRaises(p) \/ CreateDone(p)

AttachStep(p) == \/ ReadRole(p) \/ ReadRoleRaises(p)
                 \/ Describe(p) \/ DescribeRaises(p)
                 \/ AttachNext(p) \/ AttachRefused(p) \/ NextInstance(p) \/ AttachDone(p)

DeleteStep(p) == \/ ListRoles(p) \/ ListRole(p) \/ ListRaises(p) \/ Prompt(p)
                 \/ Refrain(p)
                 \/ GetRoles(p) \/ GetRolesRaises(p) \/ NextRole(p) \/ DeleteDone(p)
                 \/ ReadLetter(p) \/ ReadLetterRaises(p)
                 \/ Check(p) \/ CheckAborts(p) \/ CheckRaises(p)
                 \/ DeleteVolume(p) \/ DeleteRefused(p)
                 \/ RemoveRole(p) \/ RemoveRoleRaises(p)

StoreStep(p) == Truncate(p) \/ Write(p)

Command(p) == \/ \E r \in Role : \E n \in 1 .. MaxNumber[r] : Create(p, r, n)
              \/ \E r \in Role : Attach(p, r)
              \/ Delete(p)

Next == \/ \E p \in Proc : \/ Command(p) \/ CreateStep(p) \/ AttachStep(p)
                           \/ DeleteStep(p) \/ StoreStep(p) \/ Killed(p)
        \/ Ec2Step

Spec == Init /\ [][Next]_vars

-----------------------------------------------------------------------------
(* Properties                                                              *)

Status == {"unborn", "creating", "available", "in-use", "gone"}

\* The types of the variables; a volume that is attached to an instance of the
\* cluster is in use and the instance runs.
TypeOK == /\ vol \in [Vol -> Status]
          /\ at \in [Vol -> Inst \cup {None}]
          /\ inst \in [Inst -> {"new", "running", "terminated"}]
          /\ names \in [Role -> Seq(Seq(Own))] /\ torn \in BOOLEAN
          /\ {commands, faults, dead, resent} \subseteq Nat
          /\ undone \subseteq Vol /\ mixed \subseteq {"store", "attach"}
          /\ \A v \in Vol : at[v] # None => vol[v] = "in-use" /\ inst[at[v]] = "running"

Unaccounted ==
    {v \in Own : Exists(v)} \ (Named(names) \cup UNION {InHand(p) : p \in Proc})

\* A volume of the cluster that exists is in the file or in the hands of a
\* command, except for those of one instance for each create-storage that ended
\* early and one for each call that was sent again.  create() records the volumes
\* instance by instance for this.  It needs that no two commands updated the file
\* at a time and that none ended while the file was truncated.
LeaksAreBounded ==
    "store" \in mixed \/ Cardinality(Unaccounted) <= PerInstance * dead + resent

\* A volume in the file exists at EC2, unless a delete-storage is deleting the
\* volumes of its role and is going to remove that role, or had deleted it when it
\* ended early.  A delete-storage that looked at an empty file deletes what a
\* create-storage has put there while it asked.
RecordedVolumesExist ==
    \/ "store" \in mixed
    \/ \A v \in Named(names) : Exists(v) \/ v \in undone \/ \E p \in Proc : Deletes(p, v)

\* Storage.attach: "we take care not to attach multiple volumes to an instance":
\* the volumes attached to an instance are from one list in the file, holes
\* left by commands that ended early and instances that came and went included,
\* as long as no two commands attach, or update the file, at a time.
OneListPerInstance ==
    mixed = {} => \A i \in Inst, r \in Role :
        Cardinality({n \in DOMAIN names[r] : \E v \in Range(names[r][n]) : at[v] = i}) <= 1

\* delete-storage deletes "all storage volumes for CLUSTER" (cli.py), and none
\* of another cluster.
OthersVolumesStay == \A v \in Foreign : Exists(v)
=============================================================================
