------------------------- MODULE VolumeStoreProofs -------------------------
(***************************************************************************)
(* Theorems about VolumeStore and their proofs.                            *)
(*                                                                         *)
(* Every list of volumes is made once, by one create-storage, and the file *)
(* and the commands only pass it on: that (Provenance) holds whatever the  *)
(* commands do to each other.  What the file says of EC2 needs that no two *)
(* of them updated it at a time (Updates).  What attach-storage knows of   *)
(* the instances needs that no two attached at a time (Attachments).       *)
(***************************************************************************)
EXTENDS VolumeStore, FiniteSetTheorems, TLAPS

-----------------------------------------------------------------------------
(* Types                                                                   *)

List == Seq(Own) \ {<<>>}
Content == [Role -> Seq(List)]
Plan == UNION {[S -> Inst] : S \in SUBSET Nat}

Making == [cmd : {"create"}, pc : {"create"}, role : Role, left : Int, made : Seq(Own)]
Adding == [cmd : {"create"}, pc : {"store", "write"}, role : Role, left : Int,
           made : List, copy : Content]
Listing == [cmd : {"attach"}, pc : {"list"}, role : Role, free : SUBSET Inst]
Describing == [cmd : {"attach"}, pc : {"describe"}, role : Role, free : SUBSET Inst,
               lists : Seq(List)]
Attaching == [cmd : {"attach"}, pc : {"attach"}, role : Role, lists : Seq(List),
              plan : Plan, done : Nat]
Asking == [cmd : {"delete"}, pc : {"print", "prompt"}]
Printing == [cmd : {"delete"}, pc : {"listing"}, todo : SUBSET Role]
Choosing == [cmd : {"delete"}, pc : {"role"}, todo : Seq(Role), rest : Seq(Letters)]
Deleting == [cmd : {"delete"}, pc : {"check", "delete"}, todo : Seq(Role),
             rest : Seq(Letters) \ {<<>>}, ids : SUBSET Vol]
Removing == [cmd : {"delete"}, pc : {"store", "write"}, todo : Seq(Role),
             rest : Seq(Letters) \ {<<>>}, copy : Content]

ProcState == {Idle} \cup Making \cup Adding \cup Listing \cup Describing \cup Attaching
             \cup Asking \cup Printing \cup Choosing \cup Deleting \cup Removing

Fits(p) == /\ proc[p] \in ProcState
           /\ At(p, "create") => /\ Len(proc[p].made) <= PerInstance
                                 /\ proc[p].made # <<>> => proc[p].left # 0
           /\ At(p, "attach") => /\ DOMAIN proc[p].plan \subseteq DOMAIN proc[p].lists
                                 /\ IsInjective(proc[p].plan)

\* EC2's part: an attached volume is in use and its instance runs.
Ec2Types == /\ vol \in [Vol -> Status]
            /\ at \in [Vol -> Inst \cup {None}]
            /\ inst \in [Inst -> {"new", "running", "terminated"}]
            /\ \A v \in Vol : at[v] # None => vol[v] = "in-use" /\ inst[at[v]] = "running"

ProcTypes == DOMAIN proc = Proc /\ \A p \in Proc : Fits(p)

Types == /\ Ec2Types /\ ProcTypes
         /\ names \in Content /\ torn \in BOOLEAN
         /\ {commands, faults, dead, resent} \subseteq Nat
         /\ undone \subseteq Vol /\ mixed \subseteq {"store", "attach"}

-----------------------------------------------------------------------------
(* Provenance                                                              *)

\* The contents of the file a process has in memory, and the lists of one role.
HasCopy(p) == proc[p].pc \in {"store", "write"}
HasLists(p) == proc[p].pc \in {"describe", "attach"}

\* The lists of volumes of a content, each with its role.
Entry(content) == {e \in Role \X List : e[2] \in Range(content[e[1]])}

\* The lists, with their roles, that the file and the commands know.
Known(p) == IF HasCopy(p) THEN Entry(proc[p].copy)
            ELSE IF HasLists(p) THEN {e \in Role \X List : e[1] = proc[p].role
                                                   /\ e[2] \in Range(proc[p].lists)}
            ELSE {}
Recorded == Entry(names) \cup UNION {Known(p) : p \in Proc}

Meet(l, k) == Range(l) \cap Range(k) # {}

\* Two lists that share a volume are one list, of one role.
Apart == \A e, f \in Recorded : Meet(e[2], f[2]) => e = f

\* No list is in a content twice.
Once(content) == \A r \in Role : IsInjective(content[r])
AllOnce == Once(names) /\ \A p \in Proc : HasCopy(p) => Once(proc[p].copy)

\* Volumes that are being made are in no list yet, and in one command's hands.
FreshFor(p) == At(p, "create") =>
    /\ \A e \in Recorded : ~Meet(proc[p].made, e[2])
    /\ \A q \in Proc \ {p} : At(q, "create") => ~Meet(proc[p].made, proc[q].made)
Fresh == \A p \in Proc : FreshFor(p)

\* EC2 has made what a list or a command names.
Born == /\ \A e \in Recorded : \A v \in Range(e[2]) : vol[v] # "unborn"
        /\ \A p \in Proc : At(p, "create") => \A v \in Range(proc[p].made) : vol[v] # "unborn"

Provenance == Apart /\ AllOnce /\ Fresh /\ Born

-----------------------------------------------------------------------------
(* Updates of the file, one at a time                                      *)

\* Who has truncated the file is alone with it.
AloneAt(p) == At(p, "write") =>
    torn /\ names = Empty /\ \A q \in Proc \ {p} : proc[q].pc \notin Updating

\* What is about to be stored is the file and the change.
CopyAt(p) == At(p, "store") =>
    /\ proc[p].cmd = "create" => /\ proc[p].copy = Added(proc[p].role, proc[p].made)
                                 /\ Len(proc[p].made) = PerInstance
    /\ proc[p].cmd = "delete" => /\ Letter(p) \in Role /\ names[Letter(p)] # <<>>
                                 /\ proc[p].copy = Removed(Letter(p))

\* The volumes about to be stored are in no other list that is in use.
NewAt(p) == At(p, "store") /\ proc[p].cmd = "create" =>
    /\ \A e \in Entry(names) : ~Meet(proc[p].made, e[2])
    /\ \A q \in Proc : HasLists(q) => \A e \in Known(q) : ~Meet(proc[p].made, e[2])

\* delete-storage has deleted what it no longer lists.
GoneAt(p) ==
    /\ At(p, "check") => proc[p].ids = Stored(Letter(p))
    /\ At(p, "delete") => \/ Stored(Letter(p)) = {}
                          \/ /\ proc[p].ids \subseteq Stored(Letter(p))
                             /\ \A v \in Stored(Letter(p)) \ proc[p].ids : ~Exists(v)
    /\ At(p, "store") /\ proc[p].cmd = "delete" =>
            \A v \in Stored(Letter(p)) : ~Exists(v)

SoundAt(p) == AloneAt(p) /\ CopyAt(p) /\ NewAt(p) /\ GoneAt(p)
Sound == \A p \in Proc : SoundAt(p)

Standing(v) == Exists(v) \/ v \in undone \/ \E p \in Proc : Deletes(p, v)

\* What the file and the commands name exists, but for what is being or has been deleted.
Held == Named(names) \cup UNION {InHand(p) : p \in Proc}
AllStand == \A v \in Held : Standing(v)

Bounded == Cardinality(Unaccounted) <= PerInstance * dead + resent

Updates == "store" \notin mixed =>
    Sound /\ AllStand /\ Bounded

-----------------------------------------------------------------------------
(* Attachments, one command at a time                                      *)

\* The contents of the file that exist: its own, and what a process is about to store.
Files == {names} \cup {proc[p].copy : p \in {q \in Proc : HasCopy(q)}}

\* With the attachments a, the volumes attached to one instance are from one list of a role.
OneList(a, content) ==
    \A r \in Role : \A n, k \in DOMAIN content[r] :
        \A v \in Range(content[r][n]), w \in Range(content[r][k]) :
            a[v] = a[w] /\ a[v] # None => n = k

\* attach-storage in state s knows all volumes of its role that are attached.
KnowsOf(a, s, content) ==
    \A v \in Flat(content[s.role]) : a[v] # None => v \in Flat(s.lists)

\* The volumes attached to an instance that a list is for are from that list.
PlanHolds(a, s) ==
    \A n \in DOMAIN s.plan : \A v \in Flat(s.lists) :
        a[v] = s.plan[n] => v \in Range(s.lists[n])

\* Nobody has attached a volume that is not in the file yet.
LooseAt(p) == At(p, "create") \/ (At(p, "store") /\ proc[p].cmd = "create") =>
    \A v \in Range(proc[p].made) : at[v] = None

Attached == /\ \A content \in Files :
                  /\ OneList(at, content)
                  /\ \A p \in Proc : HasLists(p) => KnowsOf(at, proc[p], content)
            /\ \A p \in Proc : At(p, "attach") => PlanHolds(at, proc[p])
            /\ \A p \in Proc : LooseAt(p)

Attachments == mixed = {} => Attached

IInv == Types /\ Provenance /\ Updates /\ Attachments

-----------------------------------------------------------------------------
(* Facts on the constants and on the records of processes                  *)

LEMMA Constants ==
    /\ IsFiniteSet(Vol) /\ IsFiniteSet(Own) /\ Own \subseteq Vol /\ Vol \subseteq Nat
    /\ PerInstance \in Nat \ {0} /\ None \notin Inst /\ Role \subseteq Seq(Letters)
    /\ IsFiniteSet(Role)
<1>1. /\ IsFiniteSet(Vol) /\ IsFiniteSet(Role) /\ Vol \subseteq Nat /\ Own \subseteq Vol
      /\ PerInstance \in Nat \ {0} /\ None \notin Inst /\ Role \subseteq Seq(Letters)
  BY VolumeStoreAssumption DEF Own
<1> QED  BY <1>1, FS_Subset

LEMMA Shape ==
    ASSUME NEW s \in ProcState
    PROVE  /\ s.pc = "create" => s \in Making
           /\ s.pc \in {"store", "write"} => s \in Adding \cup Removing
           /\ s.pc = "list" => s \in Listing
           /\ s.pc = "describe" => s \in Describing
           /\ s.pc = "attach" => s \in Attaching
           /\ s.pc \in {"print", "prompt"} => s \in Asking
           /\ s.pc = "listing" => s \in Printing
           /\ s.pc = "role" => s \in Choosing
           /\ s.pc \in {"check", "delete"} => s \in Deleting
BY DEF ProcState, Idle, Making, Adding, Listing, Describing, Attaching, Asking, Printing,
       Choosing, Deleting, Removing

LEMMA CreateFields ==
    ASSUME NEW s \in ProcState, s.pc = "create"
    PROVE  /\ s \in Making /\ s.cmd = "create" /\ s.role \in Role /\ s.left \in Int
           /\ s.made \in Seq(Own) /\ Len(s.made) \in Nat
BY Shape DEF Making

LEMMA StoreFields ==
    ASSUME NEW s \in ProcState, s.pc \in {"store", "write"}
    PROVE  /\ s.copy \in Content /\ s.cmd \in {"create", "delete"}
           /\ s.cmd = "create" => /\ s \in Adding /\ s.role \in Role /\ s.left \in Int
                                  /\ s.made \in List
           /\ s.cmd = "delete" => /\ s \in Removing /\ s.todo \in Seq(Role)
                                  /\ s.rest \in Seq(Letters) \ {<<>>}
BY Shape DEF Adding, Removing

LEMMA AttachFields ==
    ASSUME NEW s \in ProcState
    PROVE  /\ s.pc = "list" => s.role \in Role /\ s.free \in SUBSET Inst
           /\ s.pc = "describe" => s.role \in Role /\ s.free \in SUBSET Inst
                                   /\ s.lists \in Seq(List)
           /\ s.pc = "attach" => /\ s \in Attaching /\ s.role \in Role /\ s.lists \in Seq(List)
                                 /\ s.plan \in [DOMAIN s.plan -> Inst] /\ s.done \in Nat
<1>1. /\ s.pc = "list" => s.role \in Role /\ s.free \in SUBSET Inst
      /\ s.pc = "describe" => s.role \in Role /\ s.free \in SUBSET Inst
                              /\ s.lists \in Seq(List)
  BY Shape DEF Listing, Describing
<1>2. s.pc = "attach" => /\ s \in Attaching /\ s.role \in Role /\ s.lists \in Seq(List)
                         /\ s.plan \in Plan /\ s.done \in Nat
  BY Shape DEF Attaching
<1>3. s.plan \in Plan => s.plan \in [DOMAIN s.plan -> Inst]
  BY DEF Plan
<1> QED  BY <1>1, <1>2, <1>3

LEMMA DeleteFields ==
    ASSUME NEW s \in ProcState
    PROVE  /\ s.pc \in {"print", "prompt", "listing"} => s.cmd = "delete"
           /\ s.pc = "listing" => s.todo \in SUBSET Role
           /\ s.pc = "role" => /\ s \in Choosing /\ s.cmd = "delete" /\ s.todo \in Seq(Role)
                               /\ s.rest \in Seq(Letters)
           /\ s.pc \in {"check", "delete"} => /\ s \in Deleting /\ s.cmd = "delete"
                                              /\ s.todo \in Seq(Role)
                                              /\ s.rest \in Seq(Letters) \ {<<>>}
                                              /\ s.ids \in SUBSET Vol
BY Shape DEF Asking, Printing, Choosing, Deleting

-----------------------------------------------------------------------------
(* The types are kept.                                                     *)

\* The steps of a process, by what they do to the state the invariants speak of.
Rests == {"idle", "list", "print", "listing", "prompt", "role"}

Alone(p) == \A q \in Proc \ {p} : proc'[q] = proc[q]
SameEc2 == UNCHANGED <<vol, at, inst>>
SameRest == UNCHANGED <<names, torn, dead, resent, undone, mixed>>

FitsTo(t) == /\ t \in ProcState
             /\ t.pc = "create" => Len(t.made) <= PerInstance /\ (t.made # <<>> => t.left # 0)
             /\ t.pc = "attach" => DOMAIN t.plan \subseteq DOMAIN t.lists /\ IsInjective(t.plan)

LEMMA BecomeTypes ==
    ASSUME Types, NEW p \in Proc, NEW t, FitsTo(t), Become(p, t)
    PROVE  ProcTypes' /\ proc'[p] = t /\ Alone(p)
<1>1. DOMAIN proc = Proc /\ \A q \in Proc : Fits(q)
  BY DEF Types, ProcTypes
<1>2. DOMAIN proc' = Proc /\ proc'[p] = t /\ Alone(p)
  BY <1>1 DEF Become, Alone
<1>3. ASSUME NEW q \in Proc
      PROVE  Fits(q)'
  <2>1. CASE q = p
    BY <1>2, <2>1 DEF Fits, FitsTo, At
  <2>2. CASE q # p
    BY <1>1, <1>2, <2>2 DEF Fits, Alone, At
  <2> QED  BY <2>1, <2>2
<1> QED  BY <1>2, <1>3 DEF ProcTypes

LEMMA GoesTypes ==
    ASSUME Types, NEW p \in Proc, NEW t, FitsTo(t), Goes(p, t) \/ Begins(p, t)
    PROVE  Types' /\ proc'[p] = t /\ Alone(p) /\ SameEc2 /\ SameRest
<1>1. /\ Become(p, t) /\ SameEc2 /\ SameRest
      /\ commands' \in {commands, commands + 1} /\ faults' = faults
  BY DEF Goes, Begins, SameEc2, SameRest, ec2, file, history
<1>2. ProcTypes' /\ proc'[p] = t /\ Alone(p)
  BY <1>1, BecomeTypes
<1>3. Ec2Types'
  BY <1>1 DEF Types, Ec2Types, SameEc2
<1>4. Types'
  BY <1>1, <1>2, <1>3 DEF Types, SameRest
<1> QED  BY <1>1, <1>2, <1>4

\* A process without a volume in its hands goes where it has none.
Quiet(p) == /\ Alone(p) /\ SameEc2 /\ SameRest
            /\ proc[p].pc \notin {"store", "write", "delete"}
            /\ At(p, "create") => proc[p].made = <<>>
            /\ \/ proc'[p].pc \in Rests
               \/ proc'[p].pc = "create" /\ proc'[p].made = <<>>

LEMMA QuietTypes ==
    ASSUME Types, NEW p \in Proc, NEW t \in ProcState, Goes(p, t) \/ Begins(p, t),
           proc[p].pc \notin {"store", "write", "delete"},
           At(p, "create") => proc[p].made = <<>>,
           t.pc \in Rests \/ (t.pc = "create" /\ t.made = <<>>)
    PROVE  Types' /\ Quiet(p)
<1>1. FitsTo(t)
  BY Constants DEF FitsTo, Rests
<1>2. Types' /\ proc'[p] = t /\ Alone(p) /\ SameEc2 /\ SameRest
  BY <1>1, GoesTypes
<1> QED  BY <1>2 DEF Quiet

LEMMA RestStates ==
    /\ Idle \in ProcState /\ Idle.pc = "idle"
    /\ \A r \in Role, n \in Int :
          [cmd |-> "create", pc |-> "create", role |-> r, left |-> n, made |-> <<>>] \in ProcState
    /\ \A pc \in {"print", "prompt"} : [cmd |-> "delete", pc |-> pc] \in ProcState
    /\ \A S \in SUBSET Role : [cmd |-> "delete", pc |-> "listing", todo |-> S] \in ProcState
<1>1. \A r \in Role, n \in Int :
         [cmd |-> "create", pc |-> "create", role |-> r, left |-> n, made |-> <<>>] \in Making
  BY DEF Making
<1>2. \A pc \in {"print", "prompt"} : [cmd |-> "delete", pc |-> pc] \in Asking
  BY DEF Asking
<1>3. \A S \in SUBSET Role : [cmd |-> "delete", pc |-> "listing", todo |-> S] \in Printing
  BY DEF Printing
<1> QED  BY <1>1, <1>2, <1>3 DEF ProcState, Idle

LEMMA CommandTypes ==
    ASSUME Types, NEW p \in Proc, Command(p)
    PROVE  Types' /\ Quiet(p)
<1>1. ASSUME NEW r \in Role, NEW n \in 1 .. MaxNumber[r], Create(p, r, n)
      PROVE  Types' /\ Quiet(p)
  <2> DEFINE t == [cmd |-> "create", pc |-> "create", role |-> r, left |-> n, made |-> <<>>]
  <2>1. Begins(p, t) /\ proc[p].pc = "idle"
    BY <1>1 DEF Create, Begins, At
  <2>2. t \in ProcState /\ t.pc = "create" /\ t.made = <<>>
    BY RestStates, VolumeStoreAssumption
  <2> HIDE DEF t
  <2> QED  BY <2>1, <2>2, QuietTypes DEF At
<1>2. ASSUME NEW r \in Role, Attach(p, r)
      PROVE  Types' /\ Quiet(p)
  <2> DEFINE free == {i \in Inst : RoleOf[i] = r /\ inst[i] = "running"}
             t == [cmd |-> "attach", pc |-> "list", role |-> r, free |-> free]
  <2>1. Begins(p, t) /\ proc[p].pc = "idle"
    BY <1>2 DEF Attach, Begins, At
  <2>2. free \in SUBSET Inst
    OBVIOUS
  <2> HIDE DEF free
  <2>3. t \in Listing /\ t.pc = "list"
    BY <2>2 DEF Listing
  <2> HIDE DEF t
  <2>4. t \in ProcState /\ t.pc \in Rests
    BY <2>3 DEF ProcState, Rests
  <2> QED  BY <2>1, <2>4, QuietTypes DEF At
<1>3. ASSUME Delete(p)
      PROVE  Types' /\ Quiet(p)
  <2> DEFINE t == [cmd |-> "delete", pc |-> "print"]
  <2>1. Begins(p, t) /\ proc[p].pc = "idle"
    BY <1>3 DEF Delete, Begins, At
  <2>2. t \in ProcState /\ t.pc \in Rests
    BY RestStates DEF Rests
  <2> HIDE DEF t
  <2> QED  BY <2>1, <2>2, QuietTypes DEF At
<1> QED  BY <1>1, <1>2, <1>3 DEF Command

LEMMA ToIdle ==
    ASSUME Types, NEW p \in Proc, Goes(p, Idle),
           proc[p].pc \notin {"store", "write", "delete"},
           At(p, "create") => proc[p].made = <<>>
    PROVE  Types' /\ Quiet(p)
BY RestStates, QuietTypes DEF Rests

LEMMA IsProcState ==
    ASSUME Types, NEW p \in Proc
    PROVE  proc[p] \in ProcState /\ Fits(p)
BY DEF Types, ProcTypes, Fits

LEMMA CreateDoneTypes ==
    ASSUME Types, NEW p \in Proc, CreateDone(p)
    PROVE  Types' /\ Quiet(p)
<1>1. At(p, "create") /\ proc[p].left = 0 /\ Goes(p, Idle)
  BY DEF CreateDone
<1>2. proc[p].made = <<>>
  BY <1>1, IsProcState DEF Fits
<1> QED  BY <1>1, <1>2, ToIdle DEF At

LEMMA AttachDoneTypes ==
    ASSUME Types, NEW p \in Proc, AttachDone(p) \/ Refrain(p) \/ DeleteDone(p)
    PROVE  Types' /\ Quiet(p)
BY ToIdle DEF AttachDone, Refrain, DeleteDone, At

LEMMA ListTypes ==
    ASSUME Types, NEW p \in Proc, ListRoles(p) \/ ListRole(p) \/ Prompt(p)
    PROVE  Types' /\ Quiet(p)
<1>1. CASE ListRoles(p)
  <2> DEFINE t == [cmd |-> "delete", pc |-> "listing", todo |-> {r \in Role : names[r] # <<>>}]
  <2>1. Goes(p, t) /\ At(p, "print")
    BY <1>1 DEF ListRoles
  <2>2. t \in ProcState /\ t.pc \in Rests
    BY RestStates DEF Rests
  <2> HIDE DEF t
  <2> QED  BY <2>1, <2>2, QuietTypes DEF At
<1>2. CASE ListRole(p)
  <2>1. PICK r \in proc[p].todo : Goes(p, [proc[p] EXCEPT !.todo = @ \ {r}])
    BY <1>2 DEF ListRole
  <2>2. proc[p].pc = "listing" /\ proc[p] \in Printing
    BY <1>2, IsProcState, Shape DEF ListRole, At
  <2> DEFINE t == [proc[p] EXCEPT !.todo = @ \ {r}]
  <2>3. t \in Printing
    BY <2>2 DEF Printing
  <2> HIDE DEF t
  <2>4. t \in ProcState /\ t.pc \in Rests
    BY <2>3 DEF ProcState, Printing, Rests
  <2> QED  BY <2>1, <2>2, <2>4, QuietTypes DEF At, t
<1>3. CASE Prompt(p)
  <2> DEFINE t == [cmd |-> "delete", pc |-> "prompt"]
  <2>1. Goes(p, t) /\ At(p, "listing")
    BY <1>3 DEF Prompt
  <2>2. t \in ProcState /\ t.pc \in Rests
    BY RestStates DEF Rests
  <2> HIDE DEF t
  <2> QED  BY <2>1, <2>2, QuietTypes DEF At
<1> QED  BY <1>1, <1>2, <1>3

LEMMA GetRolesTypes ==
    ASSUME Types, NEW p \in Proc, GetRoles(p)
    PROVE  Types' /\ Quiet(p)
<1> DEFINE S == {r \in Role : names[r] # <<>>}
<1>1. IsFiniteSet(S) /\ Cardinality(S) \in Nat
  BY Constants, FS_Subset, FS_CardinalityType
<1>2. PICK o \in SetToSeqs(S) :
         Goes(p, [cmd |-> "delete", pc |-> "role", todo |-> o, rest |-> <<>>])
  BY DEF GetRoles
<1>3. o \in [1 .. Cardinality(S) -> S]
  BY <1>2 DEF SetToSeqs
<1>S. S \subseteq Role
  OBVIOUS
<1> DEFINE t == [cmd |-> "delete", pc |-> "role", todo |-> o, rest |-> <<>>]
<1>6. At(p, "prompt") /\ Goes(p, t)
  BY <1>2 DEF GetRoles
<1> HIDE DEF S
<1>4. o \in Seq(S)
  BY <1>1, <1>3
<1>r. o \in Seq(Role)
  BY <1>4, <1>S
<1>t. t \in Choosing /\ t.pc = "role"
  BY <1>r DEF Choosing
<1> HIDE DEF t
<1>5. t \in ProcState /\ t.pc \in Rests
  BY <1>t DEF ProcState, Rests
<1> QED  BY <1>5, <1>6, QuietTypes DEF At

LEMMA NextRoleTypes ==
    ASSUME Types, NEW p \in Proc, NextRole(p)
    PROVE  Types' /\ Quiet(p)
<1> DEFINE t == [proc[p] EXCEPT !.todo = Tail(@), !.rest = Head(proc[p].todo)]
<1>1. At(p, "role") /\ proc[p].todo # <<>> /\ Goes(p, t)
  BY DEF NextRole
<1>2. proc[p] \in Choosing /\ proc[p].todo \in Seq(Role) /\ proc[p].todo # <<>>
  BY <1>1, IsProcState, DeleteFields DEF At
<1>3. Head(proc[p].todo) \in Seq(Letters) /\ Tail(proc[p].todo) \in Seq(Role)
  BY <1>2, Constants
<1>4. t \in Choosing /\ t.pc = "role"
  BY <1>2, <1>3 DEF Choosing
<1> HIDE DEF t
<1>5. t \in ProcState /\ t.pc \in Rests
  BY <1>4 DEF ProcState, Rests
<1> QED  BY <1>1, <1>5, QuietTypes DEF At

LEMMA CheckAbortsTypes ==
    ASSUME Types, NEW p \in Proc, CheckAborts(p)
    PROVE  Types' /\ Quiet(p)
<1> DEFINE t == [cmd |-> "delete", pc |-> "role", todo |-> proc[p].todo, rest |-> <<>>]
<1>1. At(p, "check") /\ Goes(p, t)
  BY DEF CheckAborts
<1>2. proc[p].todo \in Seq(Role)
  BY <1>1, IsProcState, DeleteFields DEF At
<1>4. t \in Choosing /\ t.pc = "role"
  BY <1>2 DEF Choosing
<1> HIDE DEF t
<1>3. t \in ProcState /\ t.pc \in Rests
  BY <1>4 DEF ProcState, Rests
<1> QED  BY <1>1, <1>3, QuietTypes DEF At

\* The process ends by an exception.
Ended(p) == /\ proc'[p] = Idle /\ Alone(p) /\ SameEc2 /\ UNCHANGED <<names, torn, resent>>
            /\ dead' = dead + (IF proc[p].pc \in {"create", "store", "write"}
                                 /\ proc[p].cmd = "create" THEN 1 ELSE 0)
            /\ undone' = undone \cup {v \in Vol : vol[v] = "gone" /\ Deletes(p, v)}
            /\ mixed' = mixed \cup (IF At(p, "write") THEN {"store"} ELSE {})

LEMMA EndsTypes ==
    ASSUME Types, NEW p \in Proc, Dies(p) \/ Killed(p)
    PROVE  Types' /\ Ended(p)
<1>1. Ends(p) /\ faults' \in Nat
  BY DEF Dies, Killed, Types
<1>2. /\ Become(p, Idle) /\ SameEc2 /\ UNCHANGED <<names, torn, resent, commands>>
      /\ dead' = dead + (IF proc[p].pc \in {"create", "store", "write"}
                           /\ proc[p].cmd = "create" THEN 1 ELSE 0)
      /\ undone' = undone \cup {v \in Vol : vol[v] = "gone" /\ Deletes(p, v)}
      /\ mixed' = mixed \cup (IF At(p, "write") THEN {"store"} ELSE {})
  BY <1>1 DEF Ends, SameEc2, ec2, file
<1>3. FitsTo(Idle)
  BY RestStates DEF FitsTo
<1>4. ProcTypes' /\ proc'[p] = Idle /\ Alone(p)
  BY <1>2, <1>3, BecomeTypes
<1>5. Ec2Types'
  BY <1>2 DEF Types, Ec2Types, SameEc2
<1>6. dead' \in Nat /\ mixed' \subseteq {"store", "attach"} /\ undone' \subseteq Vol
  <2> DEFINE one == IF proc[p].pc \in {"create", "store", "write"}
                         /\ proc[p].cmd = "create" THEN 1 ELSE 0
             new == IF At(p, "write") THEN {"store"} ELSE {}
  <2>1. dead \in Nat /\ mixed \subseteq {"store", "attach"}
    BY DEF Types
  <2>2. one \in Nat /\ new \subseteq {"store", "attach"}
    OBVIOUS
  <2>3. undone' \subseteq Vol
    BY <1>2 DEF Types
  <2>4. dead' = dead + one /\ mixed' = mixed \cup new
    BY <1>2
  <2> HIDE DEF one, new
  <2> QED  BY <2>1, <2>2, <2>3, <2>4
<1>7. Types'
  BY <1>1, <1>2, <1>4, <1>5, <1>6 DEF Types
<1> QED  BY <1>2, <1>4, <1>7 DEF Ended

\* A volume of the cluster that EC2 has just made.
NewVolume(v) == /\ v \in Own /\ vol[v] = "unborn" /\ vol' = [vol EXCEPT ![v] = "creating"]
                /\ UNCHANGED <<at, inst>>

LEMMA NewVolumeTypes ==
    ASSUME Types, NEW v, NewVolume(v)
    PROVE  /\ Ec2Types' /\ vol'[v] = "creating" /\ at[v] = None
           /\ \A w \in Vol \ {v} : vol'[w] = vol[w]
<1>1. v \in Vol /\ vol' = [vol EXCEPT ![v] = "creating"] /\ vol[v] = "unborn"
      /\ UNCHANGED <<at, inst>>
  BY Constants DEF NewVolume
<1>2. /\ vol \in [Vol -> Status] /\ at \in [Vol -> Inst \cup {None}]
      /\ inst \in [Inst -> {"new", "running", "terminated"}]
      /\ \A w \in Vol : at[w] # None => vol[w] = "in-use" /\ inst[at[w]] = "running"
  BY DEF Types, Ec2Types
<1>3. "creating" \in Status
  BY DEF Status
<1>4. vol' \in [Vol -> Status] /\ vol'[v] = "creating" /\ \A w \in Vol \ {v} : vol'[w] = vol[w]
  BY <1>1, <1>2, <1>3
<1>5. at[v] = None
  BY <1>1, <1>2
<1>6. Ec2Types'
  BY <1>1, <1>2, <1>4, <1>5 DEF Ec2Types
<1> QED  BY <1>4, <1>5, <1>6

MadeOne(p, v) ==
    /\ At(p, "create") /\ proc'[p].pc = "create" /\ proc'[p].made = Append(proc[p].made, v)
    /\ Alone(p) /\ NewVolume(v) /\ SameRest

LEMMA CreateVolumeTypes ==
    ASSUME Types, NEW p \in Proc, CreateVolume(p)
    PROVE  Types' /\ \E v \in Own : MadeOne(p, v)
<1>1. PICK v \in Own :
         /\ vol[v] = "unborn" /\ vol' = [vol EXCEPT ![v] = "creating"]
         /\ Become(p, [proc[p] EXCEPT !.made = Append(@, v)])
  BY DEF CreateVolume, NewId, Unborn
<1> DEFINE t == [proc[p] EXCEPT !.made = Append(@, v)]
<1>2. /\ At(p, "create") /\ proc[p].left > 0 /\ Len(proc[p].made) < PerInstance
      /\ UNCHANGED <<at, inst, commands, faults>> /\ SameRest
  BY DEF CreateVolume, MakesVolume, SameRest, file, history
<1>3. proc[p] \in Making /\ proc[p].made \in Seq(Own) /\ proc[p].left \in Int
  BY <1>2, IsProcState, CreateFields DEF At
<1>4. /\ Append(proc[p].made, v) \in Seq(Own)
      /\ Len(Append(proc[p].made, v)) = Len(proc[p].made) + 1 /\ Len(proc[p].made) \in Nat
  BY <1>3
<1>5. /\ t \in Making /\ t.pc = "create" /\ t.made = Append(proc[p].made, v)
      /\ t.left = proc[p].left
  BY <1>3, <1>4 DEF Making
<1>6. Become(p, t)
  BY <1>1
<1> HIDE DEF t
<1>7. FitsTo(t)
  <2>1. Len(t.made) <= PerInstance
    BY <1>2, <1>4, <1>5, Constants
  <2>2. t.left # 0
    BY <1>2, <1>5
  <2> QED  BY <1>5, <2>1, <2>2 DEF FitsTo, ProcState
<1>8. ProcTypes' /\ proc'[p] = t /\ Alone(p)
  BY <1>6, <1>7, BecomeTypes
<1>9. NewVolume(v)
  BY <1>1, <1>2 DEF NewVolume
<1>10. Types'
  BY <1>2, <1>8, <1>9, NewVolumeTypes DEF Types, SameRest
<1> QED  BY <1>1, <1>2, <1>5, <1>8, <1>9, <1>10 DEF MadeOne

\* The answer is lost.
LostOne(v) == /\ proc' = proc /\ NewVolume(v) /\ resent' = resent + 1
              /\ UNCHANGED <<names, torn, dead, undone, mixed>>

LEMMA CreateAnswerLostTypes ==
    ASSUME Types, NEW p \in Proc, CreateAnswerLost(p)
    PROVE  Types' /\ \E v \in Own : LostOne(v)
<1>1. PICK v \in Own : vol[v] = "unborn" /\ vol' = [vol EXCEPT ![v] = "creating"]
  BY DEF CreateAnswerLost, NewId, Unborn
<1>2. /\ UNCHANGED <<at, inst, proc, commands, names, torn, dead, undone, mixed>>
      /\ faults' = faults + 1 /\ resent' = resent + 1
  BY DEF CreateAnswerLost, file
<1>3. NewVolume(v)
  BY <1>1, <1>2 DEF NewVolume
<1>4. ProcTypes'
  BY <1>2 DEF Types, ProcTypes, Fits, At
<1>5. Types'
  BY <1>2, <1>3, <1>4, NewVolumeTypes DEF Types
<1> QED  BY <1>1, <1>2, <1>3, <1>5 DEF LostOne

\* The volumes of one instance are added to what was loaded.
AddsOne(p) ==
    /\ At(p, "create") /\ ~torn /\ Len(proc[p].made) = PerInstance
    /\ proc[p].made \in List /\ proc[p].role \in Role
    /\ proc'[p].pc = "store" /\ proc'[p].cmd = "create" /\ proc'[p].role = proc[p].role
    /\ proc'[p].made = proc[p].made /\ proc'[p].copy = Added(proc[p].role, proc[p].made)
    /\ Alone(p) /\ SameEc2 /\ SameRest

LEMMA NonEmpty ==
    ASSUME NEW S, NEW s \in Seq(S), Len(s) \in Nat \ {0}
    PROVE  s \in Seq(S) \ {<<>>}
<1>1. Len(<<>>) = 0
  OBVIOUS
<1> QED  BY <1>1

LEMMA AddedContent ==
    ASSUME NEW content \in Content, NEW r \in Role, NEW l \in List
    PROVE  LET c == [content EXCEPT ![r] = Append(@, l)]
           IN  /\ c \in Content /\ c[r] = Append(content[r], l)
               /\ \A s \in Role \ {r} : c[s] = content[s]
<1>1. content \in [Role -> Seq(List)] /\ content[r] \in Seq(List)
  BY DEF Content
<1>2. Append(content[r], l) \in Seq(List)
  BY <1>1
<1> QED  BY <1>1, <1>2 DEF Content

LEMMA AddTypes ==
    ASSUME Types, NEW p \in Proc, Add(p)
    PROVE  Types' /\ AddsOne(p)
<1> DEFINE c == Added(proc[p].role, proc[p].made)
           t == [cmd |-> "create", pc |-> "store", role |-> proc[p].role,
                 left |-> proc[p].left, made |-> proc[p].made, copy |-> c]
<1>1. At(p, "create") /\ Len(proc[p].made) = PerInstance /\ ~torn /\ Goes(p, t)
  BY DEF Add, Load
<1>2. proc[p].role \in Role /\ proc[p].left \in Int /\ proc[p].made \in Seq(Own)
  BY <1>1, IsProcState, CreateFields DEF At
<1>3. proc[p].made \in List
  BY <1>1, <1>2, Constants, NonEmpty DEF List
<1>4. c \in Content
  BY <1>2, <1>3, AddedContent DEF Added, Types
<1> HIDE DEF c
<1>5. /\ t \in Adding /\ t.pc = "store" /\ t.cmd = "create" /\ t.role = proc[p].role
      /\ t.made = proc[p].made /\ t.copy = c
  BY <1>2, <1>3, <1>4 DEF Adding
<1> HIDE DEF t
<1>6. FitsTo(t)
  BY <1>5 DEF FitsTo, ProcState
<1>7. Types' /\ proc'[p] = t /\ Alone(p) /\ SameEc2 /\ SameRest
  BY <1>1, <1>6, GoesTypes
<1> QED  BY <1>1, <1>2, <1>3, <1>5, <1>7 DEF AddsOne, c

\* The file is truncated.
Truncates(p) ==
    /\ At(p, "store") /\ proc'[p].pc = "write" /\ proc'[p].cmd = proc[p].cmd
    /\ proc'[p].copy = proc[p].copy /\ proc[p].copy \in Content
    /\ Alone(p) /\ SameEc2 /\ UNCHANGED <<dead, resent, undone>>
    /\ names' = Empty /\ torn' = TRUE
    /\ mixed' = mixed \cup (IF Others(p, Updating) THEN {"store"} ELSE {})

LEMMA EmptyContent == Empty \in Content /\ \A r \in Role : Empty[r] = <<>>
BY DEF Empty, Content

LEMMA TruncateTypes ==
    ASSUME Types, NEW p \in Proc, Truncate(p)
    PROVE  Types' /\ Truncates(p)
<1> DEFINE t == [proc[p] EXCEPT !.pc = "write"]
           new == IF Others(p, Updating) THEN {"store"} ELSE {}
<1>1. /\ At(p, "store") /\ Become(p, t) /\ SameEc2 /\ names' = Empty /\ torn' = TRUE
      /\ mixed' = mixed \cup new /\ UNCHANGED <<commands, faults, dead, resent, undone>>
  BY DEF Truncate, SameEc2, ec2
<1>2. proc[p] \in Adding \cup Removing /\ proc[p].copy \in Content
  BY <1>1, IsProcState, Shape, StoreFields DEF At
<1>3. /\ t \in Adding \cup Removing /\ t.pc = "write" /\ t.cmd = proc[p].cmd
      /\ t.copy = proc[p].copy
  BY <1>2 DEF Adding, Removing
<1>4. new \subseteq {"store", "attach"}
  OBVIOUS
<1> HIDE DEF t
<1>5. FitsTo(t)
  BY <1>3 DEF FitsTo, ProcState
<1>6. ProcTypes' /\ proc'[p] = t /\ Alone(p)
  BY <1>1, <1>5, BecomeTypes
<1>7. Ec2Types'
  BY <1>1 DEF Types, Ec2Types, SameEc2
<1>8. mixed' \subseteq {"store", "attach"}
  <2>1. mixed \subseteq {"store", "attach"} /\ mixed' = mixed \cup new
    BY <1>1 DEF Types
  <2> HIDE DEF new
  <2> QED  BY <2>1, <1>4
<1>9. Types'
  BY <1>1, <1>6, <1>7, <1>8, EmptyContent DEF Types
<1> QED  BY <1>1, <1>2, <1>3, <1>6, <1>9 DEF Truncates

\* The file is written.
Writes(p) ==
    /\ At(p, "write") /\ proc[p].copy \in Content
    /\ Alone(p) /\ SameEc2 /\ UNCHANGED <<dead, resent, undone, mixed>>
    /\ \/ names' = proc[p].copy /\ torn' = FALSE
       \/ names' = Empty /\ torn' = TRUE /\ names # Empty
    /\ \/ proc'[p].pc = "create" /\ proc'[p].made = <<>>
       \/ proc'[p].pc = "role"

LEMMA AfterWriteFits ==
    ASSUME Types, NEW p \in Proc, At(p, "write")
    PROVE  /\ FitsTo(AfterWrite(p))
           /\ \/ AfterWrite(p).pc = "create" /\ AfterWrite(p).made = <<>>
              \/ AfterWrite(p).pc = "role"
<1>1. proc[p] \in ProcState /\ proc[p].pc = "write" /\ proc[p].cmd \in {"create", "delete"}
  BY IsProcState, StoreFields DEF At
<1>2. CASE proc[p].cmd = "delete"
  <2> DEFINE t == [cmd |-> "delete", pc |-> "role", todo |-> proc[p].todo,
                   rest |-> Tail(proc[p].rest)]
  <2>1. AfterWrite(p) = t
    BY <1>2 DEF AfterWrite
  <2>2. proc[p].todo \in Seq(Role) /\ proc[p].rest \in Seq(Letters) /\ proc[p].rest # <<>>
    BY <1>1, <1>2, StoreFields
  <2>3. Tail(proc[p].rest) \in Seq(Letters)
    BY <2>2
  <2>4. t \in Choosing /\ t.pc = "role"
    BY <2>2, <2>3 DEF Choosing
  <2> HIDE DEF t
  <2> QED  BY <2>1, <2>4 DEF FitsTo, ProcState
<1>3. CASE proc[p].cmd = "create"
  <2> DEFINE t == [cmd |-> "create", pc |-> "create", role |-> proc[p].role,
                   left |-> proc[p].left - 1, made |-> <<>>]
  <2>1. AfterWrite(p) = t
    BY <1>3 DEF AfterWrite
  <2>2. proc[p].role \in Role /\ proc[p].left - 1 \in Int
    BY <1>1, <1>3, StoreFields
  <2>3. t \in ProcState /\ t.pc = "create" /\ t.made = <<>>
    BY <2>2, RestStates
  <2> HIDE DEF t
  <2> QED  BY <2>1, <2>3, Constants DEF FitsTo
<1> QED  BY <1>1, <1>2, <1>3

LEMMA WriteTypes ==
    ASSUME Types, NEW p \in Proc, Write(p)
    PROVE  Types' /\ Writes(p)
<1>1. /\ At(p, "write") /\ Become(p, AfterWrite(p)) /\ SameEc2
      /\ UNCHANGED <<commands, faults, dead, resent, undone, mixed>>
      /\ Written(proc[p].copy)
  BY DEF Write, SameEc2, ec2, history
<1>2. \/ names' = proc[p].copy /\ torn' = FALSE
      \/ names' = Empty /\ torn' = TRUE /\ names # Empty
  BY <1>1 DEF Written
<1>3. proc[p].copy \in Content
  BY <1>1, IsProcState, StoreFields DEF At
<1>4. names' \in Content /\ torn' \in BOOLEAN
  BY <1>2, <1>3, EmptyContent
<1>5. /\ ProcTypes' /\ proc'[p] = AfterWrite(p) /\ Alone(p)
      /\ \/ AfterWrite(p).pc = "create" /\ AfterWrite(p).made = <<>>
         \/ AfterWrite(p).pc = "role"
  BY <1>1, BecomeTypes, AfterWriteFits
<1>6. Ec2Types'
  BY <1>1 DEF Types, Ec2Types, SameEc2
<1>7. Types'
  BY <1>1, <1>4, <1>5, <1>6 DEF Types
<1>8. \/ proc'[p].pc = "create" /\ proc'[p].made = <<>>
      \/ proc'[p].pc = "role"
  BY <1>5
<1> QED  BY <1>1, <1>2, <1>3, <1>5, <1>7, <1>8 DEF Writes

\* attach-storage has read the lists of its role.
Reads(p) ==
    /\ At(p, "list") /\ ~torn /\ proc[p].role \in Role
    /\ proc'[p].pc = "describe" /\ proc'[p].role = proc[p].role
    /\ proc'[p].lists = names[proc[p].role]
    /\ Alone(p) /\ SameEc2 /\ SameRest

LEMMA ReadRoleTypes ==
    ASSUME Types, NEW p \in Proc, ReadRole(p)
    PROVE  Types' /\ (Quiet(p) \/ Reads(p))
<1>1. At(p, "list") /\ ~torn /\ proc[p].role \in Role /\ proc[p].free \in SUBSET Inst
  BY IsProcState, AttachFields DEF ReadRole, At
<1>2. CASE names[proc[p].role] = <<>>
  <2>1. Goes(p, Idle)
    BY <1>2 DEF ReadRole
  <2> QED  BY <1>1, <2>1, ToIdle DEF At
<1>3. CASE names[proc[p].role] # <<>>
  <2> DEFINE t == [cmd |-> "attach", pc |-> "describe", role |-> proc[p].role,
                   free |-> proc[p].free, lists |-> names[proc[p].role]]
  <2>1. Goes(p, t)
    BY <1>3 DEF ReadRole
  <2>2. names[proc[p].role] \in Seq(List)
    BY <1>1 DEF Types, Content
  <2>3. /\ t \in Describing /\ t.pc = "describe" /\ t.role = proc[p].role
        /\ t.lists = names[proc[p].role]
    BY <1>1, <2>2 DEF Describing
  <2> HIDE DEF t
  <2>4. FitsTo(t)
    BY <2>3 DEF FitsTo, ProcState
  <2>5. Types' /\ proc'[p] = t /\ Alone(p) /\ SameEc2 /\ SameRest
    BY <2>1, <2>4, GoesTypes
  <2> QED  BY <1>1, <2>3, <2>5 DEF Reads
<1> QED  BY <1>2, <1>3

\* attach-storage has made its plan; to none of its instances is one of the volumes
\* it knows attached.
MakesPlan(p) ==
    /\ At(p, "describe") /\ proc[p].role \in Role /\ proc[p].lists \in Seq(List)
    /\ proc'[p].pc = "attach" /\ proc'[p].role = proc[p].role
    /\ proc'[p].lists = proc[p].lists
    /\ \A n \in DOMAIN proc'[p].plan : \A v \in Flat(proc[p].lists) : at[v] # proc'[p].plan[n]
    /\ Alone(p) /\ SameEc2 /\ SameRest

LEMMA DescribeTypes ==
    ASSUME Types, NEW p \in Proc, Describe(p)
    PROVE  Types' /\ MakesPlan(p)
<1>1. /\ At(p, "describe") /\ proc[p].role \in Role /\ proc[p].lists \in Seq(List)
      /\ proc[p].free \in SUBSET Inst
  BY IsProcState, AttachFields DEF Describe, At
<1> DEFINE lists == proc[p].lists
           okay == FreeLists(lists)
           insts == FreeInstances(proc[p].free, lists)
           first == {n \in okay : Cardinality({k \in okay : k < n}) < Cardinality(insts)}
<1>2. PICK plan \in Injection(first, insts) :
         Goes(p, [cmd |-> "attach", pc |-> "attach", role |-> proc[p].role,
                  lists |-> lists, plan |-> plan, done |-> 0])
  BY DEF Describe, Plans
<1>3. /\ first \subseteq DOMAIN lists /\ insts \subseteq Inst
      /\ \A i \in insts : \A v \in Flat(lists) : at[v] # i
  BY <1>1 DEF FreeLists, FreeInstances
<1>4. plan \in [first -> insts] /\ IsInjective(plan)
  BY <1>2 DEF Injection
<1> DEFINE t == [cmd |-> "attach", pc |-> "attach", role |-> proc[p].role,
                 lists |-> lists, plan |-> plan, done |-> 0]
<1>5. Goes(p, t)
  BY <1>2
<1> HIDE DEF lists, first, insts
<1>6. /\ DOMAIN plan = first /\ plan \in [first -> Inst]
      /\ \A n \in first : plan[n] \in insts
  BY <1>3, <1>4
<1>7. first \in SUBSET Nat
  BY <1>1, <1>3 DEF lists
<1>8. plan \in Plan
  BY <1>6, <1>7 DEF Plan
<1>9. /\ t \in Attaching /\ t.pc = "attach" /\ t.role = proc[p].role /\ t.lists = lists
      /\ t.plan = plan
  BY <1>1, <1>8 DEF Attaching, lists
<1> HIDE DEF t
<1>10. FitsTo(t)
  BY <1>3, <1>4, <1>6, <1>9 DEF FitsTo, ProcState
<1>11. Types' /\ proc'[p] = t /\ Alone(p) /\ SameEc2 /\ SameRest
  BY <1>5, <1>10, GoesTypes
<1>12. \A n \in DOMAIN proc'[p].plan : \A v \in Flat(lists) : at[v] # proc'[p].plan[n]
  BY <1>3, <1>6, <1>9, <1>11
<1> QED  BY <1>1, <1>9, <1>11, <1>12 DEF MakesPlan, lists

\* A volume is attached to the instance that is planned for its list.
AttachesOne(p, n, v) ==
    /\ At(p, "attach") /\ n \in DOMAIN proc[p].plan /\ v \in Range(proc[p].lists[n])
    /\ n \in DOMAIN proc[p].lists /\ v \in Own /\ proc[p].plan[n] \in Inst
    /\ vol[v] = "available" /\ inst[proc[p].plan[n]] = "running"
    /\ vol' = [vol EXCEPT ![v] = "in-use"] /\ at' = [at EXCEPT ![v] = proc[p].plan[n]]
    /\ proc'[p].pc = "attach" /\ proc'[p].role = proc[p].role
    /\ proc'[p].lists = proc[p].lists /\ proc'[p].plan = proc[p].plan
    /\ Alone(p) /\ UNCHANGED <<inst, names, torn, dead, resent, undone>>
    /\ mixed' = mixed \cup (IF Others(p, {"describe", "attach"}) THEN {"attach"} ELSE {})

LEMMA AttachNextTypes ==
    ASSUME Types, NEW p \in Proc, AttachNext(p)
    PROVE  Types' /\ \E n \in DOMAIN proc[p].plan, v \in Own : AttachesOne(p, n, v)
<1> DEFINE t == [proc[p] EXCEPT !.done = @ + 1]
           new == IF Others(p, {"describe", "attach"}) THEN {"attach"} ELSE {}
<1>1. /\ At(p, "attach") /\ Become(p, t) /\ mixed' = mixed \cup new
      /\ UNCHANGED <<inst, names, torn, commands, faults, dead, resent, undone>>
  BY DEF AttachNext, file
<1>2. PICK n \in DOMAIN proc[p].plan :
         /\ proc[p].done < Len(proc[p].lists[n])
         /\ Attachable(proc[p].plan[n], proc[p].lists[n][proc[p].done + 1])
         /\ vol' = [vol EXCEPT ![proc[p].lists[n][proc[p].done + 1]] = "in-use"]
         /\ at' = [at EXCEPT ![proc[p].lists[n][proc[p].done + 1]] = proc[p].plan[n]]
  BY DEF AttachNext, Current
<1> DEFINE v == proc[p].lists[n][proc[p].done + 1]
           i == proc[p].plan[n]
<1>3. /\ proc[p] \in Attaching /\ proc[p].lists \in Seq(List)
      /\ proc[p].plan \in [DOMAIN proc[p].plan -> Inst] /\ proc[p].done \in Nat
      /\ DOMAIN proc[p].plan \subseteq DOMAIN proc[p].lists /\ IsInjective(proc[p].plan)
  BY <1>1, IsProcState, AttachFields DEF At, Fits
<1>4. i \in Inst /\ n \in DOMAIN proc[p].lists /\ proc[p].lists[n] \in List
  BY <1>3
<1>5. proc[p].lists[n] \in Seq(Own)
  BY <1>4 DEF List
<1>6. proc[p].done + 1 \in DOMAIN proc[p].lists[n]
  <2> DEFINE l == proc[p].lists[n]
  <2>1. DOMAIN l = 1 .. Len(l) /\ Len(l) \in Nat
    BY <1>5
  <2>2. proc[p].done \in Nat /\ proc[p].done < Len(l)
    BY <1>2, <1>3
  <2> HIDE DEF l
  <2>3. proc[p].done + 1 \in DOMAIN l
    BY <2>1, <2>2
  <2> QED  BY <2>3 DEF l
<1>7. v \in Own /\ v \in Range(proc[p].lists[n])
  BY <1>5, <1>6 DEF Range
<1>8. /\ vol[v] = "available" /\ inst[i] = "running"
      /\ vol' = [vol EXCEPT ![v] = "in-use"] /\ at' = [at EXCEPT ![v] = i]
  BY <1>2 DEF Attachable
<1>9. /\ t \in Attaching /\ t.pc = "attach" /\ t.role = proc[p].role
      /\ t.lists = proc[p].lists /\ t.plan = proc[p].plan
  BY <1>1, <1>3 DEF Attaching, At
<1>10. new \subseteq {"store", "attach"}
  OBVIOUS
<1> HIDE DEF t, new
<1>11. FitsTo(t)
  BY <1>3, <1>9 DEF FitsTo, ProcState
<1>12. ProcTypes' /\ proc'[p] = t /\ Alone(p)
  BY <1>1, <1>11, BecomeTypes
<1> HIDE DEF v, i
<1>13. Ec2Types'
  <2>1. /\ vol \in [Vol -> Status] /\ at \in [Vol -> Inst \cup {None}]
        /\ inst \in [Inst -> {"new", "running", "terminated"}] /\ v \in Vol
        /\ \A w \in Vol : at[w] # None => vol[w] = "in-use" /\ inst[at[w]] = "running"
        /\ "in-use" \in Status
    BY <1>7, Constants DEF Types, Ec2Types, Status
  <2>2. /\ vol' \in [Vol -> Status] /\ at' \in [Vol -> Inst \cup {None}]
        /\ vol'[v] = "in-use" /\ at'[v] = i
        /\ \A w \in Vol \ {v} : vol'[w] = vol[w] /\ at'[w] = at[w]
    BY <1>4, <1>8, <2>1
  <2>3. \A w \in Vol : at'[w] # None => vol'[w] = "in-use" /\ inst'[at'[w]] = "running"
    BY <1>1, <1>8, <2>1, <2>2
  <2> QED  BY <1>1, <2>1, <2>2, <2>3 DEF Ec2Types
<1>14. mixed' \subseteq {"store", "attach"}
  BY <1>1, <1>10 DEF Types
<1>15. Types'
  BY <1>1, <1>12, <1>13, <1>14 DEF Types
<1>16. AttachesOne(p, n, v)
  BY <1>1, <1>4, <1>7, <1>8, <1>9, <1>12 DEF AttachesOne, new, i
<1> QED  BY <1>7, <1>15, <1>16

\* The next list of the plan.
TakesNext(p) ==
    /\ At(p, "attach") /\ proc[p].role \in Role
    /\ proc'[p].pc = "attach" /\ proc'[p].role = proc[p].role
    /\ proc'[p].lists = proc[p].lists
    /\ \A n \in DOMAIN proc'[p].plan : /\ n \in DOMAIN proc[p].plan
                                       /\ proc'[p].plan[n] = proc[p].plan[n]
    /\ Alone(p) /\ SameEc2 /\ SameRest

LEMMA NextInstanceTypes ==
    ASSUME Types, NEW p \in Proc, NextInstance(p)
    PROVE  Types' /\ TakesNext(p)
<1>1. PICK n \in DOMAIN proc[p].plan :
         Goes(p, [proc[p] EXCEPT !.done = 0, !.plan = Restrict(@, DOMAIN @ \ {n})])
  BY DEF NextInstance, Current
<1>2. /\ At(p, "attach") /\ proc[p] \in Attaching /\ proc[p].lists \in Seq(List)
      /\ proc[p].role \in Role
      /\ proc[p].plan \in [DOMAIN proc[p].plan -> Inst] /\ proc[p].plan \in Plan
      /\ DOMAIN proc[p].plan \subseteq DOMAIN proc[p].lists /\ IsInjective(proc[p].plan)
  <2>1. At(p, "attach")
    BY DEF NextInstance
  <2>2. /\ proc[p] \in Attaching /\ proc[p].lists \in Seq(List)
        /\ proc[p].role \in Role /\ proc[p].plan \in [DOMAIN proc[p].plan -> Inst]
        /\ DOMAIN proc[p].plan \subseteq DOMAIN proc[p].lists /\ IsInjective(proc[p].plan)
    BY <2>1, IsProcState, AttachFields DEF At, Fits
  <2>3. proc[p].plan \in Plan
    BY <2>2 DEF Attaching
  <2> QED  BY <2>1, <2>2, <2>3
<1> DEFINE S == DOMAIN proc[p].plan \ {n}
           plan == Restrict(proc[p].plan, S)
           t == [proc[p] EXCEPT !.done = 0, !.plan = plan]
<1>3. Goes(p, t)
  BY <1>1
<1>4. /\ plan = [k \in S |-> proc[p].plan[k]] /\ S \subseteq DOMAIN proc[p].plan
      /\ S \subseteq Nat
  BY <1>2 DEF Restrict, Plan
<1> HIDE DEF S, plan
<1>5. /\ DOMAIN plan = S /\ plan \in [S -> Inst] /\ S \in SUBSET Nat
      /\ \A k \in S : plan[k] = proc[p].plan[k]
  BY <1>2, <1>4
<1>6. plan \in Plan
  BY <1>5 DEF Plan
<1>7. IsInjective(plan)
  BY <1>2, <1>4, <1>5 DEF IsInjective
<1>8. /\ t \in Attaching /\ t.pc = "attach" /\ t.role = proc[p].role
      /\ t.lists = proc[p].lists /\ t.plan = plan
  BY <1>2, <1>6 DEF Attaching, At
<1> HIDE DEF t
<1>9. FitsTo(t)
  BY <1>2, <1>4, <1>5, <1>7, <1>8 DEF FitsTo, ProcState
<1>10. Types' /\ proc'[p] = t /\ Alone(p) /\ SameEc2 /\ SameRest
  BY <1>3, <1>9, GoesTypes
<1> QED  BY <1>2, <1>4, <1>5, <1>8, <1>10 DEF TakesNext

\* delete-storage has read what the file has for a letter.
ReadsLetter(p) ==
    /\ At(p, "role") /\ ~torn
    /\ proc'[p].pc = "check" /\ proc'[p].rest = proc[p].rest
    /\ proc'[p].ids = Stored(Letter(p))
    /\ Alone(p) /\ SameEc2 /\ SameRest

LEMMA StoredVolumes ==
    ASSUME names \in Content, NEW r
    PROVE  Stored(r) \subseteq Own
<1>1. CASE r \in Role
  <2>1. names[r] \in Seq(List)
    BY <1>1 DEF Content
  <2>2. \A n \in DOMAIN names[r] : names[r][n] \in Seq(Own)
    BY <2>1 DEF List
  <2>3. \A n \in DOMAIN names[r] : Range(names[r][n]) \subseteq Own
    BY <2>2 DEF Range
  <2> QED  BY <1>1, <2>3 DEF Stored, Flat
<1> QED  BY <1>1 DEF Stored

LEMMA ReadLetterTypes ==
    ASSUME Types, NEW p \in Proc, ReadLetter(p)
    PROVE  Types' /\ ReadsLetter(p)
<1> DEFINE t == [cmd |-> "delete", pc |-> "check", todo |-> proc[p].todo,
                 rest |-> proc[p].rest, ids |-> Stored(Letter(p))]
<1>1. At(p, "role") /\ ~torn /\ proc[p].rest # <<>> /\ Goes(p, t)
  BY DEF ReadLetter
<1>2. proc[p].todo \in Seq(Role) /\ proc[p].rest \in Seq(Letters)
  BY <1>1, IsProcState, DeleteFields DEF At
<1>3. Stored(Letter(p)) \in SUBSET Vol
  BY Constants, StoredVolumes DEF Types
<1>4. /\ t \in Deleting /\ t.pc = "check" /\ t.rest = proc[p].rest
      /\ t.ids = Stored(Letter(p))
  BY <1>1, <1>2, <1>3 DEF Deleting
<1> HIDE DEF t
<1>5. FitsTo(t)
  BY <1>4 DEF FitsTo, ProcState
<1>6. Types' /\ proc'[p] = t /\ Alone(p) /\ SameEc2 /\ SameRest
  BY <1>1, <1>5, GoesTypes
<1> QED  BY <1>1, <1>4, <1>6 DEF ReadsLetter

\* delete-storage has found the volumes available.
Checks(p) ==
    /\ At(p, "check") /\ proc'[p].pc = "delete" /\ proc'[p].rest = proc[p].rest
    /\ proc'[p].ids = Described(proc[p].ids)
    /\ Alone(p) /\ SameEc2 /\ SameRest

LEMMA CheckTypes ==
    ASSUME Types, NEW p \in Proc, Check(p)
    PROVE  Types' /\ Checks(p)
<1> DEFINE t == [cmd |-> "delete", pc |-> "delete", todo |-> proc[p].todo,
                 rest |-> proc[p].rest, ids |-> Described(proc[p].ids)]
<1>1. At(p, "check") /\ Goes(p, t)
  BY DEF Check
<1>2. /\ proc[p].todo \in Seq(Role) /\ proc[p].rest \in Seq(Letters) \ {<<>>}
      /\ proc[p].ids \in SUBSET Vol
  BY <1>1, IsProcState, DeleteFields DEF At
<1>3. Described(proc[p].ids) \in SUBSET Vol
  BY <1>2 DEF Described
<1>4. /\ t \in Deleting /\ t.pc = "delete" /\ t.rest = proc[p].rest
      /\ t.ids = Described(proc[p].ids)
  BY <1>1, <1>2, <1>3 DEF Deleting
<1> HIDE DEF t
<1>5. FitsTo(t)
  BY <1>4 DEF FitsTo, ProcState
<1>6. Types' /\ proc'[p] = t /\ Alone(p) /\ SameEc2 /\ SameRest
  BY <1>1, <1>5, GoesTypes
<1> QED  BY <1>1, <1>4, <1>6 DEF Checks

\* A volume is deleted.
DeletesOne(p, v) ==
    /\ At(p, "delete") /\ v \in proc[p].ids /\ v \in Vol /\ vol[v] = "available"
    /\ vol' = [vol EXCEPT ![v] = "gone"] /\ UNCHANGED <<at, inst>>
    /\ proc'[p].pc = "delete" /\ proc'[p].rest = proc[p].rest
    /\ proc'[p].ids = proc[p].ids \ {v}
    /\ Alone(p) /\ SameRest

LEMMA DeleteVolumeTypes ==
    ASSUME Types, NEW p \in Proc, DeleteVolume(p)
    PROVE  Types' /\ \E v \in Vol : DeletesOne(p, v)
<1>1. PICK v \in proc[p].ids :
         /\ vol[v] = "available" /\ vol' = [vol EXCEPT ![v] = "gone"]
         /\ Become(p, [proc[p] EXCEPT !.ids = @ \ {v}])
  BY DEF DeleteVolume
<1> DEFINE t == [proc[p] EXCEPT !.ids = @ \ {v}]
<1>2. At(p, "delete") /\ UNCHANGED <<at, inst, commands, faults>> /\ SameRest
  BY DEF DeleteVolume, SameRest, file, history
<1>3. proc[p] \in Deleting /\ proc[p].ids \in SUBSET Vol
  BY <1>2, IsProcState, DeleteFields DEF At
<1>4. /\ t \in Deleting /\ t.pc = "delete" /\ t.rest = proc[p].rest
      /\ t.ids = proc[p].ids \ {v}
  BY <1>2, <1>3 DEF Deleting, At
<1>5. Become(p, t)
  BY <1>1
<1> HIDE DEF t
<1>6. FitsTo(t)
  BY <1>4 DEF FitsTo, ProcState
<1>7. ProcTypes' /\ proc'[p] = t /\ Alone(p)
  BY <1>5, <1>6, BecomeTypes
<1>8. v \in Vol
  BY <1>3
<1>9. Ec2Types'
  BY <1>1, <1>2, <1>8 DEF Types, Ec2Types, Status
<1>10. Types'
  BY <1>2, <1>7, <1>9 DEF Types, SameRest
<1>11. DeletesOne(p, v)
  BY <1>1, <1>2, <1>4, <1>7, <1>8 DEF DeletesOne
<1> QED  BY <1>8, <1>10, <1>11

\* A role without its volumes is about to be stored.
Removes(p) ==
    /\ At(p, "delete") /\ proc[p].ids = {} /\ ~torn
    /\ Letter(p) \in Role /\ names[Letter(p)] # <<>>
    /\ proc'[p].pc = "store" /\ proc'[p].cmd = "delete" /\ proc'[p].rest = proc[p].rest
    /\ proc'[p].copy = Removed(Letter(p))
    /\ Alone(p) /\ SameEc2 /\ SameRest

LEMMA RemovedContent ==
    ASSUME NEW content \in Content, NEW r \in Role
    PROVE  LET c == [content EXCEPT ![r] = <<>>]
           IN  c \in Content /\ c[r] = <<>> /\ \A s \in Role \ {r} : c[s] = content[s]
BY DEF Content

LEMMA RemoveRoleTypes ==
    ASSUME Types, NEW p \in Proc, RemoveRole(p)
    PROVE  Types' /\ Removes(p)
<1> DEFINE c == Removed(Letter(p))
           t == [cmd |-> "delete", pc |-> "store", todo |-> proc[p].todo,
                 rest |-> proc[p].rest, copy |-> c]
<1>1. /\ At(p, "delete") /\ proc[p].ids = {} /\ ~torn /\ Goes(p, t)
      /\ Letter(p) \in Role /\ names[Letter(p)] # <<>>
  BY DEF RemoveRole, Load
<1>2. proc[p].todo \in Seq(Role) /\ proc[p].rest \in Seq(Letters) \ {<<>>}
  BY <1>1, IsProcState, DeleteFields DEF At
<1>3. c \in Content
  BY <1>1, RemovedContent DEF Removed, Types
<1> HIDE DEF c
<1>4. /\ t \in Removing /\ t.pc = "store" /\ t.cmd = "delete" /\ t.rest = proc[p].rest
      /\ t.copy = c
  BY <1>2, <1>3 DEF Removing
<1> HIDE DEF t
<1>5. FitsTo(t)
  BY <1>4 DEF FitsTo, ProcState
<1>6. Types' /\ proc'[p] = t /\ Alone(p) /\ SameEc2 /\ SameRest
  BY <1>1, <1>5, GoesTypes
<1> QED  BY <1>1, <1>4, <1>6 DEF Removes, c

\* A step of EC2: no volume is made or deleted, none attached.
Ec2Moves ==
    /\ proc' = proc /\ SameRest
    /\ \A v \in Vol : /\ vol'[v] = "unborn" <=> vol[v] = "unborn"
                      /\ vol'[v] = "gone" <=> vol[v] = "gone"
                      /\ at'[v] \in {at[v], None}

LEMMA Ec2StepTypes ==
    ASSUME Types, Ec2Step
    PROVE  Types' /\ Ec2Moves
<1>1. /\ vol \in [Vol -> Status] /\ at \in [Vol -> Inst \cup {None}]
      /\ inst \in [Inst -> {"new", "running", "terminated"}]
      /\ \A v \in Vol : at[v] # None => vol[v] = "in-use" /\ inst[at[v]] = "running"
      /\ {"available", "in-use"} \subseteq Status /\ None \notin Inst
  BY Constants DEF Types, Ec2Types, Status
<1>2. proc' = proc /\ SameRest /\ UNCHANGED <<commands, faults>>
  BY DEF Ec2Step, VolumeReady, InstanceStarts, InstanceEnds, SameRest, file, history
<1>3. ASSUME VolumeReady
      PROVE  Ec2Types' /\ Ec2Moves
  <2>1. PICK v \in Vol : vol[v] = "creating" /\ vol' = [vol EXCEPT ![v] = "available"]
    BY <1>3 DEF VolumeReady
  <2>2. UNCHANGED <<at, inst>>
    BY <1>3 DEF VolumeReady
  <2>3. /\ vol' \in [Vol -> Status] /\ vol'[v] = "available"
        /\ \A w \in Vol \ {v} : vol'[w] = vol[w]
    BY <1>1, <2>1
  <2>4. Ec2Types'
    BY <1>1, <2>1, <2>2, <2>3 DEF Ec2Types
  <2> QED  BY <1>2, <2>1, <2>2, <2>3, <2>4 DEF Ec2Moves
<1>4. ASSUME InstanceStarts
      PROVE  Ec2Types' /\ Ec2Moves
  <2>1. PICK i \in Inst : inst[i] = "new" /\ inst' = [inst EXCEPT ![i] = "running"]
    BY <1>4 DEF InstanceStarts
  <2>2. UNCHANGED <<at, vol>>
    BY <1>4 DEF InstanceStarts
  <2>3. Ec2Types'
    BY <1>1, <2>1, <2>2 DEF Ec2Types
  <2> QED  BY <1>2, <2>2, <2>3 DEF Ec2Moves
<1>5. ASSUME InstanceEnds
      PROVE  Ec2Types' /\ Ec2Moves
  <2>1. PICK i \in Inst : /\ inst[i] = "running" /\ inst' = [inst EXCEPT ![i] = "terminated"]
                          /\ vol' = [v \in Vol |-> IF at[v] = i THEN "available" ELSE vol[v]]
                          /\ at' = [v \in Vol |-> IF at[v] = i THEN None ELSE at[v]]
    BY <1>5 DEF InstanceEnds
  <2>2. vol' \in [Vol -> Status] /\ at' \in [Vol -> Inst \cup {None}]
    BY <1>1, <2>1
  <2>3. inst' \in [Inst -> {"new", "running", "terminated"}]
        /\ \A j \in Inst \ {i} : inst'[j] = inst[j]
    BY <1>1, <2>1
  <2>4. \A v \in Vol : at'[v] # None => vol'[v] = "in-use" /\ inst'[at'[v]] = "running"
    BY <1>1, <2>1, <2>3
  <2>5. \A v \in Vol : /\ vol'[v] = "unborn" <=> vol[v] = "unborn"
                       /\ vol'[v] = "gone" <=> vol[v] = "gone"
                       /\ at'[v] \in {at[v], None}
    BY <1>1, <2>1
  <2> QED  BY <1>2, <2>2, <2>3, <2>4, <2>5 DEF Ec2Types, Ec2Moves
<1>6. Ec2Types' /\ Ec2Moves
  BY <1>3, <1>4, <1>5 DEF Ec2Step
<1>7. ProcTypes'
  BY <1>2 DEF Types, ProcTypes, Fits, At
<1> QED  BY <1>2, <1>6, <1>7 DEF Types, SameRest

\* What a step does.
Moves(p) == \/ Quiet(p) \/ Ended(p)
            \/ \E v \in Own : MadeOne(p, v)
            \/ AddsOne(p) \/ Truncates(p) \/ Writes(p)
            \/ Reads(p) \/ MakesPlan(p)
            \/ \E n \in DOMAIN proc[p].plan, v \in Own : AttachesOne(p, n, v)
            \/ TakesNext(p)
            \/ ReadsLetter(p) \/ Checks(p) \/ (\E v \in Vol : DeletesOne(p, v)) \/ Removes(p)

LEMMA StepTypes ==
    ASSUME Types, [Next]_vars
    PROVE  /\ Types'
           /\ \/ \E p \in Proc : Moves(p)
              \/ \E v \in Own : LostOne(v)
              \/ Ec2Moves
<1> DEFINE Goal == /\ Types'
                   /\ \/ \E p \in Proc : Moves(p)
                      \/ \E v \in Own : LostOne(v)
                      \/ Ec2Moves
<1>1. ASSUME NEW p \in Proc, CreateStep(p)
      PROVE  Goal
  <2>1. CASE CreateVolume(p)
    BY <2>1, CreateVolumeTypes DEF Moves
  <2>2. CASE CreateAnswerLost(p)
    BY <2>2, CreateAnswerLostTypes
  <2>3. CASE CreateRefused(p) \/ AddRaises(p)
    BY <2>3, EndsTypes DEF CreateRefused, AddRaises, Moves
  <2>4. CASE Add(p)
    BY <2>4, AddTypes DEF Moves
  <2>5. CASE CreateDone(p)
    BY <2>5, CreateDoneTypes DEF Moves
  <2> QED  BY <1>1, <2>1, <2>2, <2>3, <2>4, <2>5 DEF CreateStep
<1>2. ASSUME NEW p \in Proc, AttachStep(p)
      PROVE  Goal
  <2>1. CASE ReadRole(p)
    BY <2>1, ReadRoleTypes DEF Moves
  <2>2. CASE ReadRoleRaises(p) \/ DescribeRaises(p) \/ AttachRefused(p)
    BY <2>2, EndsTypes DEF ReadRoleRaises, DescribeRaises, AttachRefused, Moves
  <2>3. CASE Describe(p)
    BY <2>3, DescribeTypes DEF Moves
  <2>4. CASE AttachNext(p)
    BY <2>4, AttachNextTypes DEF Moves
  <2>5. CASE NextInstance(p)
    BY <2>5, NextInstanceTypes DEF Moves
  <2>6. CASE AttachDone(p)
    BY <2>6, AttachDoneTypes DEF Moves
  <2> QED  BY <1>2, <2>1, <2>2, <2>3, <2>4, <2>5, <2>6 DEF AttachStep
<1>3. ASSUME NEW p \in Proc, DeleteStep(p)
      PROVE  Goal
  <2>1. CASE ListRoles(p) \/ ListRole(p) \/ Prompt(p)
    BY <2>1, ListTypes DEF Moves
  <2>2. CASE \/ ListRaises(p) \/ GetRolesRaises(p) \/ ReadLetterRaises(p)
             \/ CheckRaises(p) \/ DeleteRefused(p) \/ RemoveRoleRaises(p)
    BY <2>2, EndsTypes DEF ListRaises, GetRolesRaises, ReadLetterRaises, CheckRaises,
                           DeleteRefused, RemoveRoleRaises, Moves
  <2>3. CASE Refrain(p) \/ DeleteDone(p)
    BY <2>3, AttachDoneTypes DEF Moves
  <2>4. CASE GetRoles(p)
    BY <2>4, GetRolesTypes DEF Moves
  <2>5. CASE NextRole(p)
    BY <2>5, NextRoleTypes DEF Moves
  <2>6. CASE ReadLetter(p)
    BY <2>6, ReadLetterTypes DEF Moves
  <2>7. CASE Check(p)
    BY <2>7, CheckTypes DEF Moves
  <2>8. CASE CheckAborts(p)
    BY <2>8, CheckAbortsTypes DEF Moves
  <2>9. CASE DeleteVolume(p)
    BY <2>9, DeleteVolumeTypes DEF Moves
  <2>10. CASE RemoveRole(p)
    BY <2>10, RemoveRoleTypes DEF Moves
  <2> QED  BY <1>3, <2>1, <2>2, <2>3, <2>4, <2>5, <2>6, <2>7, <2>8, <2>9, <2>10 DEF DeleteStep
<1>4. ASSUME NEW p \in Proc, Command(p) \/ StoreStep(p) \/ Killed(p)
      PROVE  Goal
  BY <1>4, CommandTypes, TruncateTypes, WriteTypes, EndsTypes DEF StoreStep, Moves
<1>5. CASE Ec2Step
  BY <1>5, Ec2StepTypes
<1>6. CASE UNCHANGED vars
  <2>1. UNCHANGED <<vol, at, inst, proc, names, torn, commands, faults, dead, resent, undone, mixed>>
    BY <1>6 DEF vars, ec2, file, history
  <2>2. Types'
    BY <2>1 DEF Types, Ec2Types, ProcTypes, Fits, At
  <2> QED  BY <2>1, <2>2 DEF Ec2Moves, SameRest
<1> QED  BY <1>1, <1>2, <1>3, <1>4, <1>5, <1>6 DEF Next

LEMMA InitTypes == Init => Types
<1> SUFFICES ASSUME Init PROVE Types
  OBVIOUS
<1>1. /\ vol \in [Vol -> Status] /\ at \in [Vol -> Inst \cup {None}]
      /\ inst \in [Inst -> {"new", "running", "terminated"}]
      /\ \A v \in Vol : at[v] = None
  BY DEF Init, Status
<1>2. DOMAIN proc = Proc /\ \A p \in Proc : proc[p] = Idle
  BY DEF Init
<1>3. ProcTypes
  BY <1>2, RestStates DEF ProcTypes, Fits, At
<1>4. /\ names \in Content /\ torn \in BOOLEAN
      /\ {commands, faults, dead, resent} \subseteq Nat
      /\ undone \subseteq Vol /\ mixed \subseteq {"store", "attach"}
  <2>1. names = Empty /\ commands = 0 /\ faults = 0 /\ dead = 0 /\ resent = 0 /\ mixed = {}
        /\ undone = {}
    BY DEF Init
  <2>2. torn \in BOOLEAN
    BY Zenon DEF Init
  <2> QED  BY <2>1, <2>2, EmptyContent
<1>5. Ec2Types
  BY <1>1 DEF Ec2Types
<1> QED  BY <1>3, <1>4, <1>5 DEF Types

\* The types of the variables, and that an attached volume is in use and its instance
\* runs, hold whatever the commands do, with any number of them.
THEOREM TypeCorrect == Spec => []TypeOK
<1>1. Init => Types
  BY InitTypes
<1>2. Types /\ [Next]_vars => Types'
  BY StepTypes
<1>3. Types => TypeOK
  <2> SUFFICES ASSUME Types PROVE TypeOK
    OBVIOUS
  <2>1. names \in [Role -> Seq(List)] /\ Seq(List) \subseteq Seq(Seq(Own))
    BY DEF Types, Content, List
  <2>2. names \in [Role -> Seq(Seq(Own))]
    BY <2>1
  <2> QED  BY <2>2 DEF Types, Ec2Types, TypeOK
<1> QED  BY <1>1, <1>2, <1>3, PTL DEF Spec

-----------------------------------------------------------------------------
(* Provenance is kept.                                                     *)

LEMMA Lists ==
    ASSUME NEW lists \in Seq(List), NEW n \in DOMAIN lists
    PROVE  lists[n] \in List /\ Range(lists[n]) \subseteq Own /\ lists[n] \in Range(lists)
BY DEF List, Range

LEMMA EntryFacts ==
    ASSUME NEW content \in Content
    PROVE  /\ \A r \in Role : content[r] \in Seq(List)
           /\ \A r \in Role : \A n \in DOMAIN content[r] : <<r, content[r][n]>> \in Entry(content)
           /\ \A e \in Entry(content) :
                 /\ e[1] \in Role /\ e[2] \in List /\ e = <<e[1], e[2]>>
                 /\ e[2] \in Range(content[e[1]])
                 /\ \E n \in DOMAIN content[e[1]] : e[2] = content[e[1]][n]
<1>1. \A r \in Role : content[r] \in Seq(List)
  BY DEF Content
<1>2. ASSUME NEW r \in Role, NEW n \in DOMAIN content[r]
      PROVE  <<r, content[r][n]>> \in Entry(content)
  <2>1. content[r][n] \in List /\ content[r][n] \in Range(content[r])
    BY <1>1, Lists
  <2> QED  BY <2>1 DEF Entry
<1>3. ASSUME NEW e \in Entry(content)
      PROVE  /\ e[1] \in Role /\ e[2] \in List /\ e = <<e[1], e[2]>>
             /\ e[2] \in Range(content[e[1]])
             /\ \E n \in DOMAIN content[e[1]] : e[2] = content[e[1]][n]
  BY DEF Entry, Range
<1> QED  BY <1>1, <1>2, <1>3

LEMMA KnownFacts ==
    ASSUME Types
    PROVE  /\ \A p \in Proc : \A e \in Known(p) :
                 e[1] \in Role /\ e[2] \in List /\ e = <<e[1], e[2]>>
           /\ \A e \in Recorded : e[1] \in Role /\ e[2] \in List /\ e = <<e[1], e[2]>>
           /\ \A e \in Recorded : Range(e[2]) \subseteq Own
<1>1. ASSUME NEW p \in Proc, NEW e \in Known(p)
      PROVE  e[1] \in Role /\ e[2] \in List /\ e = <<e[1], e[2]>>
  BY DEF Known, Entry
<1>2. \A e \in Entry(names) : e[1] \in Role /\ e[2] \in List /\ e = <<e[1], e[2]>>
  BY DEF Entry
<1>3. \A l \in List : Range(l) \subseteq Own
  BY DEF List, Range
<1>4. \A e \in Recorded : e[1] \in Role /\ e[2] \in List /\ e = <<e[1], e[2]>>
  BY <1>1, <1>2 DEF Recorded
<1> QED  BY <1>1, <1>3, <1>4

LEMMA KnownAlone ==
    ASSUME NEW p \in Proc, Alone(p)
    PROVE  \A q \in Proc \ {p} : Known(q)' = Known(q) /\ HasCopy(q)' = HasCopy(q)
                                 /\ HasLists(q)' = HasLists(q)
BY DEF Alone, Known, HasCopy, HasLists, Entry

LEMMA RecordedAlone ==
    ASSUME NEW p \in Proc, Alone(p), Entry(names') \subseteq Recorded, Known(p)' \subseteq Recorded
    PROVE  Recorded' \subseteq Recorded
<1>1. \A q \in Proc : Known(q)' \subseteq Recorded
  BY KnownAlone DEF Recorded
<1> QED  BY <1>1 DEF Recorded, Entry

LEMMA NoMeeting == \A l : ~Meet(<<>>, l) /\ ~Meet(l, <<>>)
BY DEF Meet, Range

\* What is known becomes less, and nothing is made.
LEMMA KeptProvenance ==
    ASSUME Types, Provenance, Recorded' \subseteq Recorded,
           \A p \in Proc : At(p, "create")' =>
              proc'[p].made = <<>> \/ (At(p, "create") /\ proc'[p].made = proc[p].made),
           \A v \in Vol : vol'[v] = "unborn" => vol[v] = "unborn",
           AllOnce'
    PROVE  Provenance'
<1>1. Apart'
  BY DEF Provenance, Apart
<1>2. Fresh'
  <2> SUFFICES ASSUME NEW p \in Proc, At(p, "create")'
               PROVE  /\ \A e \in Recorded' : ~Meet(proc'[p].made, e[2])
                      /\ \A q \in Proc \ {p} : At(q, "create")'
                            => ~Meet(proc'[p].made, proc'[q].made)
    BY DEF Fresh, FreshFor
  <2>1. CASE proc'[p].made = <<>>
    BY <2>1, NoMeeting
  <2>2. CASE At(p, "create") /\ proc'[p].made = proc[p].made
    <3>1. FreshFor(p)
      BY DEF Provenance, Fresh
    <3>2. \A e \in Recorded' : ~Meet(proc'[p].made, e[2])
      BY <2>2, <3>1 DEF FreshFor
    <3>3. ASSUME NEW q \in Proc \ {p}, At(q, "create")'
          PROVE  ~Meet(proc'[p].made, proc'[q].made)
      BY <2>2, <3>1, <3>3, NoMeeting DEF FreshFor
    <3> QED  BY <3>2, <3>3
  <2> QED  BY <2>1, <2>2
<1>3. Born'
  <2>1. ASSUME NEW e \in Recorded', NEW v \in Range(e[2])
        PROVE  vol'[v] # "unborn"
    <3>1. e \in Recorded /\ v \in Vol
      BY KnownFacts, Constants
    <3> QED  BY <3>1 DEF Provenance, Born
  <2>2. ASSUME NEW p \in Proc, At(p, "create")', NEW v \in Range(proc'[p].made)
        PROVE  vol'[v] # "unborn"
    <3>1. proc'[p].made # <<>>
      BY DEF Range
    <3>2. At(p, "create") /\ proc'[p].made = proc[p].made
      BY <2>2, <3>1
    <3>3. proc[p].made \in Seq(Own)
      BY <3>2, IsProcState, CreateFields DEF At
    <3>4. v \in Vol
      <4>1. Range(proc[p].made) \subseteq Own
        BY <3>3 DEF Range
      <4> QED  BY <3>2, <4>1, Constants
    <3> QED  BY <3>2, <3>4 DEF Provenance, Born
  <2> QED  BY <2>1, <2>2 DEF Born
<1> QED  BY <1>1, <1>2, <1>3 DEF Provenance

LEMMA KeptOnce ==
    ASSUME AllOnce, NEW p \in Proc, Alone(p), Once(names'), HasCopy(p)' => Once(proc'[p].copy)
    PROVE  AllOnce'
<1>1. ASSUME NEW q \in Proc, HasCopy(q)'
      PROVE  Once(proc'[q].copy)
  BY <1>1, KnownAlone DEF AllOnce, Alone
<1> QED  BY <1>1 DEF AllOnce, Once

LEMMA OnceEmpty == Once(Empty) /\ Entry(Empty) = {}
<1>1. Empty \in Content /\ \A r \in Role : Empty[r] = <<>>
  BY EmptyContent
<1> QED  BY <1>1 DEF Once, Entry, Range, IsInjective

LEMMA KeptBy ==
    ASSUME Types, Provenance, NEW p \in Proc, Alone(p),
           Entry(names') \subseteq Recorded, Known(p)' \subseteq Recorded,
           Once(names'), HasCopy(p)' => Once(proc'[p].copy),
           proc'[p].pc = "create" => proc'[p].made = <<>>,
           \A v \in Vol : vol'[v] = "unborn" => vol[v] = "unborn"
    PROVE  Provenance'
<1>1. Recorded' \subseteq Recorded
  BY RecordedAlone
<1>2. AllOnce'
  BY KeptOnce DEF Provenance
<1>3. \A q \in Proc : At(q, "create")' =>
         proc'[q].made = <<>> \/ (At(q, "create") /\ proc'[q].made = proc[q].made)
  BY DEF Alone, At
<1> QED  BY <1>1, <1>2, <1>3, KeptProvenance

LEMMA NamesKnown == Entry(names) \subseteq Recorded /\ \A p \in Proc : Known(p) \subseteq Recorded
BY DEF Recorded

LEMMA CopyKnown ==
    ASSUME NEW p, HasCopy(p)
    PROVE  Known(p) = Entry(proc[p].copy)
BY DEF Known

LEMMA ListsKnown ==
    ASSUME NEW p, HasLists(p)
    PROVE  Known(p) = {e \in Role \X List : e[1] = proc[p].role /\ e[2] \in Range(proc[p].lists)}
BY DEF Known, HasLists, HasCopy

\* Steps after which a process knows no more, or what it knew before.
LEMMA SimpleProvenance ==
    ASSUME Types, Provenance, NEW p \in Proc, Alone(p), UNCHANGED names,
           \/ proc'[p].pc \notin {"store", "write", "describe", "attach"}
           \/ /\ HasLists(p) /\ HasLists(p)'
              /\ proc'[p].role = proc[p].role /\ proc'[p].lists = proc[p].lists,
           proc'[p].pc = "create" => proc'[p].made = <<>>,
           \A v \in Vol : vol'[v] = "unborn" => vol[v] = "unborn"
    PROVE  Provenance'
<1>1. Once(names') /\ Entry(names') \subseteq Recorded
  BY NamesKnown DEF Provenance, AllOnce
<1>2. CASE proc'[p].pc \notin {"store", "write", "describe", "attach"}
  <2>1. Known(p)' = {} /\ ~HasCopy(p)'
    BY <1>2 DEF Known, HasCopy, HasLists
  <2> QED  BY <1>1, <2>1, KeptBy
<1>3. CASE /\ HasLists(p) /\ HasLists(p)'
           /\ proc'[p].role = proc[p].role /\ proc'[p].lists = proc[p].lists
  <2>1. Known(p)' = Known(p) /\ ~HasCopy(p)'
    BY <1>3 DEF Known, HasLists, HasCopy
  <2> QED  BY <1>1, <2>1, NamesKnown, KeptBy
<1> QED  BY <1>2, <1>3

LEMMA QuietProvenance ==
    ASSUME Types, Provenance, NEW p \in Proc,
           Quiet(p) \/ Ended(p) \/ ReadsLetter(p) \/ Checks(p)
    PROVE  Provenance'
<1>1. /\ Alone(p) /\ UNCHANGED <<names, vol>>
      /\ proc'[p].pc \notin {"store", "write", "describe", "attach"}
      /\ proc'[p].pc = "create" => proc'[p].made = <<>>
  BY DEF Quiet, Ended, ReadsLetter, Checks, SameEc2, SameRest, Idle, Rests
<1> QED  BY <1>1, SimpleProvenance

LEMMA DeletesProvenance ==
    ASSUME Types, Provenance, NEW p \in Proc, NEW v \in Vol, DeletesOne(p, v)
    PROVE  Provenance'
<1>1. /\ Alone(p) /\ UNCHANGED names /\ proc'[p].pc = "delete"
      /\ vol' = [vol EXCEPT ![v] = "gone"]
  BY DEF DeletesOne, SameRest
<1>2. \A w \in Vol : vol'[w] = "unborn" => vol[w] = "unborn"
  BY <1>1 DEF Types, Ec2Types
<1> QED  BY <1>1, <1>2, SimpleProvenance

LEMMA PlanProvenance ==
    ASSUME Types, Provenance, NEW p \in Proc, MakesPlan(p) \/ TakesNext(p)
    PROVE  Provenance'
<1>1. /\ Alone(p) /\ UNCHANGED <<names, vol>> /\ HasLists(p) /\ HasLists(p)'
      /\ proc'[p].role = proc[p].role /\ proc'[p].lists = proc[p].lists
      /\ proc'[p].pc = "attach"
  BY DEF MakesPlan, TakesNext, SameEc2, SameRest, HasLists, At
<1> QED  BY <1>1, SimpleProvenance

LEMMA AttachesProvenance ==
    ASSUME Types, Provenance, NEW p \in Proc, NEW n, NEW v \in Own, AttachesOne(p, n, v)
    PROVE  Provenance'
<1>1. /\ Alone(p) /\ UNCHANGED names /\ HasLists(p) /\ HasLists(p)'
      /\ proc'[p].role = proc[p].role /\ proc'[p].lists = proc[p].lists
      /\ proc'[p].pc = "attach" /\ vol' = [vol EXCEPT ![v] = "in-use"]
  BY DEF AttachesOne, HasLists, At
<1>2. \A w \in Vol : vol'[w] = "unborn" => vol[w] = "unborn"
  BY <1>1 DEF Types, Ec2Types
<1> QED  BY <1>1, <1>2, SimpleProvenance

LEMMA ReadsProvenance ==
    ASSUME Types, Provenance, NEW p \in Proc, Reads(p)
    PROVE  Provenance'
<1>1. /\ Alone(p) /\ UNCHANGED <<names, vol>> /\ proc'[p].pc = "describe"
      /\ proc'[p].role = proc[p].role /\ proc'[p].lists = names[proc[p].role]
  BY DEF Reads, SameEc2, SameRest
<1>2. Known(p)' \subseteq Entry(names) /\ ~HasCopy(p)'
  BY <1>1 DEF Known, HasCopy, HasLists, Entry
<1>3. Once(names') /\ Entry(names') \subseteq Recorded
  BY <1>1, NamesKnown DEF Provenance, AllOnce
<1> QED  BY <1>1, <1>2, <1>3, NamesKnown, KeptBy

LEMMA TruncatesProvenance ==
    ASSUME Types, Provenance, NEW p \in Proc, Truncates(p)
    PROVE  Provenance'
<1>1. /\ Alone(p) /\ UNCHANGED vol /\ names' = Empty /\ proc'[p].pc = "write"
      /\ proc'[p].copy = proc[p].copy /\ HasCopy(p) /\ HasCopy(p)'
  BY DEF Truncates, SameEc2, HasCopy, At
<1>2. Known(p)' = Known(p) /\ Once(proc'[p].copy)
  BY <1>1 DEF Known, Entry, Provenance, AllOnce
<1>3. Once(names') /\ Entry(names') \subseteq Recorded
  BY <1>1, OnceEmpty
<1> QED  BY <1>1, <1>2, <1>3, NamesKnown, KeptBy

LEMMA WritesProvenance ==
    ASSUME Types, Provenance, NEW p \in Proc, Writes(p)
    PROVE  Provenance'
<1>1. /\ Alone(p) /\ UNCHANGED vol /\ HasCopy(p)
      /\ proc'[p].pc \in {"create", "role"}
      /\ proc'[p].pc = "create" => proc'[p].made = <<>>
      /\ names' \in {proc[p].copy, Empty}
  BY DEF Writes, SameEc2, HasCopy, At
<1>2. Known(p)' = {} /\ ~HasCopy(p)'
  BY <1>1 DEF Known, HasCopy, HasLists
<1>3. Once(proc[p].copy) /\ Entry(proc[p].copy) \subseteq Recorded
  BY <1>1, NamesKnown, CopyKnown DEF Provenance, AllOnce
<1>4. Once(names') /\ Entry(names') \subseteq Recorded
  BY <1>1, <1>3, OnceEmpty
<1> QED  BY <1>1, <1>2, <1>4, KeptBy

LEMMA RemovesProvenance ==
    ASSUME Types, Provenance, NEW p \in Proc, Removes(p)
    PROVE  Provenance'
<1>1. /\ Alone(p) /\ UNCHANGED <<vol, names>> /\ proc'[p].pc = "store"
      /\ Letter(p) \in Role /\ proc'[p].copy = Removed(Letter(p))
  BY DEF Removes, SameEc2, SameRest
<1> DEFINE c == proc'[p].copy
           r == Letter(p)
<1>2. /\ names \in Content /\ c[r] = <<>> /\ \A s \in Role \ {r} : c[s] = names[s]
      /\ c \in Content
  BY <1>1, RemovedContent DEF Types, Removed
<1>3. Entry(c) \subseteq Entry(names)
  <2> SUFFICES ASSUME NEW e \in Entry(c) PROVE e \in Entry(names)
    OBVIOUS
  <2>1. e \in Role \X List /\ e[1] \in Role /\ e[2] \in Range(c[e[1]])
    BY DEF Entry
  <2>2. e[1] # r
    BY <1>2, <2>1 DEF Range
  <2> QED  BY <1>2, <2>1, <2>2 DEF Entry
<1>4. Once(c) /\ Once(names)
  <2>1. Once(names)
    BY DEF Provenance, AllOnce
  <2> QED  BY <1>2, <2>1 DEF Once, IsInjective
<1>5. Known(p)' = Entry(c)
  BY <1>1 DEF Known, HasCopy, Entry
<1> QED  BY <1>1, <1>3, <1>4, <1>5, NamesKnown, KeptBy

LEMMA RangeAppend ==
    ASSUME NEW S, NEW s \in Seq(S), NEW x \in S
    PROVE  Range(Append(s, x)) = Range(s) \cup {x}
<1>1. /\ Len(s) \in Nat /\ DOMAIN s = 1 .. Len(s) /\ DOMAIN Append(s, x) = 1 .. Len(s) + 1
      /\ \A n \in 1 .. Len(s) : Append(s, x)[n] = s[n]
      /\ Append(s, x)[Len(s) + 1] = x
  OBVIOUS
<1> QED  BY <1>1 DEF Range

LEMMA ListNonEmpty ==
    ASSUME NEW l \in List
    PROVE  Range(l) # {} /\ Range(l) \subseteq Own
<1>1. l \in Seq(Own) /\ l # <<>>
  BY DEF List
<1>2. 1 \in DOMAIN l
  BY <1>1
<1> QED  BY <1>1, <1>2 DEF Range

LEMMA SameKnown ==
    ASSUME names' = names,
           \A p \in Proc : /\ HasCopy(p)' <=> HasCopy(p)
                           /\ HasLists(p)' <=> HasLists(p)
                           /\ HasCopy(p) => proc'[p].copy = proc[p].copy
                           /\ HasLists(p) => /\ proc'[p].role = proc[p].role
                                             /\ proc'[p].lists = proc[p].lists
    PROVE  Recorded' = Recorded /\ (AllOnce => AllOnce')
<1>1. \A p \in Proc : Known(p)' = Known(p)
  BY DEF Known, Entry
<1>2. Recorded' = Recorded
  BY <1>1 DEF Recorded, Entry
<1>3. AllOnce => AllOnce'
  BY DEF AllOnce, Once
<1> QED  BY <1>2, <1>3

LEMMA MadeProvenance ==
    ASSUME Types, Provenance, NEW p \in Proc, NEW v \in Own, MadeOne(p, v)
    PROVE  Provenance'
<1>1. /\ At(p, "create") /\ proc'[p].pc = "create" /\ proc'[p].made = Append(proc[p].made, v)
      /\ Alone(p) /\ NewVolume(v) /\ names' = names
  BY DEF MadeOne, SameRest
<1>2. /\ vol'[v] = "creating" /\ \A w \in Vol \ {v} : vol'[w] = vol[w]
  BY <1>1, NewVolumeTypes
<1>3. vol[v] = "unborn"
  BY <1>1 DEF NewVolume
<1>4. \A w \in Vol : vol[w] # "unborn" => vol'[w] # "unborn"
  BY <1>2
<1>5. Recorded' = Recorded /\ AllOnce'
  <2>1. ~HasCopy(p) /\ ~HasLists(p) /\ ~HasCopy(p)' /\ ~HasLists(p)'
    BY <1>1 DEF HasCopy, HasLists, At
  <2>2. \A q \in Proc \ {p} : HasCopy(q)' = HasCopy(q) /\ HasLists(q)' = HasLists(q)
    BY <1>1, KnownAlone
  <2>3. \A q \in Proc \ {p} : proc'[q] = proc[q]
    BY <1>1 DEF Alone
  <2> QED  BY <1>1, <2>1, <2>2, <2>3, SameKnown DEF Provenance
<1>6. proc[p].made \in Seq(Own)
  BY <1>1, IsProcState, CreateFields DEF At
<1>7. Range(proc'[p].made) = Range(proc[p].made) \cup {v}
  BY <1>1, <1>6, RangeAppend
<1>8. /\ \A e \in Recorded : v \notin Range(e[2])
      /\ \A q \in Proc : At(q, "create") => v \notin Range(proc[q].made)
  BY <1>3 DEF Provenance, Born
<1>9. Apart'
  BY <1>5 DEF Provenance, Apart
<1>10. Fresh'
  <2>1. ASSUME NEW q \in Proc, At(q, "create")', NEW e \in Recorded'
        PROVE  ~Meet(proc'[q].made, e[2])
    <3>1. CASE q = p
      <4>1. ~Meet(proc[p].made, e[2])
        BY <1>1, <1>5 DEF Provenance, Fresh, FreshFor
      <4> QED  BY <1>5, <1>7, <1>8, <3>1, <4>1 DEF Meet
    <3>2. CASE q # p
      BY <1>1, <1>5, <2>1, <3>2 DEF Provenance, Fresh, FreshFor, Alone, At
    <3> QED  BY <3>1, <3>2
  <2>2. ASSUME NEW q \in Proc \ {p}, At(q, "create")'
        PROVE  ~Meet(proc'[p].made, proc'[q].made) /\ ~Meet(proc'[q].made, proc'[p].made)
    <3>1. At(q, "create") /\ proc'[q] = proc[q]
      BY <1>1, <2>2 DEF Alone, At
    <3>2. ~Meet(proc[p].made, proc[q].made)
      BY <1>1, <3>1 DEF Provenance, Fresh, FreshFor
    <3> QED  BY <1>7, <1>8, <3>1, <3>2 DEF Meet
  <2>3. ASSUME NEW q \in Proc \ {p}, NEW r \in Proc \ {p}, q # r, At(q, "create")', At(r, "create")'
        PROVE  ~Meet(proc'[q].made, proc'[r].made)
    BY <1>1, <2>3 DEF Provenance, Fresh, FreshFor, Alone, At
  <2> QED  BY <2>1, <2>2, <2>3 DEF Fresh, FreshFor
<1>11. Born'
  <2>1. ASSUME NEW e \in Recorded', NEW w \in Range(e[2])
        PROVE  vol'[w] # "unborn"
    <3>1. w \in Vol
      BY <1>5, KnownFacts, Constants
    <3> QED  BY <1>4, <1>5, <3>1 DEF Provenance, Born
  <2>2. ASSUME NEW q \in Proc, At(q, "create")', NEW w \in Range(proc'[q].made)
        PROVE  vol'[w] # "unborn"
    <3>1. CASE w = v
      BY <1>2, <3>1
    <3>2. CASE w # v
      <4>1. At(q, "create") /\ w \in Range(proc[q].made)
        BY <1>1, <1>7, <2>2, <3>2 DEF Alone, At
      <4>2. Range(proc[q].made) \subseteq Own
        <5>1. proc[q].made \in Seq(Own)
          BY <4>1, IsProcState, CreateFields DEF At
        <5> QED  BY <5>1 DEF Range
      <4> QED  BY <1>4, <4>1, <4>2, Constants DEF Provenance, Born
    <3> QED  BY <3>1, <3>2
  <2> QED  BY <2>1, <2>2 DEF Born
<1> QED  BY <1>5, <1>9, <1>10, <1>11 DEF Provenance

LEMMA SameProcProvenance ==
    ASSUME Types, Provenance, proc' = proc, names' = names,
           \A v \in Vol : vol'[v] = "unborn" => vol[v] = "unborn"
    PROVE  Provenance'
<1>1. Recorded' = Recorded /\ AllOnce'
  BY SameKnown DEF Provenance, HasCopy, HasLists
<1> QED  BY <1>1, KeptProvenance DEF At

LEMMA LostProvenance ==
    ASSUME Types, Provenance, NEW v \in Own, LostOne(v)
    PROVE  Provenance'
<1>1. proc' = proc /\ names' = names /\ NewVolume(v)
  BY DEF LostOne
<1>2. \A w \in Vol : vol'[w] = "unborn" => vol[w] = "unborn"
  BY <1>1, NewVolumeTypes
<1> QED  BY <1>1, <1>2, SameProcProvenance

LEMMA AddsProvenance ==
    ASSUME Types, Provenance, NEW p \in Proc, AddsOne(p)
    PROVE  Provenance'
<1> DEFINE r == proc[p].role
           l == proc[p].made
           c == proc'[p].copy
<1>1. /\ At(p, "create") /\ l \in List /\ r \in Role /\ c = Added(r, l)
      /\ proc'[p].pc = "store" /\ Alone(p) /\ UNCHANGED <<vol, names>>
  BY DEF AddsOne, SameEc2, SameRest
<1>2. /\ c \in Content /\ c[r] = Append(names[r], l) /\ \A s \in Role \ {r} : c[s] = names[s]
      /\ names \in Content /\ names[r] \in Seq(List)
  BY <1>1, AddedContent DEF Types, Added, Content
<1>3. Range(c[r]) = Range(names[r]) \cup {l}
  <2>1. names[r] \in Seq(List) /\ l \in List
    BY <1>1, <1>2
  <2>2. Range(Append(names[r], l)) = Range(names[r]) \cup {l}
    BY <2>1, RangeAppend
  <2> QED  BY <1>2, <2>2
<1>4. Entry(c) \subseteq Entry(names) \cup {<<r, l>>}
  <2> SUFFICES ASSUME NEW e \in Entry(c) PROVE e \in Entry(names) \cup {<<r, l>>}
    OBVIOUS
  <2>1. e \in Role \X List /\ e[1] \in Role /\ e[2] \in Range(c[e[1]]) /\ e = <<e[1], e[2]>>
    BY DEF Entry
  <2>2. CASE e[1] = r /\ e[2] = l
    BY <2>1, <2>2
  <2>3. CASE ~(e[1] = r /\ e[2] = l)
    BY <1>2, <1>3, <2>1, <2>3 DEF Entry
  <2> QED  BY <2>2, <2>3
<1>5. Recorded' \subseteq Recorded \cup {<<r, l>>}
  <2>1. Known(p)' = Entry(c)
    BY <1>1 DEF Known, HasCopy, Entry
  <2>2. \A q \in Proc : Known(q)' \subseteq Recorded \cup {<<r, l>>}
    BY <1>1, <1>4, <2>1, KnownAlone DEF Recorded
  <2> QED  BY <1>1, <2>2 DEF Recorded, Entry
<1>6. /\ \A e \in Recorded : ~Meet(l, e[2])
      /\ \A q \in Proc \ {p} : At(q, "create") => ~Meet(l, proc[q].made)
  BY <1>1 DEF Provenance, Fresh, FreshFor
<1>7. Apart'
  <2> SUFFICES ASSUME NEW e \in Recorded', NEW f \in Recorded', Meet(e[2], f[2])
               PROVE  e = f
    BY DEF Apart
  <2>1. CASE e \in Recorded /\ f \in Recorded
    BY <2>1 DEF Provenance, Apart
  <2>2. CASE e = <<r, l>> /\ f \in Recorded
    BY <1>6, <2>2 DEF Meet
  <2>3. CASE f = <<r, l>> /\ e \in Recorded
    BY <1>6, <2>3 DEF Meet
  <2> QED  BY <1>5, <2>1, <2>2, <2>3
<1>8. AllOnce'
  <2>1. Once(names)
    BY DEF Provenance, AllOnce
  <2>2. IsInjective(c[r])
    <3>1. \A n \in DOMAIN names[r] : names[r][n] # l
      <4> SUFFICES ASSUME NEW n \in DOMAIN names[r], names[r][n] = l PROVE FALSE
        OBVIOUS
      <4>1. <<r, l>> \in Recorded
        <5>1. <<r, names[r][n]>> \in Entry(names)
          BY <1>1, <1>2, EntryFacts
        <5> QED  BY <5>1, NamesKnown
      <4>2. ~Meet(l, l)
        BY <1>6, <4>1
      <4>3. Range(l) # {}
        BY <1>1, ListNonEmpty
      <4> QED  BY <4>2, <4>3 DEF Meet
    <3>2. /\ Len(names[r]) \in Nat /\ DOMAIN names[r] = 1 .. Len(names[r])
          /\ DOMAIN c[r] = 1 .. Len(names[r]) + 1 /\ c[r][Len(names[r]) + 1] = l
          /\ \A n \in 1 .. Len(names[r]) : c[r][n] = names[r][n]
      <4> DEFINE old == names[r]
      <4>1. old \in Seq(List) /\ l \in List /\ c[r] = Append(old, l)
        BY <1>1, <1>2
      <4> HIDE DEF old, l
      <4>2. /\ Len(old) \in Nat /\ DOMAIN old = 1 .. Len(old)
            /\ Len(Append(old, l)) = Len(old) + 1 /\ Append(old, l)[Len(old) + 1] = l
            /\ DOMAIN Append(old, l) = 1 .. Len(Append(old, l))
            /\ \A n \in 1 .. Len(old) : Append(old, l)[n] = old[n]
        BY <4>1
      <4> QED  BY <4>1, <4>2 DEF old
    <3>3. IsInjective(names[r])
      BY <1>1, <2>1 DEF Once
    <3> DEFINE m == Len(names[r])
    <3>4. ASSUME NEW a \in 1 .. m + 1, NEW b \in 1 .. m + 1, c[r][a] = c[r][b]
          PROVE  a = b
      <4> m \in Nat
        BY <3>2
      <4>1. CASE a \in 1 .. m /\ b \in 1 .. m
        BY <3>2, <3>3, <3>4, <4>1 DEF IsInjective
      <4>2. CASE a = m + 1 /\ b \in 1 .. m
        BY <3>1, <3>2, <3>4, <4>2
      <4>3. CASE b = m + 1 /\ a \in 1 .. m
        BY <3>1, <3>2, <3>4, <4>3
      <4> QED  BY <4>1, <4>2, <4>3
    <3> QED  BY <3>2, <3>4 DEF IsInjective
  <2>3. Once(c)
    BY <1>2, <2>1, <2>2 DEF Once
  <2>4. Once(names')
    BY <1>1, <2>1
  <2> QED  BY <1>1, <2>3, <2>4, KeptOnce DEF Provenance
<1>9. Fresh'
  <2> SUFFICES ASSUME NEW q \in Proc, At(q, "create")'
               PROVE  FreshFor(q)'
    BY DEF Fresh, FreshFor
  <2>1. q # p /\ At(q, "create") /\ proc'[q] = proc[q]
    BY <1>1 DEF Alone, At
  <2>2. FreshFor(q)
    BY DEF Provenance, Fresh
  <2>3. ~Meet(proc[q].made, l)
    BY <1>6, <2>1 DEF Meet
  <2>4. \A e \in Recorded' : ~Meet(proc'[q].made, e[2])
    BY <1>5, <2>1, <2>2, <2>3 DEF FreshFor
  <2>5. ASSUME NEW s \in Proc \ {q}, At(s, "create")'
        PROVE  ~Meet(proc'[q].made, proc'[s].made)
    <3>1. s # p /\ At(s, "create") /\ proc'[s] = proc[s]
      BY <1>1, <2>5 DEF Alone, At
    <3> QED  BY <2>1, <2>2, <3>1 DEF FreshFor
  <2> QED  BY <2>4, <2>5 DEF FreshFor
<1>10. Born'
  <2>1. \A v \in Range(l) : vol[v] # "unborn"
    BY <1>1 DEF Provenance, Born
  <2>2. \A e \in Recorded' : \A v \in Range(e[2]) : vol'[v] # "unborn"
    BY <1>1, <1>5, <2>1 DEF Provenance, Born
  <2>3. \A q \in Proc : At(q, "create")' => \A v \in Range(proc'[q].made) : vol'[v] # "unborn"
    BY <1>1 DEF Provenance, Born, Alone, At
  <2> QED  BY <2>2, <2>3 DEF Born
<1> QED  BY <1>7, <1>8, <1>9, <1>10 DEF Provenance

LEMMA ProvenanceStep ==
    ASSUME Types, Provenance, [Next]_vars
    PROVE  Provenance'
<1>1. ASSUME NEW p \in Proc, Moves(p)
      PROVE  Provenance'
  BY <1>1, QuietProvenance, DeletesProvenance, PlanProvenance, AttachesProvenance,
     ReadsProvenance, TruncatesProvenance, WritesProvenance, RemovesProvenance,
     MadeProvenance, AddsProvenance DEF Moves
<1>2. ASSUME Ec2Moves
      PROVE  Provenance'
  <2>1. proc' = proc /\ names' = names /\ \A v \in Vol : vol'[v] = "unborn" => vol[v] = "unborn"
    BY <1>2 DEF Ec2Moves, SameRest
  <2> QED  BY <2>1, SameProcProvenance
<1> QED  BY <1>1, <1>2, StepTypes, LostProvenance

LEMMA InitProvenance == Init => Provenance
<1> SUFFICES ASSUME Init PROVE Provenance
  OBVIOUS
<1>1. names = Empty /\ \A p \in Proc : proc[p].pc = "idle"
  BY DEF Init, Idle
<1>2. \A p \in Proc : Known(p) = {} /\ ~HasCopy(p) /\ ~At(p, "create")
  BY <1>1 DEF Known, HasCopy, HasLists, At
<1>3. Recorded = {} /\ Once(names)
  BY <1>1, <1>2, OnceEmpty DEF Recorded
<1> QED  BY <1>2, <1>3 DEF Provenance, Apart, AllOnce, Fresh, FreshFor, Born

-----------------------------------------------------------------------------
(* What the file says of EC2, as long as it is updated by one at a time     *)

LEMMA MixedGrows ==
    ASSUME NEW p \in Proc, Moves(p) \/ (\E v \in Own : LostOne(v)) \/ Ec2Moves
    PROVE  mixed \subseteq mixed'
BY DEF Moves, Quiet, Ended, MadeOne, AddsOne, Truncates, Writes, Reads, MakesPlan, AttachesOne,
       TakesNext, ReadsLetter, Checks, DeletesOne, Removes, LostOne, Ec2Moves, SameRest

\* What EC2 no longer has is gone for good.
GoneStays == \A v \in Vol : vol[v] = "gone" => vol'[v] = "gone"

LEMMA NewVolumeGone == ASSUME Types, NEW v, NewVolume(v) PROVE GoneStays
<1>1. vol[v] = "unborn" /\ \A w \in Vol \ {v} : vol'[w] = vol[w]
  BY NewVolumeTypes DEF NewVolume
<1> QED  BY <1>1 DEF GoneStays

LEMMA MovesGone ==
    ASSUME Types, NEW p \in Proc, Moves(p) \/ (\E v \in Own : LostOne(v)) \/ Ec2Moves
    PROVE  GoneStays
<1>1. ASSUME NEW v \in Own, MadeOne(p, v) \/ LostOne(v)
      PROVE  GoneStays
  BY <1>1, NewVolumeGone DEF MadeOne, LostOne
<1>2. ASSUME NEW n, NEW v \in Own, AttachesOne(p, n, v)
      PROVE  GoneStays
  BY <1>2 DEF AttachesOne, GoneStays, Types, Ec2Types
<1>3. ASSUME NEW v \in Vol, DeletesOne(p, v)
      PROVE  GoneStays
  BY <1>3 DEF DeletesOne, GoneStays, Types, Ec2Types
<1>4. ASSUME \/ Quiet(p) \/ Ended(p) \/ AddsOne(p) \/ Truncates(p) \/ Writes(p)
             \/ Reads(p) \/ MakesPlan(p) \/ TakesNext(p) \/ ReadsLetter(p) \/ Checks(p)
             \/ Removes(p)
      PROVE  GoneStays
  BY <1>4 DEF Quiet, Ended, AddsOne, Truncates, Writes, Reads, MakesPlan, TakesNext,
              ReadsLetter, Checks, Removes, SameEc2, GoneStays
<1>5. ASSUME Ec2Moves
      PROVE  GoneStays
  BY <1>5 DEF Ec2Moves, GoneStays
<1> QED  BY <1>1, <1>2, <1>3, <1>4, <1>5 DEF Moves

\* What a step of p leaves to the other processes.
Polite(p) ==
    /\ Alone(p)
    /\ (names' = names /\ (torn' <=> torn)) \/ \A q \in Proc \ {p} : proc[q].pc \notin Updating
    /\ proc'[p].pc \in Updating => proc[p].pc \in Updating \/ ~torn
    /\ HasLists(p)' => Known(p)' \subseteq Entry(names) \/ (HasLists(p) /\ Known(p)' = Known(p))

LEMMA StoredEntries ==
    ASSUME names \in Content, NEW r, NEW v \in Stored(r)
    PROVE  r \in Role /\ \E e \in Entry(names) : e[1] = r /\ v \in Range(e[2])
<1>1. r \in Role /\ v \in Flat(names[r])
  BY DEF Stored
<1>2. PICK n \in DOMAIN names[r] : v \in Range(names[r][n])
  BY <1>1 DEF Flat
<1>3. <<r, names[r][n]>> \in Entry(names)
  BY <1>1, EntryFacts
<1> QED  BY <1>1, <1>2, <1>3

\* What the file names has not been made after it was deleted.
LEMMA StoredGone ==
    ASSUME Types, Provenance, GoneStays, NEW r, NEW v \in Stored(r), ~Exists(v)
    PROVE  vol'[v] = "gone"
<1>1. v \in Vol
  BY StoredVolumes, Constants DEF Types
<1>2. PICK e \in Entry(names) : v \in Range(e[2])
  BY StoredEntries DEF Types
<1>3. vol[v] # "unborn"
  BY <1>2, NamesKnown DEF Provenance, Born
<1> QED  BY <1>1, <1>3 DEF Exists, GoneStays

LEMMA OthersSound ==
    ASSUME Types, Provenance, Sound, NEW p \in Proc, Polite(p), GoneStays, NEW q \in Proc \ {p}
    PROVE  SoundAt(q)'
<1>1. proc'[q] = proc[q] /\ \A s \in Proc \ {p} : proc'[s] = proc[s]
  BY DEF Polite, Alone
<1>2. proc[q].pc \in Updating => names' = names /\ (torn' <=> torn)
  BY DEF Polite
<1>3. {"check", "delete", "store", "write"} = Updating
  BY DEF Updating
<1>4. SoundAt(q) /\ SoundAt(p)
  BY DEF Sound
<1>5. AloneAt(q)'
  <2> SUFFICES ASSUME proc[q].pc = "write"
               PROVE  torn' /\ names' = Empty /\ \A s \in Proc \ {q} : proc'[s].pc \notin Updating
    BY <1>1 DEF AloneAt, At, Updating
  <2>1. torn /\ names = Empty /\ \A s \in Proc \ {q} : proc[s].pc \notin Updating
    BY <1>4 DEF SoundAt, AloneAt, At
  <2>2. torn' /\ names' = Empty
    BY <1>2, <1>3, <2>1
  <2>3. proc'[p].pc \notin Updating
    BY <2>1 DEF Polite
  <2> QED  BY <1>1, <2>1, <2>2, <2>3
<1>6. CopyAt(q)'
  <2> SUFFICES ASSUME proc[q].pc = "store" PROVE CopyAt(q)'
    BY <1>1 DEF CopyAt, At
  <2>1. names' = names
    BY <1>2, <1>3
  <2> QED  BY <1>1, <1>4, <2>1 DEF SoundAt, CopyAt, At, Added, Removed, Letter
<1>7. NewAt(q)'
  <2> SUFFICES ASSUME proc[q].pc = "store", proc[q].cmd = "create"
               PROVE  /\ \A e \in Entry(names) : ~Meet(proc[q].made, e[2])
                      /\ names' = names
                      /\ \A s \in Proc : HasLists(s)' => \A e \in Known(s)' : ~Meet(proc[q].made, e[2])
    BY <1>1 DEF NewAt, At, Entry
  <2>1. names' = names
    BY <1>2, <1>3
  <2>2. /\ \A e \in Entry(names) : ~Meet(proc[q].made, e[2])
        /\ \A s \in Proc : HasLists(s) => \A e \in Known(s) : ~Meet(proc[q].made, e[2])
    BY <1>4 DEF SoundAt, NewAt, At
  <2>3. \A s \in Proc \ {p} : Known(s)' = Known(s) /\ HasLists(s)' = HasLists(s)
    BY KnownAlone DEF Polite
  <2>4. HasLists(p)' => \A e \in Known(p)' : ~Meet(proc[q].made, e[2])
    BY <2>2 DEF Polite
  <2> QED  BY <2>1, <2>2, <2>3, <2>4
<1>8. GoneAt(q)'
  <2> SUFFICES ASSUME proc[q].pc \in {"check", "delete", "store"} PROVE GoneAt(q)'
    BY <1>1 DEF GoneAt, At
  <2>1. names' = names
    BY <1>2, <1>3
  <2>2. Stored(Letter(q))' = Stored(Letter(q))
    BY <1>1, <2>1 DEF Stored, Letter
  <2>3. \A v \in Stored(Letter(q)) : ~Exists(v) => ~Exists(v)'
    BY StoredGone DEF Exists
  <2>4. GoneAt(q)
    BY <1>4 DEF SoundAt
  <2> QED  BY <1>1, <2>2, <2>3, <2>4 DEF GoneAt, At
<1> QED  BY <1>5, <1>6, <1>7, <1>8 DEF SoundAt

LEMMA MovesPolite ==
    ASSUME Types, Sound, NEW p \in Proc, Moves(p), "store" \notin mixed'
    PROVE  Polite(p)
<1>1. CASE Truncates(p)
  <2>1. \A q \in Proc \ {p} : proc[q].pc \notin Updating
    BY <1>1 DEF Truncates, Others
  <2> QED  BY <1>1, <2>1 DEF Truncates, Polite, HasLists, Updating, At
<1>2. CASE Writes(p)
  <2>1. \A q \in Proc \ {p} : proc[q].pc \notin Updating
    BY <1>2 DEF Writes, Sound, SoundAt, AloneAt
  <2> QED  BY <1>2, <2>1 DEF Writes, Polite, HasLists, Updating, At
<1>3. CASE Reads(p)
  <2>1. Known(p)' \subseteq Entry(names)
    BY <1>3 DEF Reads, Known, HasCopy, HasLists, Entry
  <2> QED  BY <1>3, <2>1 DEF Reads, Polite, Updating, SameRest
<1>4. CASE MakesPlan(p) \/ TakesNext(p) \/ \E n \in DOMAIN proc[p].plan, v \in Own : AttachesOne(p, n, v)
  <2>1. /\ Alone(p) /\ names' = names /\ torn' = torn /\ proc'[p].pc = "attach"
        /\ HasLists(p) /\ HasLists(p)'
        /\ proc'[p].role = proc[p].role /\ proc'[p].lists = proc[p].lists
    BY <1>4 DEF MakesPlan, TakesNext, AttachesOne, SameRest, HasLists, At
  <2>2. Known(p)' = Known(p)
    BY <2>1 DEF Known, HasLists, HasCopy
  <2> QED  BY <2>1, <2>2 DEF Polite, Updating
<1>5. CASE \/ Quiet(p) \/ Ended(p) \/ (\E v \in Own : MadeOne(p, v))
  <2>1. /\ Alone(p) /\ names' = names /\ torn' = torn
        /\ proc'[p].pc \notin Updating /\ ~HasLists(p)'
    BY <1>5 DEF Quiet, Ended, MadeOne, SameRest, HasLists, Updating, Rests, Idle
  <2> QED  BY <2>1 DEF Polite
<1>6. CASE AddsOne(p) \/ ReadsLetter(p)
  <2>1. Alone(p) /\ names' = names /\ torn' = torn /\ ~torn /\ ~HasLists(p)'
    BY <1>6 DEF AddsOne, ReadsLetter, SameRest, HasLists
  <2> QED  BY <2>1 DEF Polite
<1>7. CASE Checks(p) \/ (\E v \in Vol : DeletesOne(p, v)) \/ Removes(p)
  <2>1. /\ Alone(p) /\ names' = names /\ torn' = torn /\ proc[p].pc \in Updating
        /\ ~HasLists(p)'
    BY <1>7 DEF Checks, DeletesOne, Removes, SameRest, HasLists, Updating, At
  <2> QED  BY <2>1 DEF Polite
<1> QED  BY <1>1, <1>2, <1>3, <1>4, <1>5, <1>6, <1>7 DEF Moves

\* A process outside of an update has nothing to keep.
LEMMA OutsideSound ==
    ASSUME NEW p, proc[p].pc \notin Updating
    PROVE  SoundAt(p)
BY DEF SoundAt, AloneAt, CopyAt, NewAt, GoneAt, At, Updating

LEMMA FilledLists ==
    ASSUME names \in Content, NEW r \in Role, names[r] # <<>>
    PROVE  Stored(r) # {}
<1>1. names[r] \in Seq(List)
  BY DEF Content
<1>2. 1 \in DOMAIN names[r]
  BY <1>1
<1>3. Range(names[r][1]) # {}
  BY <1>1, <1>2, ListNonEmpty, Lists
<1> QED  BY <1>2, <1>3 DEF Stored, Flat

LEMMA OwnSound ==
    ASSUME Types, Provenance, Sound, GoneStays, NEW p \in Proc, Moves(p), "store" \notin mixed'
    PROVE  SoundAt(p)'
<1>1. CASE proc'[p].pc \notin Updating
  BY <1>1 DEF SoundAt, AloneAt, CopyAt, NewAt, GoneAt, At, Updating
<1>2. CASE AddsOne(p)
  <2>1. /\ proc'[p].pc = "store" /\ proc'[p].cmd = "create" /\ proc'[p].role = proc[p].role
        /\ proc'[p].made = proc[p].made /\ proc'[p].copy = Added(proc[p].role, proc[p].made)
        /\ Len(proc[p].made) = PerInstance /\ names' = names /\ At(p, "create") /\ Alone(p)
    BY <1>2 DEF AddsOne, SameRest
  <2>2. FreshFor(p)
    BY DEF Provenance, Fresh
  <2>3. \A e \in Entry(names) : ~Meet(proc[p].made, e[2])
    BY <2>1, <2>2, NamesKnown DEF FreshFor
  <2>4. ASSUME NEW q \in Proc, HasLists(q)'
        PROVE  \A e \in Known(q)' : ~Meet(proc[p].made, e[2])
    <3>1. q # p
      BY <2>1, <2>4 DEF HasLists
    <3>2. Known(q)' = Known(q)
      BY <2>1, <3>1, KnownAlone
    <3> QED  BY <2>1, <2>2, <3>2, NamesKnown DEF FreshFor
  <2>5. NewAt(p)'
    BY <2>1, <2>3, <2>4 DEF NewAt, Entry
  <2>6. CopyAt(p)'
    BY <2>1 DEF CopyAt, Added
  <2> QED  BY <2>1, <2>5, <2>6 DEF SoundAt, AloneAt, GoneAt, At
<1>3. CASE Truncates(p)
  <2>1. /\ proc'[p].pc = "write" /\ names' = Empty /\ torn' = TRUE /\ Alone(p)
        /\ \A q \in Proc \ {p} : proc[q].pc \notin Updating
    BY <1>3 DEF Truncates, Others
  <2>2. AloneAt(p)'
    BY <2>1 DEF AloneAt, Alone, Empty
  <2> QED  BY <2>1, <2>2 DEF SoundAt, CopyAt, NewAt, GoneAt, At
<1>4. CASE ReadsLetter(p)
  <2>1. /\ proc'[p].pc = "check" /\ proc'[p].rest = proc[p].rest
        /\ proc'[p].ids = Stored(Letter(p)) /\ names' = names
    BY <1>4 DEF ReadsLetter, SameRest
  <2>2. Stored(Letter(p))' = Stored(Letter(p))
    BY <2>1 DEF Stored, Letter
  <2> QED  BY <2>1, <2>2 DEF SoundAt, AloneAt, CopyAt, NewAt, GoneAt, At
<1>5. CASE Checks(p)
  <2>1. /\ proc'[p].pc = "delete" /\ proc'[p].rest = proc[p].rest /\ At(p, "check")
        /\ proc'[p].ids = Described(proc[p].ids) /\ names' = names
    BY <1>5 DEF Checks, SameRest
  <2>2. Stored(Letter(p))' = Stored(Letter(p))
    BY <2>1 DEF Stored, Letter
  <2>3. proc[p].ids = Stored(Letter(p))
    BY <2>1 DEF Sound, SoundAt, GoneAt
  <2>4. GoneAt(p)'
    BY <2>1, <2>2, <2>3 DEF GoneAt, Described, At
  <2> QED  BY <2>1, <2>4 DEF SoundAt, AloneAt, CopyAt, NewAt, At
<1>6. CASE \E v \in Vol : DeletesOne(p, v)
  <2>1. PICK v \in Vol :
          /\ proc'[p].pc = "delete" /\ proc'[p].rest = proc[p].rest /\ At(p, "delete")
          /\ proc'[p].ids = proc[p].ids \ {v} /\ names' = names
          /\ vol' = [vol EXCEPT ![v] = "gone"]
    BY <1>6 DEF DeletesOne, SameRest
  <2>2. Stored(Letter(p))' = Stored(Letter(p))
    BY <2>1 DEF Stored, Letter
  <2>3. vol'[v] = "gone"
    BY <2>1 DEF Types, Ec2Types
  <2>4. \A w \in Stored(Letter(p)) : ~Exists(w) => ~Exists(w)'
    BY StoredGone DEF Exists
  <2>5. ~Exists(v)'
    BY <2>3 DEF Exists
  <2>6. \/ Stored(Letter(p)) = {}
        \/ /\ proc[p].ids \subseteq Stored(Letter(p))
           /\ \A w \in Stored(Letter(p)) \ proc[p].ids : ~Exists(w)
    BY <2>1 DEF Sound, SoundAt, GoneAt
  <2>7. GoneAt(p)'
    BY <2>1, <2>2, <2>4, <2>5, <2>6 DEF GoneAt, At
  <2> QED  BY <2>1, <2>7 DEF SoundAt, AloneAt, CopyAt, NewAt, At
<1>7. CASE Removes(p)
  <2>1. /\ proc'[p].pc = "store" /\ proc'[p].cmd = "delete" /\ proc'[p].rest = proc[p].rest
        /\ At(p, "delete") /\ proc[p].ids = {} /\ names' = names
        /\ Letter(p) \in Role /\ names[Letter(p)] # <<>>
        /\ proc'[p].copy = Removed(Letter(p))
    BY <1>7 DEF Removes, SameRest
  <2>2. Stored(Letter(p))' = Stored(Letter(p)) /\ Letter(p)' = Letter(p)
    BY <2>1 DEF Stored, Letter
  <2>3. Stored(Letter(p)) # {}
    BY <2>1, FilledLists DEF Types
  <2>4. \A w \in Stored(Letter(p)) : ~Exists(w)
    BY <2>1, <2>3 DEF Sound, SoundAt, GoneAt
  <2>5. \A w \in Stored(Letter(p)) : ~Exists(w) => ~Exists(w)'
    BY StoredGone DEF Exists
  <2>6. GoneAt(p)'
    BY <2>1, <2>2, <2>4, <2>5 DEF GoneAt, At
  <2>7. CopyAt(p)'
    BY <2>1, <2>2 DEF CopyAt, Removed
  <2>8. AloneAt(p)' /\ NewAt(p)'
    BY <2>1 DEF AloneAt, NewAt, At
  <2> QED  BY <2>6, <2>7, <2>8 DEF SoundAt
<1>8. CASE \/ Quiet(p) \/ Ended(p) \/ Writes(p) \/ Reads(p) \/ MakesPlan(p) \/ TakesNext(p)
           \/ (\E n \in DOMAIN proc[p].plan, v \in Own : AttachesOne(p, n, v))
           \/ (\E v \in Own : MadeOne(p, v))
  <2>1. proc'[p].pc \notin Updating
    <3>1. Quiet(p) \/ Ended(p) \/ Writes(p) => proc'[p].pc \notin Updating
      BY DEF Quiet, Ended, Writes, Updating, Rests, Idle
    <3>2. Reads(p) \/ MakesPlan(p) \/ TakesNext(p) => proc'[p].pc \notin Updating
      BY DEF Reads, MakesPlan, TakesNext, Updating
    <3>3. \A v : /\ MadeOne(p, v) => proc'[p].pc \notin Updating
                 /\ \A n : AttachesOne(p, n, v) => proc'[p].pc \notin Updating
      BY DEF MadeOne, AttachesOne, Updating
    <3> QED  BY <1>8, <3>1, <3>2, <3>3
  <2> QED  BY <1>1, <2>1
<1> QED  BY <1>2, <1>3, <1>4, <1>5, <1>6, <1>7, <1>8 DEF Moves

LEMMA SameProcSound ==
    ASSUME Types, Provenance, Sound, GoneStays, proc' = proc, names' = names, torn' = torn
    PROVE  Sound'
<1> SUFFICES ASSUME NEW p \in Proc PROVE SoundAt(p)'
  BY DEF Sound
<1>1. SoundAt(p)
  BY DEF Sound
<1>2. AloneAt(p)' /\ CopyAt(p)'
  BY <1>1 DEF SoundAt, AloneAt, CopyAt, At, Added, Removed, Letter, Empty
<1>3. \A q \in Proc : Known(q)' = Known(q) /\ HasLists(q)' = HasLists(q)
  BY DEF Known, HasLists, HasCopy, Entry
<1>4. NewAt(p)'
  BY <1>1, <1>3 DEF SoundAt, NewAt, At, Entry
<1>5. Stored(Letter(p))' = Stored(Letter(p))
  BY DEF Stored, Letter
<1>6. \A w \in Stored(Letter(p)) : ~Exists(w) => ~Exists(w)'
  BY StoredGone DEF Exists
<1>7. GoneAt(p)'
  BY <1>1, <1>5, <1>6 DEF SoundAt, GoneAt, At
<1> QED  BY <1>2, <1>4, <1>7 DEF SoundAt

LEMMA SoundStep ==
    ASSUME Types, Provenance, Sound, "store" \notin mixed',
           (\E p \in Proc : Moves(p)) \/ (\E v \in Own : LostOne(v)) \/ Ec2Moves
    PROVE  Sound'
<1>1. ASSUME NEW p \in Proc, Moves(p)
      PROVE  Sound'
  <2>1. Polite(p) /\ GoneStays
    BY <1>1, MovesPolite, MovesGone
  <2>2. SoundAt(p)'
    BY <1>1, <2>1, OwnSound
  <2>3. \A q \in Proc \ {p} : SoundAt(q)'
    BY <2>1, OthersSound
  <2> QED  BY <2>2, <2>3 DEF Sound
<1>2. ASSUME (\E v \in Own : LostOne(v)) \/ Ec2Moves
      PROVE  Sound'
  <2>1. proc' = proc /\ names' = names /\ torn' = torn
    BY <1>2 DEF LostOne, Ec2Moves, SameRest
  <2>2. GoneStays
    BY <1>2, NewVolumeGone DEF LostOne, Ec2Moves, GoneStays
  <2> QED  BY <2>1, <2>2, SameProcSound
<1> QED  BY <1>1, <1>2

LEMMA InHandFacts ==
    ASSUME NEW p
    PROVE  /\ At(p, "create") => InHand(p) = Range(proc[p].made)
           /\ HasCopy(p) => InHand(p) = Named(proc[p].copy)
           /\ proc[p].pc \notin {"create", "store", "write"} => InHand(p) = {}
BY DEF InHand, At, HasCopy

LEMMA NamedEntry ==
    ASSUME NEW content \in Content, NEW v
    PROVE  /\ v \in Named(content) <=> \E e \in Entry(content) : v \in Range(e[2])
           /\ \A r \in Role : v \in Flat(content[r]) <=>
                 \E e \in Entry(content) : e[1] = r /\ v \in Range(e[2])
<1>1. \A r \in Role : v \in Flat(content[r]) <=>
         \E e \in Entry(content) : e[1] = r /\ v \in Range(e[2])
  <2> SUFFICES ASSUME NEW r \in Role
               PROVE  v \in Flat(content[r]) <=>
                         \E e \in Entry(content) : e[1] = r /\ v \in Range(e[2])
    OBVIOUS
  <2>1. ASSUME v \in Flat(content[r])
        PROVE  \E e \in Entry(content) : e[1] = r /\ v \in Range(e[2])
    <3>1. PICK n \in DOMAIN content[r] : v \in Range(content[r][n])
      BY <2>1 DEF Flat
    <3>2. <<r, content[r][n]>> \in Entry(content)
      BY EntryFacts
    <3> QED  BY <3>1, <3>2
  <2>2. ASSUME NEW e \in Entry(content), e[1] = r, v \in Range(e[2])
        PROVE  v \in Flat(content[r])
    <3>1. PICK n \in DOMAIN content[e[1]] : e[2] = content[e[1]][n]
      BY EntryFacts
    <3> QED  BY <2>2, <3>1 DEF Flat
  <2> QED  BY <2>1, <2>2
<1>2. \A e \in Entry(content) : e[1] \in Role
  BY EntryFacts
<1>3. v \in Named(content) <=> \E r \in Role : v \in Flat(content[r])
  BY DEF Named
<1> QED  BY <1>1, <1>2, <1>3

LEMMA NamedAdded ==
    ASSUME names \in Content, NEW r \in Role, NEW l \in List
    PROVE  Named(Added(r, l)) = Named(names) \cup Range(l)
<1> DEFINE c == Added(r, l)
<1>1. /\ c \in Content /\ c[r] = Append(names[r], l) /\ \A s \in Role \ {r} : c[s] = names[s]
      /\ names[r] \in Seq(List)
  BY AddedContent DEF Added, Content
<1> HIDE DEF c
<1>2. Range(c[r]) = Range(names[r]) \cup {l}
  BY <1>1, RangeAppend
<1>3. Entry(c) = Entry(names) \cup {<<r, l>>}
  <2>1. \A e \in Role \X List : e \in Entry(c) <=> e \in Entry(names) \/ e = <<r, l>>
    <3> SUFFICES ASSUME NEW e \in Role \X List
                 PROVE  e \in Entry(c) <=> e \in Entry(names) \/ e = <<r, l>>
      OBVIOUS
    <3>1. e[1] \in Role /\ e = <<e[1], e[2]>>
      OBVIOUS
    <3>2. CASE e[1] = r
      <4>1. e[2] \in Range(c[r]) <=> e[2] \in Range(names[r]) \/ e[2] = l
        BY <1>2
      <4> QED  BY <3>1, <3>2, <4>1 DEF Entry
    <3>3. CASE e[1] # r
      <4>1. c[e[1]] = names[e[1]] /\ e # <<r, l>>
        BY <1>1, <3>1, <3>3
      <4> QED  BY <4>1 DEF Entry
    <3> QED  BY <3>2, <3>3
  <2>2. <<r, l>> \in Role \X List /\ Entry(c) \subseteq Role \X List
        /\ Entry(names) \subseteq Role \X List
    BY DEF Entry
  <2> QED  BY <2>1, <2>2
<1>4. ASSUME NEW v
      PROVE  v \in Named(c) <=> v \in Named(names) \/ v \in Range(l)
  <2>1. v \in Named(c) <=> \E e \in Entry(c) : v \in Range(e[2])
    BY <1>1, NamedEntry
  <2>2. v \in Named(names) <=> \E e \in Entry(names) : v \in Range(e[2])
    BY NamedEntry
  <2>3. <<r, l>>[2] = l
    OBVIOUS
  <2> QED  BY <1>3, <2>1, <2>2, <2>3
<1> QED  BY <1>4 DEF c

LEMMA NamedRemoved ==
    ASSUME names \in Content, NEW r \in Role
    PROVE  \A v : v \in Named(Removed(r)) <=>
                  \E e \in Entry(names) : e[1] # r /\ v \in Range(e[2])
<1> DEFINE c == Removed(r)
<1>1. c \in Content /\ c[r] = <<>> /\ \A s \in Role \ {r} : c[s] = names[s]
  BY RemovedContent DEF Removed
<1> HIDE DEF c
<1>2. \A e : e \in Entry(c) <=> e \in Entry(names) /\ e[1] # r
  <2>1. Range(c[r]) = {}
    BY <1>1 DEF Range
  <2> QED  BY <1>1, <2>1 DEF Entry
<1>3. ASSUME NEW v
      PROVE  v \in Named(c) <=> \E e \in Entry(names) : e[1] # r /\ v \in Range(e[2])
  <2>1. v \in Named(c) <=> \E e \in Entry(c) : v \in Range(e[2])
    BY <1>1, NamedEntry
  <2> QED  BY <1>2, <2>1
<1> QED  BY <1>3 DEF c

\* What is left of the file shares nothing with what is removed.
LEMMA RemovedApart ==
    ASSUME Types, Provenance, NEW r \in Role, NEW v \in Named(Removed(r))
    PROVE  v \in Named(names) /\ v \notin Stored(r)
<1>1. PICK e \in Entry(names) : e[1] # r /\ v \in Range(e[2])
  BY NamedRemoved DEF Types
<1>2. v \in Named(names)
  BY <1>1, NamedEntry DEF Types
<1>3. ASSUME v \in Stored(r)
      PROVE  FALSE
  <2>1. PICK f \in Entry(names) : f[1] = r /\ v \in Range(f[2])
    BY <1>3, StoredEntries DEF Types
  <2>2. Meet(e[2], f[2])
    BY <1>1, <2>1 DEF Meet
  <2> QED  BY <1>1, <2>1, <2>2, NamesKnown DEF Provenance, Apart
<1> QED  BY <1>2, <1>3

LEMMA HeldVolumes ==
    ASSUME Types
    PROVE  Held \subseteq Own
<1>1. ASSUME NEW content \in Content
      PROVE  Named(content) \subseteq Own
  <2> SUFFICES ASSUME NEW v \in Named(content) PROVE v \in Own
    OBVIOUS
  <2>1. PICK e \in Entry(content) : v \in Range(e[2])
    BY NamedEntry
  <2> QED  BY <2>1, EntryFacts, ListNonEmpty
<1>2. ASSUME NEW p \in Proc
      PROVE  InHand(p) \subseteq Own
  <2>1. CASE At(p, "create")
    <3>1. proc[p].made \in Seq(Own)
      BY <2>1, IsProcState, CreateFields DEF At
    <3>2. Range(proc[p].made) \subseteq Own
      BY <3>1 DEF Range
    <3> QED  BY <2>1, <3>2, InHandFacts
  <2>2. CASE HasCopy(p)
    BY <1>1, <2>2, InHandFacts, IsProcState, StoreFields DEF HasCopy
  <2>3. CASE proc[p].pc \notin {"create", "store", "write"}
    BY <2>3, InHandFacts
  <2> QED  BY <2>1, <2>2, <2>3 DEF At, HasCopy
<1> QED  BY <1>1, <1>2 DEF Held, Types

LEMMA InHandAlone ==
    ASSUME NEW p \in Proc, Alone(p)
    PROVE  \A q \in Proc \ {p} : InHand(q)' = InHand(q)
<1> SUFFICES ASSUME NEW q \in Proc \ {p} PROVE InHand(q)' = InHand(q)
  OBVIOUS
<1>1. proc'[q] = proc[q]
  BY DEF Alone
<1> QED  BY <1>1 DEF InHand, At, Named, Flat

LEMMA HeldAlone ==
    ASSUME NEW p \in Proc, Alone(p)
    PROVE  /\ Named(names') \cup InHand(p)' \subseteq Held => Held' \subseteq Held
           /\ Named(names) \cup InHand(p) \subseteq Held' => Held \subseteq Held'
<1>1. \A q \in Proc \ {p} : InHand(q)' = InHand(q)
  BY InHandAlone
<1>2. Named(names)' = Named(names')
  BY DEF Named, Flat
<1> QED  BY <1>1, <1>2 DEF Held

LEMMA KeptStand ==
    ASSUME Types, AllStand, undone \subseteq undone', Held' \subseteq Held,
           \A v \in Own : Exists(v) => Exists(v)',
           \A q \in Proc, v \in Own : Deletes(q, v) => Deletes(q, v)' \/ Standing(v)'
    PROVE  AllStand'
<1> SUFFICES ASSUME NEW v \in Held' PROVE Standing(v)'
  BY DEF AllStand
<1>1. v \in Own /\ Standing(v)
  BY HeldVolumes DEF AllStand
<1> QED  BY <1>1 DEF Standing

LEMMA UnaccountedHeld == Unaccounted = {v \in Own : Exists(v)} \ Held
BY DEF Unaccounted, Held

LEMMA Natural == \A a, b, c \in Nat : a * b + c \in Nat
OBVIOUS

LEMMA BoundedBy ==
    ASSUME Types, Types', Bounded, NEW S, IsFiniteSet(S), NEW k \in Nat, Cardinality(S) <= k,
           Unaccounted' \subseteq Unaccounted \cup S,
           PerInstance * dead' + resent' >= PerInstance * dead + resent + k
    PROVE  Bounded'
<1>1. IsFiniteSet(Unaccounted) /\ IsFiniteSet(Unaccounted \cup S)
  BY Constants, UnaccountedHeld, FS_Subset, FS_Union
<1>2. /\ Cardinality(Unaccounted \cup S) <= Cardinality(Unaccounted) + Cardinality(S)
      /\ Cardinality(Unaccounted') <= Cardinality(Unaccounted \cup S)
      /\ Cardinality(Unaccounted) \in Nat /\ Cardinality(Unaccounted \cup S) \in Nat
      /\ Cardinality(S) \in Nat /\ Cardinality(Unaccounted') \in Nat
  <2>1. /\ Cardinality(Unaccounted \cup S)
             = Cardinality(Unaccounted) + Cardinality(S) - Cardinality(Unaccounted \cap S)
        /\ Cardinality(Unaccounted \cap S) \in Nat
    BY <1>1, FS_Union, FS_Intersection, FS_CardinalityType
  <2>2. Cardinality(Unaccounted') <= Cardinality(Unaccounted \cup S) /\ IsFiniteSet(Unaccounted')
    BY <1>1, FS_Subset
  <2>3. /\ Cardinality(Unaccounted) \in Nat /\ Cardinality(Unaccounted \cup S) \in Nat
        /\ Cardinality(S) \in Nat /\ Cardinality(Unaccounted') \in Nat
    BY <1>1, <2>2, FS_CardinalityType
  <2> QED  BY <2>1, <2>2, <2>3
<1>3. PerInstance * dead + resent \in Nat /\ PerInstance * dead' + resent' \in Nat
  <2>1. PerInstance \in Nat /\ dead \in Nat /\ resent \in Nat
    BY Constants DEF Types
  <2>2. dead' \in Nat /\ resent' \in Nat
    BY DEF Types
  <2> QED  BY <2>1, <2>2, Natural
<1>4. Cardinality(Unaccounted) <= PerInstance * dead + resent
  BY DEF Bounded
<1> DEFINE a == PerInstance * dead + resent
           b == PerInstance * dead' + resent'
<1> HIDE DEF a, b
<1>5. Cardinality(Unaccounted') <= b
  BY <1>2, <1>3, <1>4 DEF a, b
<1> QED  BY <1>5 DEF Bounded, b

LEMMA KeptBounded ==
    ASSUME Types, Types', Bounded, dead' = dead, resent' = resent,
           \A v \in Own : Exists(v)' => Exists(v) \/ v \in Held',
           \A v \in Held : v \in Held' \/ ~Exists(v)'
    PROVE  Bounded'
<1>1. Unaccounted' \subseteq Unaccounted
  BY UnaccountedHeld DEF Unaccounted, Held
<1>2. IsFiniteSet({}) /\ Cardinality({}) = 0
  BY FS_EmptySet
<1>3. PerInstance * dead + resent \in Nat
  BY Constants, Natural DEF Types
<1> QED  BY <1>1, <1>2, <1>3, BoundedBy

LEMMA DeletesOthers ==
    ASSUME NEW p \in Proc, Alone(p), names' = names, NEW q \in Proc \ {p}, NEW v
    PROVE  Deletes(q, v)' <=> Deletes(q, v)
<1>1. proc'[q] = proc[q]
  BY DEF Alone
<1>2. Stored(Letter(q))' = Stored(Letter(q))
  BY <1>1 DEF Stored, Letter
<1> QED  BY <1>1, <1>2 DEF Deletes, At

\* A step after which the same volumes exist, are held and are about to be deleted.
Harmless(p) ==
    /\ Alone(p) /\ names' = names /\ dead' = dead /\ resent' = resent /\ undone' = undone
    /\ \A v \in Own : Exists(v)' <=> Exists(v)
    /\ InHand(p) \subseteq Named(names) \cup InHand(p)'
    /\ InHand(p)' \subseteq Named(names) \cup InHand(p)
    /\ \A v \in Own : Deletes(p, v) => Deletes(p, v)'

LEMMA HarmlessKeeps ==
    ASSUME Types, Types', AllStand, Bounded, NEW p \in Proc, Harmless(p)
    PROVE  AllStand' /\ Bounded'
<1>1. /\ Alone(p) /\ names' = names /\ dead' = dead /\ resent' = resent /\ undone' = undone
      /\ \A v \in Own : Exists(v)' <=> Exists(v)
      /\ InHand(p) \subseteq Named(names) \cup InHand(p)'
      /\ InHand(p)' \subseteq Named(names) \cup InHand(p)
      /\ \A v \in Own : Deletes(p, v) => Deletes(p, v)'
  BY DEF Harmless
<1>2. Named(names)' = Named(names)
  BY <1>1 DEF Named, Flat
<1>3. Held' = Held
  <2>1. Named(names') = Named(names)
    BY <1>1
  <2>2. Named(names) \subseteq Held /\ InHand(p) \subseteq Held
    BY DEF Held
  <2>3. Named(names) \subseteq Held' /\ InHand(p)' \subseteq Held'
    BY <1>2 DEF Held
  <2> QED  BY <1>1, <2>1, <2>2, <2>3, HeldAlone
<1>4. \A q \in Proc, v \in Own : Deletes(q, v) => Deletes(q, v)'
  BY <1>1, DeletesOthers
<1>5. AllStand'
  BY <1>1, <1>3, <1>4, KeptStand
<1>6. Bounded'
  BY <1>1, <1>3, KeptBounded
<1> QED  BY <1>5, <1>6

LEMMA HandAfter ==
    ASSUME NEW p
    PROVE  /\ proc'[p].pc = "create" => InHand(p)' = Range(proc'[p].made)
           /\ proc'[p].pc \in {"store", "write"} => InHand(p)' = Named(proc'[p].copy)
           /\ proc'[p].pc \notin {"create", "store", "write"} => InHand(p)' = {}
BY DEF InHand, At, Named, Flat

LEMMA NoneMade == Range(<<>>) = {}
BY DEF Range

LEMMA NoneNamed == Named(Empty) = {}
<1>1. \A r \in Role : Flat(Empty[r]) = {}
  BY EmptyContent DEF Flat
<1> QED  BY <1>1 DEF Named

LEMMA HarmlessMoves ==
    ASSUME Types, Types', NEW p \in Proc,
           \/ Quiet(p) \/ AddsOne(p) \/ Reads(p) \/ MakesPlan(p) \/ TakesNext(p)
           \/ (\E n \in DOMAIN proc[p].plan, v \in Own : AttachesOne(p, n, v))
           \/ ReadsLetter(p) \/ Checks(p) \/ Removes(p)
    PROVE  Harmless(p)
<1>1. CASE \/ Quiet(p) \/ Reads(p) \/ MakesPlan(p) \/ TakesNext(p) \/ ReadsLetter(p) \/ Checks(p)
  <2>1. /\ Alone(p) /\ SameEc2 /\ SameRest
        /\ proc[p].pc \notin {"store", "write", "delete"}
        /\ proc[p].pc = "create" => proc[p].made = <<>>
        /\ proc'[p].pc = "create" => proc'[p].made = <<>>
        /\ proc'[p].pc \notin {"store", "write"}
    BY <1>1 DEF Quiet, Reads, MakesPlan, TakesNext, ReadsLetter, Checks, Rests, At
  <2>2. InHand(p) = {} /\ InHand(p)' = {}
    BY <2>1, InHandFacts, HandAfter, NoneMade DEF At
  <2>3. \A v : ~Deletes(p, v)
    BY <2>1 DEF Deletes, At
  <2> QED  BY <2>1, <2>2, <2>3 DEF Harmless, SameEc2, SameRest, Exists
<1>2. CASE \E n \in DOMAIN proc[p].plan, v \in Own : AttachesOne(p, n, v)
  <2>1. PICK n \in DOMAIN proc[p].plan, v \in Own : AttachesOne(p, n, v)
    BY <1>2
  <2>2. /\ Alone(p) /\ UNCHANGED <<names, dead, resent, undone>>
        /\ proc[p].pc = "attach" /\ proc'[p].pc = "attach"
        /\ vol[v] = "available" /\ vol' = [vol EXCEPT ![v] = "in-use"]
    BY <2>1 DEF AttachesOne, At
  <2>3. InHand(p) = {} /\ InHand(p)' = {}
    BY <2>2, InHandFacts, HandAfter
  <2>4. \A w \in Own : Exists(w)' <=> Exists(w)
    BY <2>2, Constants DEF Exists, Types, Ec2Types
  <2>5. \A w : ~Deletes(p, w)
    BY <2>2 DEF Deletes, At
  <2> QED  BY <2>2, <2>3, <2>4, <2>5 DEF Harmless
<1>3. CASE AddsOne(p)
  <2>1. /\ Alone(p) /\ SameEc2 /\ SameRest /\ proc[p].pc = "create" /\ proc'[p].pc = "store"
        /\ proc[p].made \in List /\ proc[p].role \in Role
        /\ proc'[p].copy = Added(proc[p].role, proc[p].made)
    BY <1>3 DEF AddsOne, At
  <2>2. Named(proc'[p].copy) = Named(names) \cup Range(proc[p].made)
    BY <2>1, NamedAdded DEF Types
  <2>3. InHand(p) = Range(proc[p].made) /\ InHand(p)' = Named(names) \cup Range(proc[p].made)
    BY <2>1, <2>2, InHandFacts, HandAfter DEF At
  <2>4. \A v : ~Deletes(p, v)
    BY <2>1 DEF Deletes, At
  <2> QED  BY <2>1, <2>3, <2>4 DEF Harmless, SameEc2, SameRest, Exists
<1>4. CASE Removes(p)
  <2>1. /\ Alone(p) /\ SameEc2 /\ SameRest /\ proc[p].pc = "delete" /\ proc'[p].pc = "store"
        /\ proc'[p].cmd = "delete" /\ proc'[p].rest = proc[p].rest /\ Letter(p) \in Role
        /\ proc'[p].copy = Removed(Letter(p))
    BY <1>4 DEF Removes, At
  <2>2. \A v \in Named(proc'[p].copy) : v \in Named(names)
    BY <2>1, NamedRemoved, NamedEntry DEF Types
  <2>3. InHand(p) = {} /\ InHand(p)' \subseteq Named(names)
    BY <2>1, <2>2, InHandFacts, HandAfter
  <2>4. Stored(Letter(p))' = Stored(Letter(p))
    BY <2>1 DEF Stored, Letter, SameRest
  <2>5. \A v : Deletes(p, v) => Deletes(p, v)'
    BY <2>1, <2>4 DEF Deletes, At
  <2> QED  BY <2>1, <2>3, <2>5 DEF Harmless, SameEc2, SameRest, Exists
<1> QED  BY <1>1, <1>2, <1>3, <1>4

LEMMA HeldSplit ==
    ASSUME NEW p \in Proc, Alone(p)
    PROVE  \E others : /\ Held = Named(names) \cup InHand(p) \cup others
                       /\ Held' = Named(names') \cup InHand(p)' \cup others
                       /\ others = UNION {InHand(q) : q \in Proc \ {p}}
<1> DEFINE others == UNION {InHand(q) : q \in Proc \ {p}}
<1>1. \A q \in Proc \ {p} : InHand(q)' = InHand(q)
  BY InHandAlone
<1>2. Named(names)' = Named(names')
  BY DEF Named, Flat
<1>3. Held = Named(names) \cup InHand(p) \cup others
  BY DEF Held
<1>4. Held' = Named(names') \cup InHand(p)' \cup others
  BY <1>1, <1>2 DEF Held
<1> QED  BY <1>3, <1>4

LEMMA OneMore == \A a, b, c \in Nat : a * (b + 1) + c = a * b + c + a
OBVIOUS

LEMMA RangeSmall ==
    ASSUME NEW S, NEW s \in Seq(S)
    PROVE  IsFiniteSet(Range(s)) /\ Cardinality(Range(s)) <= Len(s)
<1>1. Len(s) \in Nat /\ DOMAIN s = 1 .. Len(s)
  OBVIOUS
<1>2. IsFiniteSet(1 .. Len(s)) /\ Cardinality(1 .. Len(s)) = Len(s)
  BY <1>1, FS_Interval
<1>3. s \in Surjection(1 .. Len(s), Range(s))
  BY <1>1 DEF Range, Surjection
<1> QED  BY <1>2, <1>3, FS_Surjection

LEMMA HeldBorn ==
    ASSUME Types, Provenance, NEW v \in Held
    PROVE  vol[v] # "unborn"
<1>1. \A c \in Content : (Entry(c) \subseteq Recorded /\ v \in Named(c)) => vol[v] # "unborn"
  BY NamedEntry DEF Provenance, Born
<1>2. CASE v \in Named(names)
  BY <1>1, <1>2 DEF Types, Recorded
<1>3. ASSUME NEW p \in Proc, v \in InHand(p)
      PROVE  vol[v] # "unborn"
  <2>1. CASE HasCopy(p)
    <3>1. proc[p].copy \in Content
      BY <2>1, IsProcState, StoreFields DEF HasCopy
    <3>2. Entry(proc[p].copy) \subseteq Recorded
      BY <2>1 DEF Recorded, Known
    <3> QED  BY <1>1, <1>3, <2>1, <3>1, <3>2, InHandFacts
  <2>2. CASE At(p, "create")
    BY <1>3, <2>2, InHandFacts DEF Provenance, Born
  <2> QED  BY <1>3, <2>1, <2>2, InHandFacts DEF HasCopy, At
<1> QED  BY <1>2, <1>3 DEF Held

\* A command that ends leaves no more behind than the volumes of one instance.
LEMMA EndedKeeps ==
    ASSUME Types, Types', Provenance, Sound, AllStand, Bounded, NEW p \in Proc, Ended(p),
           "store" \notin mixed'
    PROVE  AllStand' /\ Bounded'
<1>1. /\ Alone(p) /\ names' = names /\ resent' = resent /\ proc'[p].pc = "idle"
      /\ UNCHANGED <<vol, at, inst>>
      /\ dead' = dead + (IF proc[p].pc \in {"create", "store", "write"}
                           /\ proc[p].cmd = "create" THEN 1 ELSE 0)
      /\ undone' = undone \cup {v \in Vol : vol[v] = "gone" /\ Deletes(p, v)}
      /\ proc[p].pc # "write"
  <2>1. undone' = undone \cup {v \in Vol : vol[v] = "gone" /\ Deletes(p, v)}
    BY DEF Ended
  <2>2. proc[p].pc # "write"
    BY DEF Ended, At
  <2>3. /\ Alone(p) /\ names' = names /\ resent' = resent /\ UNCHANGED <<vol, at, inst>>
        /\ proc'[p].pc = "idle"
    BY DEF Ended, SameEc2, Idle
  <2>4. dead' = dead + (IF proc[p].pc \in {"create", "store", "write"}
                           /\ proc[p].cmd = "create" THEN 1 ELSE 0)
    BY DEF Ended
  <2> QED  BY <2>1, <2>2, <2>3, <2>4
<1>2. InHand(p)' = {}
  BY <1>1, HandAfter
<1>3. PICK others : /\ Held = Named(names) \cup InHand(p) \cup others
                    /\ Held' = Named(names') \cup InHand(p)' \cup others
  BY <1>1, HeldSplit
<1>4. Held' \subseteq Held /\ Held \subseteq Held' \cup InHand(p) /\ Named(names) \subseteq Held'
  BY <1>1, <1>2, <1>3
<1>5. \A v : Exists(v)' <=> Exists(v)
  BY <1>1 DEF Exists
<1>6. AllStand'
  <2> SUFFICES ASSUME NEW v \in Held' PROVE Standing(v)'
    BY DEF AllStand
  <2>1. v \in Held /\ v \in Vol /\ Standing(v) /\ vol[v] # "unborn"
    BY <1>4, HeldVolumes, Constants, HeldBorn DEF AllStand
  <2>2. CASE Exists(v) \/ v \in undone
    BY <1>1, <1>5, <2>2 DEF Standing
  <2>3. CASE ~Exists(v) /\ Deletes(p, v)
    BY <1>1, <2>1, <2>3 DEF Standing, Exists
  <2>4. CASE \E q \in Proc \ {p} : Deletes(q, v)
    BY <1>1, <2>4, DeletesOthers DEF Standing
  <2> QED  BY <2>1, <2>2, <2>3, <2>4 DEF Standing
<1>7. CASE proc[p].pc \in {"create", "store"} /\ proc[p].cmd = "create"
  <2> DEFINE made == proc[p].made
  <2>1. made \in Seq(Own) /\ Len(made) <= PerInstance /\ InHand(p) \subseteq Named(names) \cup Range(made)
    <3>1. CASE proc[p].pc = "create"
      BY <3>1, IsProcState, CreateFields, InHandFacts DEF Fits, At
    <3>2. CASE proc[p].pc = "store"
      <4>1. /\ proc[p].copy = Added(proc[p].role, made) /\ Len(made) = PerInstance
            /\ made \in List /\ proc[p].role \in Role
        BY <1>7, <3>2, IsProcState, StoreFields DEF Sound, SoundAt, CopyAt, At
      <4>2. Named(proc[p].copy) = Named(names) \cup Range(made)
        BY <4>1, NamedAdded DEF Types
      <4>3. InHand(p) = Named(proc[p].copy)
        BY <3>2, InHandFacts DEF HasCopy
      <4>4. made \in Seq(Own)
        BY <4>1 DEF List
      <4> QED  BY <4>1, <4>2, <4>3, <4>4, Constants
    <3> QED  BY <1>7, <3>1, <3>2
  <2> HIDE DEF made
  <2>2. IsFiniteSet(Range(made)) /\ Cardinality(Range(made)) <= Len(made)
        /\ Len(made) \in Nat /\ Cardinality(Range(made)) \in Nat
    BY <2>1, RangeSmall, FS_CardinalityType
  <2>3. Cardinality(Range(made)) <= PerInstance /\ PerInstance \in Nat
    BY <2>1, <2>2, Constants
  <2>4. Unaccounted' \subseteq Unaccounted \cup Range(made)
    BY <1>4, <1>5, <2>1, UnaccountedHeld DEF Unaccounted, Held
  <2>5. dead \in Nat /\ resent \in Nat
    BY DEF Types
  <2>6. dead' = dead + 1 /\ resent' = resent
    BY <1>1, <1>7
  <2>7. /\ PerInstance * dead' + resent' = PerInstance * dead + resent + PerInstance
        /\ PerInstance * dead + resent \in Nat
    BY <2>3, <2>5, <2>6, OneMore, Natural
  <2>8. PerInstance * dead' + resent' >= PerInstance * dead + resent + PerInstance
    BY <2>3, <2>7
  <2>9. Bounded'
    BY <2>2, <2>3, <2>4, <2>8, BoundedBy
  <2> QED  BY <1>6, <2>9
<1>8. CASE ~(proc[p].pc \in {"create", "store"} /\ proc[p].cmd = "create")
  <2>1. dead' = dead
    BY <1>1, <1>8 DEF Types
  <2>2. InHand(p) \subseteq Named(names)
    <3>1. CASE proc[p].pc = "create"
      BY <1>8, <3>1, IsProcState, CreateFields
    <3>2. CASE proc[p].pc = "store"
      <4>1. proc[p].copy = Removed(Letter(p)) /\ Letter(p) \in Role
        BY <1>8, <3>2, IsProcState, StoreFields DEF Sound, SoundAt, CopyAt, At
      <4>2. \A v \in Named(Removed(Letter(p))) : v \in Named(names)
        BY <4>1, RemovedApart
      <4> QED  BY <3>2, <4>1, <4>2, InHandFacts DEF HasCopy
    <3>3. CASE proc[p].pc \notin {"create", "store", "write"}
      BY <3>3, InHandFacts
    <3> QED  BY <1>1, <3>1, <3>2, <3>3
  <2>3. Bounded'
    BY <1>1, <1>4, <1>5, <2>1, <2>2, KeptBounded
  <2> QED  BY <1>6, <2>3
<1> QED  BY <1>7, <1>8

LEMMA MadeKeeps ==
    ASSUME Types, Types', AllStand, Bounded, NEW p \in Proc, NEW v \in Own, MadeOne(p, v)
    PROVE  AllStand' /\ Bounded'
<1>1. /\ Alone(p) /\ names' = names /\ dead' = dead /\ resent' = resent /\ undone' = undone
      /\ proc[p].pc = "create" /\ proc'[p].pc = "create"
      /\ proc'[p].made = Append(proc[p].made, v) /\ NewVolume(v)
  BY DEF MadeOne, SameRest, At
<1>2. proc[p].made \in Seq(Own)
  BY <1>1, IsProcState, CreateFields
<1>3. InHand(p) = Range(proc[p].made) /\ InHand(p)' = Range(proc[p].made) \cup {v}
  <2>1. Range(Append(proc[p].made, v)) = Range(proc[p].made) \cup {v}
    BY <1>2, RangeAppend
  <2>2. InHand(p) = Range(proc[p].made) /\ InHand(p)' = Range(proc'[p].made)
    BY <1>1, InHandFacts, HandAfter DEF At
  <2> QED  BY <1>1, <2>1, <2>2
<1>4. PICK others : /\ Held = Named(names) \cup InHand(p) \cup others
                    /\ Held' = Named(names') \cup InHand(p)' \cup others
  BY <1>1, HeldSplit
<1>5. Held' = Held \cup {v}
  BY <1>1, <1>3, <1>4
<1>6. vol'[v] = "creating" /\ \A w \in Vol \ {v} : vol'[w] = vol[w]
  BY <1>1, NewVolumeTypes
<1>7. Exists(v)' /\ \A w \in Own \ {v} : Exists(w)' <=> Exists(w)
  BY <1>6, Constants DEF Exists
<1>8. Bounded'
  BY <1>1, <1>5, <1>7, KeptBounded
<1>9. AllStand'
  <2> SUFFICES ASSUME NEW w \in Held' PROVE Standing(w)'
    BY DEF AllStand
  <2>1. CASE w = v
    BY <1>7, <2>1 DEF Standing
  <2>2. CASE w # v
    <3>1. w \in Held /\ w \in Own /\ Standing(w)
      BY <1>5, <2>2, HeldVolumes DEF AllStand
    <3>2. \A q \in Proc : Deletes(q, w) => Deletes(q, w)'
      BY <1>1, DeletesOthers DEF Deletes, At
    <3> QED  BY <1>1, <1>7, <2>2, <3>1, <3>2 DEF Standing
  <2> QED  BY <2>1, <2>2
<1> QED  BY <1>8, <1>9

LEMMA SameDeletes ==
    ASSUME proc' = proc, names' = names
    PROVE  Held' = Held /\ \A q, v : Deletes(q, v)' <=> Deletes(q, v)
<1>1. Held' = Held
  BY DEF Held, InHand, Named, Flat, At
<1>2. \A q : Stored(Letter(q))' = Stored(Letter(q))
  BY DEF Stored, Letter
<1> QED  BY <1>1, <1>2 DEF Deletes, At

LEMMA LostKeeps ==
    ASSUME Types, Types', AllStand, Bounded, NEW v \in Own, LostOne(v)
    PROVE  AllStand' /\ Bounded'
<1>1. /\ proc' = proc /\ names' = names /\ dead' = dead /\ resent' = resent + 1
      /\ undone' = undone /\ NewVolume(v)
  BY DEF LostOne
<1>2. vol'[v] = "creating" /\ \A w \in Vol \ {v} : vol'[w] = vol[w]
  BY <1>1, NewVolumeTypes
<1>3. Exists(v)' /\ \A w \in Own \ {v} : Exists(w)' <=> Exists(w)
  BY <1>2, Constants DEF Exists
<1>4. Held' = Held /\ \A q, w : Deletes(q, w)' <=> Deletes(q, w)
  BY <1>1, SameDeletes
<1>5. AllStand'
  BY <1>1, <1>3, <1>4, KeptStand
<1>6. Unaccounted' \subseteq Unaccounted \cup {v}
  BY <1>3, <1>4, UnaccountedHeld DEF Unaccounted, Held
<1>7. IsFiniteSet({v}) /\ Cardinality({v}) = 1
  BY FS_Singleton
<1>8. PerInstance \in Nat /\ dead \in Nat /\ resent \in Nat
  BY Constants DEF Types
<1>9. PerInstance * dead + resent \in Nat /\ PerInstance * dead' = PerInstance * dead
      /\ PerInstance * dead \in Nat
  BY <1>1, <1>8, Natural
<1> DEFINE x == PerInstance * dead
<1>10. x + resent' >= x + resent + 1
  <2> x \in Nat
    BY <1>9
  <2> HIDE DEF x
  <2> QED  BY <1>1, <1>8
<1>11. PerInstance * dead' + resent' >= PerInstance * dead + resent + 1
  BY <1>9, <1>10
<1> HIDE DEF x
<1>12. Cardinality({v}) <= 1 /\ 1 \in Nat
  BY <1>7
<1>13. Bounded'
  BY <1>6, <1>7, <1>11, <1>12, BoundedBy
<1> QED  BY <1>5, <1>13

LEMMA Ec2Keeps ==
    ASSUME Types, Types', AllStand, Bounded, Ec2Moves
    PROVE  AllStand' /\ Bounded'
<1>1. /\ proc' = proc /\ names' = names /\ dead' = dead /\ resent' = resent /\ undone' = undone
      /\ \A v \in Vol : /\ vol'[v] = "unborn" <=> vol[v] = "unborn"
                        /\ vol'[v] = "gone" <=> vol[v] = "gone"
  BY DEF Ec2Moves, SameRest
<1>2. \A v \in Own : Exists(v)' <=> Exists(v)
  BY <1>1, Constants DEF Exists
<1>3. Held' = Held /\ \A q, w : Deletes(q, w)' <=> Deletes(q, w)
  BY <1>1, SameDeletes
<1>4. AllStand'
  BY <1>1, <1>2, <1>3, KeptStand
<1>5. Bounded'
  BY <1>1, <1>2, <1>3, KeptBounded
<1> QED  BY <1>4, <1>5

LEMMA DeletesKeeps ==
    ASSUME Types, Types', Sound, AllStand, Bounded, NEW p \in Proc, NEW v \in Vol, DeletesOne(p, v)
    PROVE  AllStand' /\ Bounded'
<1>1. /\ Alone(p) /\ names' = names /\ dead' = dead /\ resent' = resent /\ undone' = undone
      /\ proc[p].pc = "delete" /\ proc'[p].pc = "delete" /\ proc'[p].rest = proc[p].rest
      /\ v \in proc[p].ids /\ vol' = [vol EXCEPT ![v] = "gone"]
  BY DEF DeletesOne, SameRest, At
<1>2. PICK others : /\ Held = Named(names) \cup InHand(p) \cup others
                    /\ Held' = Named(names') \cup InHand(p)' \cup others
  BY <1>1, HeldSplit
<1>3. Held' = Held
  BY <1>1, <1>2, InHandFacts, HandAfter
<1>4. vol'[v] = "gone" /\ \A w \in Vol \ {v} : vol'[w] = vol[w]
  BY <1>1 DEF Types, Ec2Types
<1>5. ~Exists(v)' /\ \A w \in Own \ {v} : Exists(w)' <=> Exists(w)
  BY <1>4, Constants DEF Exists
<1>6. Bounded'
  BY <1>1, <1>3, <1>5, KeptBounded
<1>7. Stored(Letter(p))' = Stored(Letter(p))
  BY <1>1 DEF Stored, Letter
<1>8. Deletes(p, v)'
  <2>1. \/ Stored(Letter(p)) = {}
        \/ proc[p].ids \subseteq Stored(Letter(p))
    BY <1>1 DEF Sound, SoundAt, GoneAt, At
  <2>2. \/ Stored(Letter(p))' = {}
        \/ v \in Stored(Letter(p))'
    BY <1>1, <1>7, <2>1
  <2> QED  BY <1>1, <2>2 DEF Deletes, At
<1>9. \A w : Deletes(p, w) => Deletes(p, w)'
  BY <1>1, <1>7 DEF Deletes, At
<1>10. AllStand'
  <2> SUFFICES ASSUME NEW w \in Held' PROVE Standing(w)'
    BY DEF AllStand
  <2>1. CASE w = v
    BY <1>8, <2>1 DEF Standing
  <2>2. CASE w # v
    <3>1. w \in Own /\ Standing(w)
      BY <1>3, HeldVolumes DEF AllStand
    <3>2. \A q \in Proc : Deletes(q, w) => Deletes(q, w)'
      BY <1>1, <1>9, DeletesOthers
    <3> QED  BY <1>1, <1>5, <2>2, <3>1, <3>2 DEF Standing
  <2> QED  BY <2>1, <2>2
<1> QED  BY <1>6, <1>10

\* To truncate the file loses nothing: its volumes are in the hands of the process,
\* or have been deleted.
LEMMA TruncatesKeeps ==
    ASSUME Types, Types', Provenance, Sound, AllStand, Bounded, NEW p \in Proc, Truncates(p),
           "store" \notin mixed'
    PROVE  AllStand' /\ Bounded'
<1>1. /\ Alone(p) /\ names' = Empty /\ dead' = dead /\ resent' = resent /\ undone' = undone
      /\ proc[p].pc = "store" /\ proc'[p].pc = "write" /\ proc'[p].copy = proc[p].copy
      /\ proc[p].copy \in Content /\ vol' = vol
      /\ \A q \in Proc \ {p} : proc[q].pc \notin Updating
  BY DEF Truncates, SameEc2, At, Others
<1>2. InHand(p) = Named(proc[p].copy) /\ InHand(p)' = Named(proc[p].copy)
  BY <1>1, InHandFacts, HandAfter DEF HasCopy
<1>3. Named(names') = {}
  BY <1>1, NoneNamed
<1>4. PICK others : /\ Held = Named(names) \cup InHand(p) \cup others
                    /\ Held' = Named(names') \cup InHand(p)' \cup others
                    /\ others = UNION {InHand(q) : q \in Proc \ {p}}
  BY <1>1, HeldSplit
<1>5. Held' = Named(proc[p].copy) \cup others /\ Held = Named(names) \cup Held'
  BY <1>2, <1>3, <1>4
<1>6. \A v : Exists(v)' <=> Exists(v)
  BY <1>1 DEF Exists
<1>7. \A q \in Proc \ {p} : \A v : ~Deletes(q, v)
  BY <1>1 DEF Deletes, At, Updating
<1>8. CopyAt(p) /\ GoneAt(p)
  BY DEF Sound, SoundAt
<1>9. CASE proc[p].cmd = "create"
  <2>1. proc[p].copy = Added(proc[p].role, proc[p].made) /\ proc[p].role \in Role
        /\ proc[p].made \in List
    BY <1>1, <1>8, <1>9, IsProcState, StoreFields DEF CopyAt, At
  <2>2. Named(names) \subseteq Named(proc[p].copy)
    BY <2>1, NamedAdded DEF Types
  <2>3. Held' = Held
    BY <1>5, <2>2
  <2>4. \A q \in Proc : \A v : ~Deletes(q, v)
    BY <1>1, <1>7, <1>9 DEF Deletes, At
  <2>5. AllStand'
    BY <1>1, <1>6, <2>3, <2>4, KeptStand
  <2>6. Bounded'
    BY <1>1, <1>6, <2>3, KeptBounded
  <2> QED  BY <2>5, <2>6
<1>10. CASE proc[p].cmd = "delete"
  <2> DEFINE r == Letter(p)
  <2>1. proc[p].copy = Removed(r) /\ r \in Role /\ names[r] # <<>>
        /\ \A v \in Stored(r) : ~Exists(v)
    BY <1>1, <1>8, <1>10 DEF CopyAt, GoneAt, At
  <2>2. Stored(r) # {}
    BY <2>1, FilledLists DEF Types
  <2>3. \A v : Deletes(p, v) => v \in Stored(r)
    BY <2>2 DEF Deletes
  <2> HIDE DEF r
  <2>4. ASSUME NEW v \in Held'
        PROVE  v \notin Stored(r)
    <3>1. CASE v \in Named(proc[p].copy)
      BY <2>1, <3>1, RemovedApart
    <3>2. CASE v \in others
      <4>1. PICK q \in Proc \ {p} : v \in InHand(q)
        BY <1>4, <3>2
      <4>2. proc[q].pc \notin {"store", "write"}
        BY <1>1 DEF Updating
      <4>3. At(q, "create") /\ v \in Range(proc[q].made)
        BY <4>1, <4>2, InHandFacts DEF At
      <4>4. \A e \in Recorded : ~Meet(proc[q].made, e[2])
        BY <4>3 DEF Provenance, Fresh, FreshFor
      <4>5. \A e \in Entry(names) : v \notin Range(e[2])
        BY <4>3, <4>4, NamesKnown DEF Meet
      <4> QED  BY <4>5, StoredEntries DEF Types
    <3> QED  BY <1>5, <3>1, <3>2
  <2>5. ASSUME NEW v \in Named(names), v \notin Named(proc[p].copy)
        PROVE  v \in Stored(r)
    <3>1. PICK e \in Entry(names) : v \in Range(e[2])
      BY NamedEntry DEF Types
    <3>2. e[1] = r
      BY <2>1, <2>5, <3>1, NamedRemoved DEF Types
    <3>3. v \in Flat(names[r])
      BY <2>1, <3>1, <3>2, NamedEntry DEF Types
    <3> QED  BY <2>1, <3>3 DEF Stored
  <2>6. \A v \in Held : v \in Held' \/ ~Exists(v)'
    BY <1>5, <1>6, <2>1, <2>5
  <2>7. Bounded'
    BY <1>1, <1>6, <2>6, KeptBounded
  <2>8. AllStand'
    <3> SUFFICES ASSUME NEW v \in Held' PROVE Standing(v)'
      BY DEF AllStand
    <3>1. Standing(v) /\ v \notin Stored(r)
      BY <1>5, <2>4 DEF AllStand
    <3>2. \A q \in Proc : ~Deletes(q, v)
      BY <1>7, <2>3, <3>1
    <3> QED  BY <1>1, <1>6, <3>1, <3>2 DEF Standing
  <2> QED  BY <2>7, <2>8
<1> QED  BY <1>1, <1>9, <1>10, IsProcState, StoreFields

LEMMA WritesKeeps ==
    ASSUME Types, Types', Sound, AllStand, Bounded, NEW p \in Proc, Writes(p)
    PROVE  AllStand' /\ Bounded'
<1>1. /\ Alone(p) /\ dead' = dead /\ resent' = resent /\ undone' = undone
      /\ proc[p].pc = "write" /\ vol' = vol
      /\ names' = proc[p].copy \/ names # Empty
      /\ proc'[p].pc = "role" \/ (proc'[p].pc = "create" /\ proc'[p].made = <<>>)
  BY DEF Writes, SameEc2, At
<1>2. names = Empty /\ \A q \in Proc \ {p} : proc[q].pc \notin Updating
  BY <1>1 DEF Sound, SoundAt, AloneAt, At
<1>3. InHand(p) = Named(proc[p].copy) /\ InHand(p)' = {}
  BY <1>1, InHandFacts, HandAfter, NoneMade DEF HasCopy
<1>4. Named(names) = {} /\ Named(names') = Named(proc[p].copy)
  BY <1>1, <1>2, NoneNamed
<1>5. PICK others : /\ Held = Named(names) \cup InHand(p) \cup others
                    /\ Held' = Named(names') \cup InHand(p)' \cup others
  BY <1>1, HeldSplit
<1>6. Held' = Held
  BY <1>3, <1>4, <1>5
<1>7. \A v : Exists(v)' <=> Exists(v)
  BY <1>1 DEF Exists
<1>8. \A q \in Proc : \A v : ~Deletes(q, v)
  BY <1>1, <1>2 DEF Deletes, At, Updating
<1>9. AllStand'
  BY <1>1, <1>6, <1>7, <1>8, KeptStand
<1>10. Bounded'
  BY <1>1, <1>6, <1>7, KeptBounded
<1> QED  BY <1>9, <1>10

\* What the file says of EC2 is kept, by any process, while updates do not overlap.
LEMMA UpdatesStep ==
    ASSUME Types, Provenance, Updates, [Next]_vars
    PROVE  Updates'
<1>1. /\ Types'
      /\ (\E p \in Proc : Moves(p)) \/ (\E v \in Own : LostOne(v)) \/ Ec2Moves
  BY StepTypes
<1> SUFFICES ASSUME "store" \notin mixed'
             PROVE  Sound' /\ AllStand' /\ Bounded'
  BY DEF Updates
<1>2. "store" \notin mixed
  BY <1>1, MixedGrows DEF LostOne, Ec2Moves, SameRest
<1>3. Sound /\ AllStand /\ Bounded
  BY <1>2 DEF Updates
<1>4. Sound'
  BY <1>1, <1>3, SoundStep
<1>5. ASSUME NEW p \in Proc, Moves(p)
      PROVE  AllStand' /\ Bounded'
  BY <1>1, <1>3, <1>5, HarmlessMoves, HarmlessKeeps, EndedKeeps, MadeKeeps, DeletesKeeps,
     TruncatesKeeps, WritesKeeps DEF Moves
<1> QED  BY <1>1, <1>3, <1>4, <1>5, LostKeeps, Ec2Keeps

LEMMA InitUpdates == Init => Updates
<1> SUFFICES ASSUME Init PROVE Sound /\ AllStand /\ Bounded
  BY DEF Updates
<1>1. names = Empty /\ \A p \in Proc : proc[p].pc = "idle"
  BY DEF Init, Idle
<1>2. Sound
  BY <1>1, OutsideSound DEF Sound, Updating
<1>3. \A p \in Proc : InHand(p) = {}
  BY <1>1, InHandFacts
<1>4. Held = {}
  BY <1>1, <1>3, NoneNamed DEF Held
<1>5. AllStand
  BY <1>4 DEF AllStand
<1>6. \A v \in Own : ~Exists(v)
  BY Constants DEF Init, Exists
<1>7. Unaccounted = {}
  BY <1>6, UnaccountedHeld
<1>8. dead = 0 /\ resent = 0 /\ PerInstance \in Nat
  BY Constants DEF Init
<1>9. Cardinality(Unaccounted) = 0
  BY <1>7, FS_EmptySet
<1>10. PerInstance * dead + resent = 0
  BY <1>8
<1>11. Bounded
  BY <1>9, <1>10 DEF Bounded
<1> QED  BY <1>2, <1>5, <1>11

\* As long as no two commands updated the file at a time, a volume that the file names exists,
\* but for what a delete-storage is deleting and for what those that ended early had deleted.
THEOREM FileNamesWhatExists == Spec => []RecordedVolumesExist
<1>1. Init => Types /\ Provenance /\ Updates
  BY InitTypes, InitProvenance, InitUpdates
<1>2. Types /\ Provenance /\ Updates /\ [Next]_vars => (Types /\ Provenance /\ Updates)'
  BY StepTypes, ProvenanceStep, UpdatesStep
<1>3. Updates => RecordedVolumesExist
  BY DEF Updates, AllStand, Standing, Held, RecordedVolumesExist
<1> QED  BY <1>1, <1>2, <1>3, PTL DEF Spec

\* As long as no two commands updated the file at a time, the volumes that nobody accounts
\* for are at most those of one instance for each create-storage that ended early and one
\* for each call that was sent again.
THEOREM LeaksBounded == Spec => []LeaksAreBounded
<1>1. Init => Types /\ Provenance /\ Updates
  BY InitTypes, InitProvenance, InitUpdates
<1>2. Types /\ Provenance /\ Updates /\ [Next]_vars => (Types /\ Provenance /\ Updates)'
  BY StepTypes, ProvenanceStep, UpdatesStep
<1>3. Types /\ Provenance /\ Updates => LeaksAreBounded
  BY DEF Updates, Bounded, LeaksAreBounded
<1> QED  BY <1>1, <1>2, <1>3, PTL DEF Spec

-----------------------------------------------------------------------------
(* Attachments, as long as nobody attaches or updates at the same time      *)

LEMMA FilesFacts ==
    ASSUME Types, Provenance, NEW c \in Files
    PROVE  c \in Content /\ Once(c) /\ Entry(c) \subseteq Recorded
<1>1. CASE c = names
  BY <1>1, NamesKnown DEF Types, Provenance, AllOnce
<1>2. CASE c # names
  <2>1. PICK p \in Proc : HasCopy(p) /\ c = proc[p].copy
    BY <1>2 DEF Files
  <2>2. c \in Content
    BY <2>1, IsProcState, StoreFields DEF HasCopy
  <2>3. Entry(c) \subseteq Recorded
    BY <2>1, CopyKnown, NamesKnown
  <2> QED  BY <2>1, <2>2, <2>3 DEF Provenance, AllOnce
<1> QED  BY <1>1, <1>2

\* Two lists of a content that share a volume are at one place.
LEMMA OnePlace ==
    ASSUME Types, Provenance, NEW c \in Files, NEW r \in Role, NEW n \in DOMAIN c[r],
           NEW k \in DOMAIN c[r], NEW v \in Range(c[r][n]), v \in Range(c[r][k])
    PROVE  n = k
<1>1. c \in Content /\ Once(c) /\ Entry(c) \subseteq Recorded
  BY FilesFacts
<1>2. <<r, c[r][n]>> \in Recorded /\ <<r, c[r][k]>> \in Recorded
  BY <1>1, EntryFacts
<1>3. <<r, c[r][n]>> = <<r, c[r][k]>>
  <2>1. Meet(<<r, c[r][n]>>[2], <<r, c[r][k]>>[2])
    BY DEF Meet
  <2> QED  BY <1>2, <2>1 DEF Provenance, Apart
<1>4. IsInjective(c[r]) /\ c[r][n] = c[r][k]
  BY <1>1, <1>3 DEF Once
<1> QED  BY <1>4 DEF IsInjective

AtShrinks == \A v \in Vol : at'[v] \in {at[v], None}

\* Content c is content d, or part of it, or has lists in addition that are not attached.
Passes(c, d) == \A r \in Role :
    \/ c[r] = d[r] \/ c[r] = <<>>
    \/ \E l \in List : c[r] = Append(d[r], l) /\ \A v \in Range(l) : at[v] = None

LEMMA SamePasses == \A c : Passes(c, c)
BY DEF Passes

LEMMA AppendedList ==
    ASSUME NEW lists \in Seq(List), NEW l \in List, NEW n \in DOMAIN Append(lists, l)
    PROVE  \/ n \in DOMAIN lists /\ Append(lists, l)[n] = lists[n]
           \/ n = Len(lists) + 1 /\ Append(lists, l)[n] = l
<1>1. /\ Len(lists) \in Nat /\ DOMAIN lists = 1 .. Len(lists)
      /\ DOMAIN Append(lists, l) = 1 .. Len(lists) + 1
  OBVIOUS
<1>2. \A k \in 1 .. Len(lists) : Append(lists, l)[k] = lists[k]
  BY <1>1
<1>3. Append(lists, l)[Len(lists) + 1] = l
  BY <1>1
<1>4. n \in 1 .. Len(lists) \/ n = Len(lists) + 1
  BY <1>1
<1> QED  BY <1>1, <1>2, <1>3, <1>4

\* What is attached in c is at the same place in d.
LEMMA PassesBack ==
    ASSUME Types, NEW d \in Content, NEW c, Passes(c, d), NEW r \in Role, NEW n \in DOMAIN c[r],
           NEW v \in Range(c[r][n]), at[v] # None
    PROVE  n \in DOMAIN d[r] /\ v \in Range(d[r][n])
<1>1. d[r] \in Seq(List)
  BY DEF Content
<1>2. CASE c[r] = d[r]
  BY <1>2
<1>3. CASE c[r] = <<>>
  BY <1>3
<1>4. CASE \E l \in List : c[r] = Append(d[r], l) /\ \A w \in Range(l) : at[w] = None
  <2>1. PICK l \in List : c[r] = Append(d[r], l) /\ \A w \in Range(l) : at[w] = None
    BY <1>4
  <2>2. c[r][n] # l
    BY <2>1
  <2> QED  BY <1>1, <2>1, <2>2, AppendedList
<1> QED  BY <1>2, <1>3, <1>4 DEF Passes

LEMMA PassesKeeps ==
    ASSUME Types, AtShrinks, NEW d \in Content, NEW c \in Content, Passes(c, d)
    PROVE  /\ OneList(at, d) => OneList(at', c)
           /\ \A s : s.role \in Role /\ KnowsOf(at, s, d) => KnowsOf(at', s, c)
<1>1. ASSUME NEW r \in Role, NEW n \in DOMAIN c[r], NEW v \in Range(c[r][n]), at'[v] # None
      PROVE  at'[v] = at[v] /\ n \in DOMAIN d[r] /\ v \in Range(d[r][n])
  <2>1. v \in Vol
    <3>1. c[r] \in Seq(List)
      BY DEF Content
    <3> QED  BY <3>1, Lists, Constants
  <2>2. at'[v] = at[v]
    BY <1>1, <2>1 DEF AtShrinks
  <2> QED  BY <1>1, <2>2, PassesBack
<1>2. ASSUME OneList(at, d)
      PROVE  OneList(at', c)
  <2> SUFFICES ASSUME NEW r \in Role, NEW n \in DOMAIN c[r], NEW k \in DOMAIN c[r],
                      NEW v \in Range(c[r][n]), NEW w \in Range(c[r][k]),
                      at'[v] = at'[w], at'[v] # None
               PROVE  n = k
    BY DEF OneList
  <2>1. at'[v] = at[v] /\ n \in DOMAIN d[r] /\ v \in Range(d[r][n])
    BY <1>1
  <2>2. at'[w] = at[w] /\ k \in DOMAIN d[r] /\ w \in Range(d[r][k])
    BY <1>1
  <2>3. \A x \in Range(d[r][n]), y \in Range(d[r][k]) : at[x] = at[y] /\ at[x] # None => n = k
    BY <1>2, <2>1, <2>2 DEF OneList
  <2>4. at[v] = at[w] /\ at[v] # None
    BY <2>1, <2>2
  <2> QED  BY <2>1, <2>2, <2>3, <2>4
<1>3. ASSUME NEW s, s.role \in Role, KnowsOf(at, s, d)
      PROVE  KnowsOf(at', s, c)
  <2> SUFFICES ASSUME NEW v \in Flat(c[s.role]), at'[v] # None
               PROVE  v \in Flat(s.lists)
    BY DEF KnowsOf
  <2>1. PICK n \in DOMAIN c[s.role] : v \in Range(c[s.role][n])
    BY DEF Flat
  <2>2. at'[v] = at[v] /\ n \in DOMAIN d[s.role] /\ v \in Range(d[s.role][n])
    BY <1>1, <1>3, <2>1
  <2>3. v \in Flat(d[s.role])
    BY <2>2 DEF Flat
  <2> QED  BY <1>3, <2>2, <2>3 DEF KnowsOf
<1> QED  BY <1>2, <1>3

LEMMA OneListShrinks ==
    ASSUME Types, AtShrinks, NEW c \in Content, OneList(at, c)
    PROVE  OneList(at', c)
BY SamePasses, PassesKeeps

LEMMA PlanShrinks ==
    ASSUME Types, AtShrinks, NEW s \in ProcState, s.pc = "attach", PlanHolds(at, s)
    PROVE  PlanHolds(at', s)
<1> SUFFICES ASSUME NEW n \in DOMAIN s.plan, NEW v \in Flat(s.lists), at'[v] = s.plan[n]
             PROVE  v \in Range(s.lists[n])
  BY DEF PlanHolds
<1>1. s.lists \in Seq(List) /\ s.plan[n] \in Inst
  BY AttachFields
<1>2. v \in Vol
  <2>1. PICK k \in DOMAIN s.lists : v \in Range(s.lists[k])
    BY DEF Flat
  <2> QED  BY <1>1, <2>1, Lists, Constants
<1>3. at[v] = s.plan[n]
  BY <1>1, <1>2, Constants DEF AtShrinks
<1> QED  BY <1>3 DEF PlanHolds

\* The contents after a step of p.
LEMMA FilesAfter ==
    ASSUME NEW p \in Proc, Alone(p), NEW c \in Files'
    PROVE  c = names' \/ c \in Files \/ (HasCopy(p)' /\ c = proc'[p].copy)
<1>1. CASE c = names'
  BY <1>1
<1>2. CASE c # names'
  <2>1. PICK q \in Proc : HasCopy(q)' /\ c = proc'[q].copy
    BY <1>2 DEF Files
  <2>2. CASE q = p
    BY <2>1, <2>2
  <2>3. CASE q # p
    <3>1. HasCopy(q) /\ c = proc[q].copy
      BY <2>1, <2>3, KnownAlone DEF Alone
    <3> QED  BY <3>1 DEF Files
  <2> QED  BY <2>2, <2>3
<1> QED  BY <1>1, <1>2

\* The steps that attach nothing.
Attaches(p) == \E n \in DOMAIN proc[p].plan, v \in Own : AttachesOne(p, n, v)

LEMMA MovesShrink ==
    ASSUME Types, NEW p \in Proc, Moves(p), ~Attaches(p)
    PROVE  AtShrinks
<1>1. at' = at
  BY DEF Moves, Attaches, Quiet, Ended, MadeOne, NewVolume, AddsOne, Truncates, Writes, Reads,
         MakesPlan, TakesNext, ReadsLetter, Checks, DeletesOne, Removes, SameEc2
<1> QED  BY <1>1 DEF AtShrinks

\* The steps that leave a process with a copy of the file, and with lists of it.
LEMMA MovesToCopy ==
    ASSUME NEW p \in Proc, Moves(p), proc'[p].pc \in {"store", "write"}
    PROVE  AddsOne(p) \/ Removes(p) \/ Truncates(p)
<1>1. ~Quiet(p) /\ ~Ended(p) /\ ~Writes(p)
  BY DEF Quiet, Ended, Writes, Rests, Idle
<1>2. ~Reads(p) /\ ~MakesPlan(p) /\ ~TakesNext(p) /\ ~ReadsLetter(p) /\ ~Checks(p)
  BY DEF Reads, MakesPlan, TakesNext, ReadsLetter, Checks
<1>3. \A v : ~MadeOne(p, v) /\ ~DeletesOne(p, v) /\ \A n : ~AttachesOne(p, n, v)
  BY DEF MadeOne, DeletesOne, AttachesOne
<1> QED  BY <1>1, <1>2, <1>3 DEF Moves

LEMMA MovesToLists ==
    ASSUME NEW p \in Proc, Moves(p), ~Attaches(p), proc'[p].pc \in {"describe", "attach"}
    PROVE  Reads(p) \/ MakesPlan(p) \/ TakesNext(p)
<1>1. ~Quiet(p) /\ ~Ended(p) /\ ~Writes(p)
  BY DEF Quiet, Ended, Writes, Rests, Idle
<1>2. ~AddsOne(p) /\ ~Truncates(p) /\ ~ReadsLetter(p) /\ ~Checks(p) /\ ~Removes(p)
  BY DEF AddsOne, Truncates, ReadsLetter, Checks, Removes
<1>3. \A v : ~MadeOne(p, v) /\ ~DeletesOne(p, v)
  BY DEF MadeOne, DeletesOne
<1> QED  BY <1>1, <1>2, <1>3 DEF Moves, Attaches

\* The contents after a step come from those before it.
LEMMA FilesPass ==
    ASSUME Types, Attached, NEW p \in Proc, Moves(p), NEW c \in Files'
    PROVE  \E d \in Files : Passes(c, d)
<1>1. names \in Files /\ Alone(p)
  BY DEF Files, Moves, Quiet, Ended, MadeOne, AddsOne, Truncates, Writes, Reads, MakesPlan,
         AttachesOne, TakesNext, ReadsLetter, Checks, DeletesOne, Removes
<1>2. CASE c \in Files
  BY <1>2, SamePasses
<1>3. CASE c = Empty
  BY <1>1, <1>3, EmptyContent DEF Passes
<1>4. CASE c = names' /\ c \notin Files /\ c # Empty
  <2>1. Truncates(p) \/ Writes(p)
    BY <1>1, <1>4 DEF Moves, Quiet, Ended, MadeOne, AddsOne, Reads, MakesPlan, AttachesOne,
                      TakesNext, ReadsLetter, Checks, DeletesOne, Removes, SameRest
  <2>2. HasCopy(p) /\ (names' = Empty \/ names' = proc[p].copy)
    BY <2>1 DEF Truncates, Writes, HasCopy, At
  <2> QED  BY <1>4, <2>2 DEF Files
<1>5. CASE HasCopy(p)' /\ c = proc'[p].copy /\ c \notin Files
  <2>1. AddsOne(p) \/ Removes(p) \/ Truncates(p)
    BY <1>5, MovesToCopy DEF HasCopy
  <2>2. CASE AddsOne(p)
    <3>1. /\ proc[p].role \in Role /\ proc[p].made \in List /\ At(p, "create")
          /\ c = Added(proc[p].role, proc[p].made)
      BY <1>5, <2>2 DEF AddsOne
    <3>2. /\ c[proc[p].role] = Append(names[proc[p].role], proc[p].made)
          /\ \A r \in Role \ {proc[p].role} : c[r] = names[r]
      <4>1. c = [names EXCEPT ![proc[p].role] = Append(@, proc[p].made)] /\ names \in Content
        BY <3>1 DEF Added, Types
      <4> QED  BY <3>1, <4>1, AddedContent
    <3>3. \A v \in Range(proc[p].made) : at[v] = None
      BY <3>1 DEF Attached, LooseAt
    <3>4. Passes(c, names)
      BY <3>1, <3>2, <3>3 DEF Passes
    <3> QED  BY <1>1, <3>4
  <2>3. CASE Removes(p)
    <3>1. Letter(p) \in Role /\ c = Removed(Letter(p))
      BY <1>5, <2>3 DEF Removes
    <3>2. c[Letter(p)] = <<>> /\ \A r \in Role \ {Letter(p)} : c[r] = names[r]
      BY <3>1, RemovedContent DEF Removed, Types
    <3>3. Passes(c, names)
      BY <3>2 DEF Passes
    <3> QED  BY <1>1, <3>3
  <2>4. CASE Truncates(p)
    <3>1. HasCopy(p) /\ c = proc[p].copy
      BY <1>5, <2>4 DEF Truncates, HasCopy, At
    <3> QED  BY <1>5, <3>1 DEF Files
  <2> QED  BY <2>1, <2>2, <2>3, <2>4
<1> QED  BY <1>1, <1>2, <1>3, <1>4, <1>5, FilesAfter

\* attach-storage has read the file when it was whole, and nobody has attached a volume
\* that is about to be stored.
LEMMA ReadsKnows ==
    ASSUME Types, Provenance, Sound, Attached, NEW p \in Proc, ~torn, At(p, "list"),
           NEW c \in Files, NEW r \in Role, NEW v \in Flat(c[r]), at[v] # None
    PROVE  v \in Flat(names[r])
<1>1. CASE c = names
  BY <1>1
<1>2. CASE c # names
  <2>1. PICK q \in Proc : HasCopy(q) /\ c = proc[q].copy
    BY <1>2 DEF Files
  <2>2. proc[q].pc = "store"
    BY <2>1 DEF Sound, SoundAt, AloneAt, HasCopy, At
  <2>3. PICK n \in DOMAIN c[r] : v \in Range(c[r][n])
    BY DEF Flat
  <2>4. Passes(c, names)
    <3>1. CASE proc[q].cmd = "create"
      <4>1. /\ proc[q].role \in Role /\ proc[q].made \in List
            /\ c = Added(proc[q].role, proc[q].made)
        BY <2>1, <2>2, <3>1, IsProcState, StoreFields DEF Sound, SoundAt, CopyAt, At
      <4>2. /\ c[proc[q].role] = Append(names[proc[q].role], proc[q].made)
            /\ \A s \in Role \ {proc[q].role} : c[s] = names[s]
        BY <4>1, AddedContent DEF Added, Types
      <4>3. \A w \in Range(proc[q].made) : at[w] = None
        BY <2>2, <3>1 DEF Attached, LooseAt, At
      <4> QED  BY <4>1, <4>2, <4>3 DEF Passes
    <3>2. CASE proc[q].cmd = "delete"
      <4>1. Letter(q) \in Role /\ c = Removed(Letter(q))
        BY <2>1, <2>2, <3>2 DEF Sound, SoundAt, CopyAt, At
      <4>2. c[Letter(q)] = <<>> /\ \A s \in Role \ {Letter(q)} : c[s] = names[s]
        <5>1. names \in Content
          BY DEF Types
        <5> QED  BY <4>1, <5>1, RemovedContent DEF Removed
      <4> QED  BY <4>2 DEF Passes
    <3> QED  BY <2>2, <3>1, <3>2, IsProcState, StoreFields
  <2>5. n \in DOMAIN names[r] /\ v \in Range(names[r][n])
    BY <2>3, <2>4, PassesBack DEF Types
  <2> QED  BY <2>5 DEF Flat
<1> QED  BY <1>1, <1>2

LEMMA AttachedAfter ==
    ASSUME \A c \in Files' : /\ OneList(at', c)
                             /\ \A q \in Proc : HasLists(q)' => KnowsOf(at', proc'[q], c),
           \A q \in Proc : proc'[q].pc = "attach" => PlanHolds(at', proc'[q]),
           \A q \in Proc : LooseAt(q)'
    PROVE  Attached'
<1>1. ASSUME NEW c \in Files'
      PROVE  (OneList(at, c))' /\ \A q \in Proc : HasLists(q)' => (KnowsOf(at, proc[q], c))'
  BY DEF OneList, KnowsOf, Flat
<1>2. \A q \in Proc : At(q, "attach")' => (PlanHolds(at, proc[q]))'
  BY DEF PlanHolds, Flat, At
<1> QED  BY <1>1, <1>2 DEF Attached

LEMMA ShrinkAttached ==
    ASSUME Types, Types', Provenance, Sound, Attached, NEW p \in Proc, Moves(p), ~Attaches(p)
    PROVE  Attached'
<1>1. AtShrinks
  BY MovesShrink
<1>2. Alone(p)
  BY DEF Moves, Attaches, Quiet, Ended, MadeOne, AddsOne, Truncates, Writes, Reads, MakesPlan,
         TakesNext, ReadsLetter, Checks, DeletesOne, Removes
<1>3. \A c \in Files' : c \in Content
  <2> SUFFICES ASSUME NEW c \in Files' PROVE c \in Content
    OBVIOUS
  <2>1. CASE HasCopy(p)' /\ c = proc'[p].copy
    <3>1. AddsOne(p) \/ Removes(p) \/ Truncates(p)
      BY <2>1, MovesToCopy DEF HasCopy
    <3>2. CASE AddsOne(p)
      <4>1. /\ proc[p].role \in Role /\ proc[p].made \in List /\ names \in Content
            /\ c = Added(proc[p].role, proc[p].made)
        BY <2>1, <3>2 DEF AddsOne, Types
      <4> QED  BY <4>1, AddedContent DEF Added
    <3>3. CASE Removes(p)
      <4>1. Letter(p) \in Role /\ names \in Content /\ c = Removed(Letter(p))
        BY <2>1, <3>3 DEF Removes, Types
      <4> QED  BY <4>1, RemovedContent DEF Removed
    <3>4. CASE Truncates(p)
      BY <2>1, <3>4 DEF Truncates
    <3> QED  BY <3>1, <3>2, <3>3, <3>4
  <2>2. CASE c = names'
    BY <2>2 DEF Types
  <2>3. CASE c \in Files
    BY <2>3, FilesFacts
  <2> QED  BY <1>2, <2>1, <2>2, <2>3, FilesAfter
<1>4. ASSUME NEW c \in Files'
      PROVE  OneList(at', c)
  <2>1. PICK d \in Files : Passes(c, d)
    BY FilesPass
  <2>2. OneList(at, d) /\ d \in Content
    BY FilesFacts DEF Attached
  <2> QED  BY <1>1, <1>3, <2>1, <2>2, PassesKeeps
<1>5. ASSUME NEW c \in Files', NEW q \in Proc, HasLists(q)'
      PROVE  KnowsOf(at', proc'[q], c)
  <2>1. PICK d \in Files : Passes(c, d)
    BY FilesPass
  <2>2. d \in Content
    BY FilesFacts
  <2>3. CASE HasLists(q) /\ proc'[q].role = proc[q].role /\ proc'[q].lists = proc[q].lists
    <3>1. KnowsOf(at, proc[q], d)
      BY <2>3 DEF Attached
    <3>2. proc[q].role \in Role
      BY <2>3, IsProcState, AttachFields DEF HasLists
    <3>3. KnowsOf(at', proc[q], c)
      BY <1>1, <1>3, <2>1, <2>2, <3>1, <3>2, PassesKeeps
    <3> QED  BY <2>3, <3>3 DEF KnowsOf
  <2>4. CASE q = p /\ Reads(p)
    <3>1. /\ ~torn /\ At(p, "list") /\ proc[p].role \in Role /\ proc'[p].role = proc[p].role
          /\ proc'[p].lists = names[proc[p].role]
      BY <2>4 DEF Reads
    <3>2. KnowsOf(at, proc'[p], d)
      <4> SUFFICES ASSUME NEW v \in Flat(d[proc'[p].role]), at[v] # None
                   PROVE  v \in Flat(proc'[p].lists)
        BY DEF KnowsOf
      <4> QED  BY <3>1, ReadsKnows
    <3>3. KnowsOf(at', proc'[p], c)
      BY <1>1, <1>3, <2>1, <2>2, <3>1, <3>2, PassesKeeps
    <3> QED  BY <2>4, <3>3
  <2>5. CASE q # p
    BY <1>2, <1>5, <2>3, <2>5, KnownAlone DEF Alone
  <2>6. CASE q = p /\ ~Reads(p)
    <3>1. MakesPlan(p) \/ TakesNext(p)
      BY <1>5, <2>6, MovesToLists DEF HasLists
    <3> QED  BY <2>3, <2>6, <3>1 DEF MakesPlan, TakesNext, HasLists, At
  <2> QED  BY <2>4, <2>5, <2>6
<1>6. ASSUME NEW q \in Proc, proc'[q].pc = "attach"
      PROVE  PlanHolds(at', proc'[q])
  <2>1. CASE q # p
    <3>1. proc'[q] = proc[q]
      BY <1>2, <2>1 DEF Alone
    <3>2. proc[q] \in ProcState /\ proc[q].pc = "attach" /\ PlanHolds(at, proc[q])
      BY <1>6, <3>1, IsProcState DEF Attached, At
    <3>3. PlanHolds(at', proc[q])
      BY <1>1, <3>2, PlanShrinks
    <3> QED  BY <3>1, <3>3
  <2>2. CASE q = p
    <3>1. MakesPlan(p) \/ TakesNext(p)
      <4>1. ~Reads(p)
        BY <1>6, <2>2 DEF Reads
      <4> QED  BY <1>6, <2>2, <4>1, MovesToLists
    <3>2. at' = at
      BY <3>1 DEF MakesPlan, TakesNext, SameEc2
    <3>3. CASE MakesPlan(p)
      <4>1. /\ proc'[p].lists = proc[p].lists
            /\ \A n \in DOMAIN proc'[p].plan : \A v \in Flat(proc[p].lists) :
                  at[v] # proc'[p].plan[n]
        BY <3>3 DEF MakesPlan
      <4> QED  BY <2>2, <3>2, <4>1 DEF PlanHolds
    <3>4. CASE TakesNext(p)
      <4>1. /\ proc'[p].lists = proc[p].lists /\ At(p, "attach")
            /\ \A n \in DOMAIN proc'[p].plan : /\ n \in DOMAIN proc[p].plan
                                               /\ proc'[p].plan[n] = proc[p].plan[n]
        BY <3>4 DEF TakesNext
      <4>2. PlanHolds(at, proc[p])
        BY <4>1 DEF Attached
      <4> QED  BY <2>2, <3>2, <4>1, <4>2 DEF PlanHolds
    <3> QED  BY <3>1, <3>3, <3>4
  <2> QED  BY <2>1, <2>2
<1>7. ASSUME NEW q \in Proc
      PROVE  LooseAt(q)'
  <2> SUFFICES ASSUME proc'[q].pc = "create" \/ (proc'[q].pc = "store" /\ proc'[q].cmd = "create"),
                      NEW v \in Range(proc'[q].made)
               PROVE  at'[v] = None
    BY DEF LooseAt, At
  <2>1. ASSUME at[v] = None, v \in Vol PROVE at'[v] = None
    BY <1>1, <2>1 DEF AtShrinks
  <2>2. v \in Vol
    <3>1. proc'[q].pc = "create" => proc'[q].made \in Seq(Own)
      <4>1. proc'[q] \in ProcState
        BY DEF Types, ProcTypes, Fits
      <4> QED  BY <4>1, CreateFields
    <3>2. proc'[q].pc = "store" /\ proc'[q].cmd = "create" => proc'[q].made \in List
      <4>1. proc'[q] \in ProcState
        BY DEF Types, ProcTypes, Fits
      <4> QED  BY <4>1, StoreFields
    <3>3. proc'[q].made \in Seq(Own)
      BY <3>1, <3>2 DEF List
    <3>4. Range(proc'[q].made) \subseteq Own
      BY <3>3 DEF Range
    <3> QED  BY <3>4, Constants
  <2>3. CASE /\ proc[q].pc = "create" \/ (proc[q].pc = "store" /\ proc[q].cmd = "create")
             /\ proc'[q].made = proc[q].made
    BY <2>1, <2>2, <2>3 DEF Attached, LooseAt, At
  <2>4. CASE q # p
    BY <1>2, <2>3, <2>4 DEF Alone
  <2>5. CASE q = p
    <3>1. proc'[p].made # <<>>
      BY <2>5, NoneMade
    <3>2. AddsOne(p) \/ \E w \in Own : MadeOne(p, w)
      BY <2>5, <3>1 DEF Moves, Attaches, Quiet, Ended, Truncates, Writes, Reads, MakesPlan,
                        TakesNext, ReadsLetter, Checks, DeletesOne, Removes, Rests, Idle
    <3>3. CASE AddsOne(p)
      BY <2>3, <2>5, <3>3 DEF AddsOne, At
    <3>4. CASE \E w \in Own : MadeOne(p, w)
      <4>1. PICK w \in Own : MadeOne(p, w)
        BY <3>4
      <4>2. /\ proc[p].pc = "create" /\ proc'[p].made = Append(proc[p].made, w)
            /\ vol[w] = "unborn" /\ at' = at
        BY <4>1 DEF MadeOne, NewVolume, At
      <4>3. proc[p].made \in Seq(Own)
        BY <4>2, IsProcState, CreateFields
      <4>4. Range(proc'[p].made) = Range(proc[p].made) \cup {w}
        BY <4>2, <4>3, RangeAppend
      <4>5. at[w] = None
        BY <4>2, Constants DEF Types, Ec2Types
      <4>6. \A x \in Range(proc[p].made) : at[x] = None
        BY <4>2 DEF Attached, LooseAt, At
      <4> QED  BY <2>5, <4>2, <4>4, <4>5, <4>6
    <3> QED  BY <3>2, <3>3, <3>4
  <2> QED  BY <2>4, <2>5
<1> QED  BY <1>4, <1>5, <1>6, <1>7, AttachedAfter

LEMMA SameFiles ==
    ASSUME NEW p \in Proc, Alone(p), names' = names, ~HasCopy(p), ~HasCopy(p)'
    PROVE  Files' = Files
<1>1. \A q \in Proc : HasCopy(q)' <=> HasCopy(q)
  BY KnownAlone
<1>2. \A q \in Proc : HasCopy(q) => proc'[q].copy = proc[q].copy
  BY DEF Alone
<1> QED  BY <1>1, <1>2 DEF Files

\* A volume that is attached is in one list, and in the list of the plan at hand.
LEMMA PlannedList ==
    ASSUME Types, Provenance, Attached, NEW p \in Proc, At(p, "attach"),
           NEW n \in DOMAIN proc[p].plan, n \in DOMAIN proc[p].lists,
           NEW v \in Range(proc[p].lists[n])
    PROVE  \A c \in Files, r \in Role : \A j, k \in DOMAIN c[r] : \A w \in Range(c[r][k]) :
               v \in Range(c[r][j]) /\ at[w] = proc[p].plan[n] /\ at[w] # None => j = k
<1> SUFFICES ASSUME NEW c \in Files, NEW r \in Role, NEW j \in DOMAIN c[r], NEW k \in DOMAIN c[r],
                    NEW w \in Range(c[r][k]), v \in Range(c[r][j]),
                    at[w] = proc[p].plan[n], at[w] # None
             PROVE  j = k
  OBVIOUS
<1>1. HasLists(p) /\ proc[p].lists \in Seq(List) /\ proc[p].role \in Role
  BY IsProcState, AttachFields DEF At, HasLists
<1> DEFINE l == proc[p].lists[n]
<1>2. l \in List /\ l \in Range(proc[p].lists)
  BY <1>1, Lists
<1>3. <<proc[p].role, l>> \in Recorded
  <2>1. <<proc[p].role, l>> \in Known(p)
    BY <1>1, <1>2, ListsKnown
  <2> QED  BY <2>1, NamesKnown
<1>4. <<r, c[r][j]>> \in Recorded
  BY FilesFacts, EntryFacts
<1>5. <<r, c[r][j]>> = <<proc[p].role, l>>
  <2>1. Meet(<<r, c[r][j]>>[2], <<proc[p].role, l>>[2])
    BY DEF Meet
  <2> QED  BY <1>3, <1>4, <2>1 DEF Provenance, Apart
<1>6. r = proc[p].role /\ c[r][j] = l
  BY <1>5
<1>7. w \in Flat(c[proc[p].role])
  BY <1>6 DEF Flat
<1>8. w \in Flat(proc[p].lists)
  BY <1>1, <1>7 DEF Attached, KnowsOf
<1>9. w \in Range(l)
  BY <1>8 DEF Attached, PlanHolds
<1> QED  BY <1>6, <1>9, OnePlace

\* A volume that is attached is not one that is about to be stored.
LEMMA AttachedIsOld ==
    ASSUME Types, Provenance, Sound, NEW p \in Proc, NEW n, NEW v, AttachesOne(p, n, v),
           NEW q \in Proc, At(q, "create") \/ (At(q, "store") /\ proc[q].cmd = "create")
    PROVE  v \notin Range(proc[q].made)
<1>1. At(p, "attach") /\ n \in DOMAIN proc[p].lists /\ v \in Range(proc[p].lists[n])
  BY DEF AttachesOne
<1>2. HasLists(p) /\ proc[p].lists \in Seq(List) /\ proc[p].role \in Role
  BY <1>1, IsProcState, AttachFields DEF At, HasLists
<1> DEFINE e == <<proc[p].role, proc[p].lists[n]>>
<1>3. proc[p].lists[n] \in List /\ proc[p].lists[n] \in Range(proc[p].lists)
  BY <1>1, <1>2, Lists
<1>4. e \in Known(p) /\ v \in Range(e[2])
  BY <1>1, <1>2, <1>3, ListsKnown
<1>5. ~Meet(proc[q].made, e[2])
  <2>1. CASE At(q, "create")
    BY <1>4, <2>1, NamesKnown DEF Provenance, Fresh, FreshFor
  <2>2. CASE At(q, "store") /\ proc[q].cmd = "create"
    BY <1>2, <1>4, <2>2 DEF Sound, SoundAt, NewAt
  <2> QED  BY <2>1, <2>2
<1> QED  BY <1>4, <1>5 DEF Meet

LEMMA ContentVolumes ==
    ASSUME NEW c \in Content, NEW r \in Role, NEW n \in DOMAIN c[r], NEW v \in Range(c[r][n])
    PROVE  v \in Vol
<1>1. c[r] \in Seq(List)
  BY DEF Content
<1> QED  BY <1>1, Lists, Constants

LEMMA MadeVolumes ==
    ASSUME Types, NEW q \in Proc, At(q, "create") \/ (At(q, "store") /\ proc[q].cmd = "create"),
           NEW v \in Range(proc[q].made)
    PROVE  v \in Vol
<1>1. proc[q].made \in Seq(Own)
  BY IsProcState, CreateFields, StoreFields DEF List, At
<1>2. Range(proc[q].made) \subseteq Own
  BY <1>1 DEF Range
<1> QED  BY <1>2, Constants

LEMMA AttachesAttached ==
    ASSUME Types, Types', Provenance, Sound, Attached, NEW p \in Proc,
           NEW n \in DOMAIN proc[p].plan, NEW v \in Own, AttachesOne(p, n, v), mixed' = {}
    PROVE  Attached'
<1>1. /\ At(p, "attach") /\ n \in DOMAIN proc[p].lists /\ v \in Range(proc[p].lists[n])
      /\ vol[v] = "available" /\ at' = [at EXCEPT ![v] = proc[p].plan[n]]
      /\ proc[p].plan[n] \in Inst
      /\ proc'[p].pc = "attach" /\ proc'[p].role = proc[p].role
      /\ proc'[p].lists = proc[p].lists /\ proc'[p].plan = proc[p].plan
      /\ Alone(p) /\ names' = names
  BY DEF AttachesOne
<1>2. \A q \in Proc \ {p} : proc[q].pc \notin {"describe", "attach"}
  BY DEF AttachesOne, Others
<1>3. HasLists(p) /\ proc[p].lists \in Seq(List) /\ proc[p].role \in Role
  BY <1>1, IsProcState, AttachFields DEF At, HasLists
<1>4. /\ at[v] = None /\ at'[v] = proc[p].plan[n] /\ at'[v] # None
      /\ \A w \in Vol \ {v} : at'[w] = at[w]
  <2>1. /\ v \in Vol /\ DOMAIN at = Vol
        /\ at[v] # None => vol[v] = "in-use"
    BY Constants DEF Types, Ec2Types
  <2>2. at[v] = None
    BY <1>1, <2>1
  <2>3. proc[p].plan[n] # None
    BY <1>1, Constants
  <2>4. at'[v] = proc[p].plan[n] /\ \A w \in Vol \ {v} : at'[w] = at[w]
    BY <1>1, <2>1
  <2> QED  BY <2>2, <2>3, <2>4
<1>5. Files' = Files
  BY <1>1, SameFiles DEF HasCopy, At
<1>planned. \A c \in Files, r \in Role : \A j, k \in DOMAIN c[r] : \A w \in Range(c[r][k]) :
           v \in Range(c[r][j]) /\ at[w] = proc[p].plan[n] /\ at[w] # None => j = k
  BY <1>1, PlannedList
<1>6. ASSUME NEW c \in Files', NEW r \in Role, NEW j \in DOMAIN c[r], NEW k \in DOMAIN c[r],
             NEW x \in Range(c[r][j]), NEW y \in Range(c[r][k]), at'[x] = at'[y], at'[x] # None
      PROVE  j = k
  <2>0. c \in Files /\ x \in Vol /\ y \in Vol
    BY <1>5, FilesFacts, ContentVolumes
  <2>1. CASE x = v /\ y = v
    BY <2>0, <2>1, OnePlace
  <2>2. CASE x = v /\ y # v
    <3>1. at[y] = proc[p].plan[n] /\ at[y] # None
      BY <1>4, <1>6, <2>0, <2>2
    <3> QED  BY <1>planned, <2>0, <2>2, <3>1
  <2>3. CASE x # v /\ y = v
    <3>1. at[x] = proc[p].plan[n] /\ at[x] # None
      BY <1>4, <1>6, <2>0, <2>3
    <3> QED  BY <1>planned, <2>0, <2>3, <3>1
  <2>4. CASE x # v /\ y # v
    <3>1. at[x] = at[y] /\ at[x] # None
      BY <1>4, <1>6, <2>0, <2>4
    <3>2. OneList(at, c)
      BY <2>0 DEF Attached
    <3>3. \A a \in Range(c[r][j]), b \in Range(c[r][k]) : at[a] = at[b] /\ at[a] # None => j = k
      BY <3>2 DEF OneList
    <3> QED  BY <3>1, <3>3
  <2> QED  BY <2>1, <2>2, <2>3, <2>4
<1>7. \A c \in Files' : OneList(at', c)
  BY <1>6 DEF OneList
<1>8. ASSUME NEW c \in Files', NEW q \in Proc, HasLists(q)'
      PROVE  KnowsOf(at', proc'[q], c)
  <2>1. q = p
    BY <1>2, <1>8, KnownAlone, <1>1 DEF HasLists
  <2>2. KnowsOf(at, proc[p], c)
    BY <1>3, <1>5 DEF Attached
  <2>3. v \in Flat(proc[p].lists)
    BY <1>1 DEF Flat
  <2>4. ASSUME NEW w \in Flat(c[proc[p].role]), at'[w] # None
        PROVE  w \in Flat(proc[p].lists)
    <3>1. w \in Vol
      BY <1>3, <1>5, FilesFacts, ContentVolumes DEF Flat
    <3> QED  BY <1>4, <2>2, <2>3, <2>4, <3>1 DEF KnowsOf
  <2> QED  BY <1>1, <2>1, <2>4 DEF KnowsOf
<1>9. ASSUME NEW q \in Proc, proc'[q].pc = "attach"
      PROVE  PlanHolds(at', proc'[q])
  <2>1. q = p
    BY <1>1, <1>2, <1>9 DEF Alone
  <2>2. PlanHolds(at, proc[p])
    BY <1>1 DEF Attached
  <2>3. IsInjective(proc[p].plan)
    BY <1>1, IsProcState DEF Fits
  <2>4. ASSUME NEW m \in DOMAIN proc[p].plan, NEW w \in Flat(proc[p].lists),
               at'[w] = proc[p].plan[m]
        PROVE  w \in Range(proc[p].lists[m])
    <3>1. CASE w = v
      <4>1. m = n
        BY <1>4, <2>3, <2>4, <3>1 DEF IsInjective
      <4> QED  BY <1>1, <3>1, <4>1
    <3>2. CASE w # v
      <4>1. w \in Vol
        BY <1>3, Lists, Constants DEF Flat
      <4> QED  BY <1>4, <2>2, <2>4, <3>2, <4>1 DEF PlanHolds
    <3> QED  BY <3>1, <3>2
  <2> QED  BY <1>1, <2>1, <2>4 DEF PlanHolds
<1>10. ASSUME NEW q \in Proc
       PROVE  LooseAt(q)'
  <2> SUFFICES ASSUME proc'[q].pc = "create" \/ (proc'[q].pc = "store" /\ proc'[q].cmd = "create"),
                      NEW w \in Range(proc'[q].made)
               PROVE  at'[w] = None
    BY DEF LooseAt, At
  <2>1. proc'[q] = proc[q]
    BY <1>1 DEF Alone
  <2>2. At(q, "create") \/ (At(q, "store") /\ proc[q].cmd = "create")
    BY <2>1 DEF At
  <2>3. w # v
    BY <2>1, <2>2, AttachedIsOld
  <2>4. at[w] = None
    BY <2>1, <2>2 DEF Attached, LooseAt
  <2>5. w \in Vol
    BY <2>1, <2>2, MadeVolumes
  <2> QED  BY <1>4, <2>3, <2>4, <2>5
<1> QED  BY <1>7, <1>8, <1>9, <1>10, AttachedAfter

\* EC2's own steps, and a call that is sent again.
LEMMA SameProcAttached ==
    ASSUME Types, Provenance, Attached, AtShrinks, proc' = proc, names' = names
    PROVE  Attached'
<1>1. Files' = Files
  BY DEF Files, HasCopy
<1>2. \A c \in Files : c \in Content /\ OneList(at', c)
  BY FilesFacts, OneListShrinks DEF Attached
<1>3. ASSUME NEW c \in Files, NEW q \in Proc, HasLists(q)
      PROVE  KnowsOf(at', proc[q], c)
  <2>1. KnowsOf(at, proc[q], c) /\ proc[q].role \in Role
    BY <1>3, IsProcState, AttachFields DEF Attached, HasLists
  <2> QED  BY <1>2, <2>1, SamePasses, PassesKeeps
<1>4. ASSUME NEW q \in Proc, proc[q].pc = "attach"
      PROVE  PlanHolds(at', proc[q])
  BY <1>4, IsProcState, PlanShrinks DEF Attached, At
<1>5. ASSUME NEW q \in Proc
      PROVE  LooseAt(q)'
  <2> SUFFICES ASSUME At(q, "create") \/ (At(q, "store") /\ proc[q].cmd = "create"),
                      NEW w \in Range(proc[q].made)
               PROVE  at'[w] = None
    BY DEF LooseAt, At
  <2>1. w \in Vol
    BY MadeVolumes
  <2> QED  BY <2>1 DEF Attached, LooseAt, AtShrinks
<1> QED  BY <1>1, <1>2, <1>3, <1>4, <1>5, AttachedAfter DEF HasLists

LEMMA AttachmentsStep ==
    ASSUME Types, Provenance, Updates, Attachments, [Next]_vars
    PROVE  Attachments'
<1>1. /\ Types'
      /\ (\E p \in Proc : Moves(p)) \/ (\E v \in Own : LostOne(v)) \/ Ec2Moves
  BY StepTypes
<1> SUFFICES ASSUME mixed' = {} PROVE Attached'
  BY DEF Attachments
<1>2. mixed = {}
  BY <1>1, MixedGrows DEF LostOne, Ec2Moves, SameRest
<1>3. Attached /\ Sound
  BY <1>2 DEF Attachments, Updates
<1>4. ASSUME NEW p \in Proc, Moves(p)
      PROVE  Attached'
  BY <1>1, <1>3, <1>4, ShrinkAttached, AttachesAttached DEF Attaches
<1>5. ASSUME (\E v \in Own : LostOne(v)) \/ Ec2Moves
      PROVE  Attached'
  <2>1. AtShrinks /\ proc' = proc /\ names' = names
    BY <1>5 DEF LostOne, NewVolume, Ec2Moves, SameRest, AtShrinks
  <2> QED  BY <1>3, <2>1, SameProcAttached
<1> QED  BY <1>1, <1>4, <1>5

LEMMA InitAttachments == Init => Attachments
<1> SUFFICES ASSUME Init PROVE Attached
  BY DEF Attachments
<1>1. names = Empty /\ \A p \in Proc : proc[p].pc = "idle"
  BY DEF Init, Idle
<1>2. Files = {Empty}
  BY <1>1 DEF Files, HasCopy
<1>3. OneList(at, Empty)
  BY EmptyContent DEF OneList
<1> QED  BY <1>1, <1>2, <1>3 DEF Attached, HasLists, LooseAt, At

\* The inductive invariant: provenance, what the file says of EC2, and what attach-storage
\* knows of the instances, for any number of commands side by side.
THEOREM Invariance == Spec => []IInv
<1>1. Init => IInv
  BY InitTypes, InitProvenance, InitUpdates, InitAttachments DEF IInv
<1>2. IInv /\ [Next]_vars => IInv'
  BY StepTypes, ProvenanceStep, UpdatesStep, AttachmentsStep DEF IInv
<1> QED  BY <1>1, <1>2, PTL DEF Spec

\* As long as no two commands attached volumes, or updated the file, at a time, the volumes
\* attached to an instance are from one list of each role in the file.
THEOREM NeverTwoLists == Spec => []OneListPerInstance
<1>1. IInv => OneListPerInstance
  <2> SUFFICES ASSUME Types, Attached, NEW i \in Inst, NEW r \in Role
               PROVE  Cardinality({n \in DOMAIN names[r] :
                                      \E v \in Range(names[r][n]) : at[v] = i}) <= 1
    BY DEF IInv, Attachments, OneListPerInstance
  <2> DEFINE S == {n \in DOMAIN names[r] : \E v \in Range(names[r][n]) : at[v] = i}
  <2>1. i # None
    BY Constants
  <2>2. OneList(at, names)
    BY DEF Attached, Files
  <2>3. \A n, k \in S : n = k
    BY <2>1, <2>2 DEF OneList
  <2>4. S = {} \/ \E n : S = {n}
    <3> HIDE DEF S
    <3>1. CASE S # {}
      <4>1. PICK n : n \in S
        BY <3>1
      <4>2. S = {n}
        BY <2>3, <4>1
      <4> QED  BY <4>2
    <3> QED  BY <3>1
  <2>5. Cardinality({}) = 0 /\ \A n : Cardinality({n}) = 1
    BY FS_EmptySet, FS_Singleton
  <2> HIDE DEF S
  <2>6. Cardinality(S) \in {0, 1}
    BY <2>4, <2>5
  <2>7. Cardinality(S) <= 1
    BY <2>6
  <2> QED  BY <2>7 DEF S
<1> QED  BY <1>1, Invariance, PTL

-----------------------------------------------------------------------------
(* The file changes by one update at a time                                *)

\* What the file has, or will have when who has truncated it has written it.
Writing == \E p \in Proc : At(p, "write")
Shown == IF Writing THEN proc[CHOOSE p \in Proc : At(p, "write")].copy ELSE names

\* The file is not JSON exactly while somebody writes it.
TornByWriter == "store" \in mixed \/ (torn <=> Writing)

\* create-storage appends the volumes of one instance, none of which the file has.
AddsList(p) ==
    /\ proc[p].cmd = "create" /\ Len(proc[p].made) = PerInstance
    /\ Range(proc[p].made) \cap Named(Shown) = {}
    /\ Shown' = [Shown EXCEPT ![proc[p].role] = Append(@, proc[p].made)]

\* delete-storage takes away the lists of a role, none of whose volumes exists.
ClearsRole(p) ==
    /\ proc[p].cmd = "delete" /\ Letter(p) \in Role
    /\ \A v \in Flat(Shown[Letter(p)]) : ~Exists(v)
    /\ Shown' = [Shown EXCEPT ![Letter(p)] = <<>>]

OneUpdate == \/ "store" \in mixed' \/ Shown' = Shown
             \/ \E p \in Proc : At(p, "store") /\ (AddsList(p) \/ ClearsRole(p))

\* A step other than Truncate leaves the write marks of the others, and its own.
SameWriters == \A p \in Proc : /\ At(p, "write")' <=> At(p, "write")
                               /\ At(p, "write") => proc'[p].copy = proc[p].copy

LEMMA SameShown ==
    ASSUME SameWriters, names' = names
    PROVE  (Writing' <=> Writing) /\ Shown' = Shown
<1>1. \A p \in Proc : At(p, "write")' <=> At(p, "write")
  BY DEF SameWriters
<1>2. Writing' <=> Writing
  BY <1>1 DEF Writing
<1>3. CASE Writing
  <2> DEFINE w == CHOOSE p \in Proc : At(p, "write")
             wNext == CHOOSE p \in Proc : At(p, "write")'
  <2>1. w = wNext
    BY <1>1
  <2>2. w \in Proc /\ At(w, "write")
    BY <1>3 DEF Writing
  <2>3. proc'[w].copy = proc[w].copy
    BY <2>2 DEF SameWriters
  <2>4. Shown = proc[w].copy
    BY <1>3 DEF Shown
  <2>5. Shown' = proc'[wNext].copy
    BY <1>2, <1>3 DEF Shown
  <2> HIDE DEF w, wNext
  <2> QED  BY <1>2, <2>1, <2>3, <2>4, <2>5
<1>4. CASE ~Writing
  BY <1>2, <1>4 DEF Shown
<1> QED  BY <1>2, <1>3, <1>4

LEMMA AloneWrites ==
    ASSUME NEW p \in Proc, At(p, "write"), \A q \in Proc \ {p} : ~At(q, "write")
    PROVE  Writing /\ Shown = proc[p].copy
<1>1. (CHOOSE q \in Proc : At(q, "write")) = p
  OBVIOUS
<1> QED  BY <1>1 DEF Writing, Shown

\* The steps of a process that neither truncate nor write the file.
LEMMA OtherWriters ==
    ASSUME Types, NEW p \in Proc, Moves(p), ~Truncates(p), ~Writes(p), "store" \notin mixed'
    PROVE  SameWriters /\ UNCHANGED <<names, torn>>
<1>1. Alone(p) /\ UNCHANGED <<names, torn>>
  BY DEF Moves, Quiet, Ended, MadeOne, AddsOne, Reads, MakesPlan, AttachesOne,
         TakesNext, ReadsLetter, Checks, DeletesOne, Removes, SameRest
<1>2. ~At(p, "write") /\ ~At(p, "write")'
  <2>1. CASE Quiet(p) \/ Ended(p)
    BY <2>1 DEF Quiet, Ended, At, Rests, Idle
  <2>2. CASE (\E v \in Own : MadeOne(p, v)) \/ AddsOne(p) \/ Reads(p) \/ MakesPlan(p)
    BY <2>2 DEF MadeOne, AddsOne, Reads, MakesPlan, At
  <2>3. CASE (\E n \in DOMAIN proc[p].plan, v \in Own : AttachesOne(p, n, v)) \/ TakesNext(p)
    BY <2>3 DEF AttachesOne, TakesNext, At
  <2>4. CASE \/ ReadsLetter(p) \/ Checks(p) \/ (\E v \in Vol : DeletesOne(p, v)) \/ Removes(p)
    BY <2>4 DEF ReadsLetter, Checks, DeletesOne, Removes, At
  <2> QED  BY <2>1, <2>2, <2>3, <2>4 DEF Moves
<1> QED  BY <1>1, <1>2 DEF SameWriters, Alone, At

LEMMA TruncatesShown ==
    ASSUME Types, Provenance, Sound, TornByWriter, "store" \notin mixed, "store" \notin mixed',
           NEW p \in Proc, Truncates(p)
    PROVE  Writing' /\ (AddsList(p) \/ ClearsRole(p))
<1>1. \A q \in Proc \ {p} : proc[q].pc \notin Updating /\ proc'[q] = proc[q]
  BY DEF Truncates, Others, Alone
<1>2. proc[p].pc = "store" /\ proc'[p].pc = "write" /\ proc'[p].copy = proc[p].copy
  BY DEF Truncates, At
<1>3. /\ At(p, "write")' /\ \A q \in Proc \ {p} : ~At(q, "write")'
      /\ \A q \in Proc : ~At(q, "write")
  BY <1>1, <1>2 DEF At, Updating
<1>4. Writing' /\ Shown' = proc[p].copy
  <2>1. \A q \in Proc : At(q, "write")' <=> q = p
    BY <1>3
  <2>2. (CHOOSE q \in Proc : At(q, "write")') = p
    BY <2>1
  <2>3. Writing'
    BY <1>3 DEF Writing
  <2> QED  BY <1>2, <2>2, <2>3 DEF Shown
<1>5. Shown = names
  BY <1>3 DEF Writing, Shown
<1>6. SoundAt(p) /\ At(p, "store")
  BY <1>2 DEF Sound, At
<1>7. CASE proc[p].cmd = "create"
  <2>1. /\ proc[p].copy = Added(proc[p].role, proc[p].made) /\ Len(proc[p].made) = PerInstance
        /\ \A e \in Entry(names) : ~Meet(proc[p].made, e[2])
    BY <1>6, <1>7 DEF SoundAt, CopyAt, NewAt
  <2>2. Range(proc[p].made) \cap Named(names) = {}
    BY <2>1, NamedEntry DEF Meet, Types
  <2> QED  BY <1>4, <1>5, <1>7, <2>1, <2>2 DEF AddsList, Added
<1>8. CASE proc[p].cmd = "delete"
  <2>1. /\ Letter(p) \in Role /\ proc[p].copy = Removed(Letter(p))
        /\ \A v \in Stored(Letter(p)) : ~Exists(v)
    BY <1>6, <1>8 DEF SoundAt, CopyAt, GoneAt
  <2> QED  BY <1>4, <1>5, <1>8, <2>1 DEF ClearsRole, Removed, Stored
<1> QED  BY <1>2, <1>7, <1>8, IsProcState, StoreFields

LEMMA WritesShown ==
    ASSUME Sound, NEW p \in Proc, Writes(p)
    PROVE  ~Writing' /\ ~torn' /\ Shown' = Shown
<1>1. /\ At(p, "write") /\ names = Empty
      /\ \A q \in Proc \ {p} : proc[q].pc \notin Updating /\ proc'[q] = proc[q]
  BY DEF Sound, SoundAt, AloneAt, Writes, Alone
<1>2. names' = proc[p].copy /\ torn' = FALSE /\ proc'[p].pc # "write"
  BY <1>1 DEF Writes
<1>3. \A q \in Proc \ {p} : ~At(q, "write")
  BY <1>1 DEF At, Updating
<1>4. Shown = proc[p].copy
  BY <1>1, <1>3, AloneWrites
<1>5. ~Writing'
  BY <1>1, <1>2 DEF Writing, At, Updating
<1> QED  BY <1>2, <1>4, <1>5 DEF Shown

LEMMA UpdateStep ==
    ASSUME Types, Provenance, Updates, TornByWriter, [Next]_vars
    PROVE  TornByWriter' /\ OneUpdate
<1>1. (\E p \in Proc : Moves(p)) \/ (\E v \in Own : LostOne(v)) \/ Ec2Moves
  BY StepTypes
<1> SUFFICES ASSUME "store" \notin mixed'
             PROVE  (torn' <=> Writing') /\ OneUpdate
  BY DEF TornByWriter, OneUpdate
<1>2. "store" \notin mixed
  BY <1>1, MixedGrows DEF LostOne, Ec2Moves, SameRest
<1>3. Sound /\ (torn <=> Writing)
  BY <1>2 DEF Updates, TornByWriter
<1>4. ASSUME SameWriters, UNCHANGED <<names, torn>>
      PROVE  (torn' <=> Writing') /\ OneUpdate
  BY <1>3, <1>4, SameShown DEF OneUpdate
<1>5. CASE (\E v \in Own : LostOne(v)) \/ Ec2Moves
  <2>1. UNCHANGED <<names, torn, proc>>
    BY <1>5 DEF LostOne, Ec2Moves, SameRest
  <2>2. SameWriters
    BY <2>1 DEF SameWriters, At
  <2> QED  BY <1>4, <2>1, <2>2
<1>6. ASSUME NEW p \in Proc, Moves(p)
      PROVE  (torn' <=> Writing') /\ OneUpdate
  <2>1. CASE Truncates(p)
    BY <1>2, <1>3, <2>1, TruncatesShown DEF Truncates, OneUpdate
  <2>2. CASE Writes(p)
    BY <1>3, <2>2, WritesShown DEF OneUpdate
  <2>3. CASE ~Truncates(p) /\ ~Writes(p)
    BY <1>4, <1>6, <2>3, OtherWriters
  <2> QED  BY <2>1, <2>2, <2>3
<1> QED  BY <1>1, <1>5, <1>6

\* As long as no two commands updated the file at a time and none ended while it was
\* truncated, the file is JSON except while one command writes it, and it changes by whole
\* updates alone: JsonVolumeManager appends one instance's volumes, none of which the file
\* had, or takes away one role, whose volumes are deleted; no update is lost or undone by
\* another, however far apart _load and _store are.
THEOREM UpdatesAreAtomic == Spec => []TornByWriter /\ [][OneUpdate]_vars
<1>1. Init => Types /\ Provenance /\ Updates /\ TornByWriter
  <2>1. Init => TornByWriter
    BY DEF Init, TornByWriter, Writing, At, Idle
  <2> QED  BY <2>1, InitTypes, InitProvenance, InitUpdates
<1>2. Types /\ Provenance /\ Updates /\ TornByWriter /\ [Next]_vars
        => (Types /\ Provenance /\ Updates /\ TornByWriter)' /\ OneUpdate
  BY StepTypes, ProvenanceStep, UpdatesStep, UpdateStep
<1> QED  BY <1>1, <1>2, PTL DEF Spec

-----------------------------------------------------------------------------
(* One command at a time                                                   *)

\* print_status stops a delete-storage that finds volumes in the file, and nobody puts any
\* there after it has found none.
Barren(s, content) ==
    /\ s.pc \notin {"check", "delete"}
    /\ s.pc \in {"store", "write"} => s.cmd = "create"
    /\ s.pc = "listing" => \A r \in Role \ s.todo : content[r] = <<>>
    /\ s.pc = "prompt" => \A r \in Role : content[r] = <<>>
    /\ s.pc = "role" => s.todo = <<>> /\ s.rest = <<>>

AllBarren == \A p \in Proc : Barren(proc[p], names)
LEMMA BarrenStep ==
    ASSUME \A p, q \in Proc : p = q, Types, AllBarren, [Next]_vars
    PROVE  AllBarren'
<1> USE DEF At
<1>1. ASSUME NEW p \in Proc, Barren(proc'[p], names')
      PROVE  AllBarren'
  BY <1>1 DEF AllBarren
<1>2. ASSUME NEW p \in Proc, NEW t, Become(p, t)
      PROVE  proc'[p] = t
  BY <1>2 DEF Become, Types, ProcTypes
<1>3. ASSUME NEW p \in Proc, NEW t, Goes(p, t) \/ Begins(p, t) \/ Become(p, t),
             t.pc \in {"idle", "create", "list", "describe", "attach", "print"}
      PROVE  AllBarren'
  <2>1. proc'[p] = t
    BY <1>2, <1>3 DEF Goes, Begins
  <2> QED  BY <1>1, <1>3, <2>1 DEF Barren
<1>4. ASSUME NEW p \in Proc, Dies(p) \/ Killed(p) \/ Goes(p, Idle)
      PROVE  AllBarren'
  BY <1>3, <1>4 DEF Dies, Killed, Ends, Goes, Idle
<1>5. ASSUME proc' = proc, names' = names
      PROVE  AllBarren'
  BY <1>5 DEF AllBarren
<1>6. ASSUME NEW p \in Proc
      PROVE  Barren(proc[p], names) /\ proc[p] \in ProcState
  BY IsProcState DEF AllBarren
<1>7. ASSUME NEW p \in Proc, Command(p)
      PROVE  AllBarren'
  BY <1>3, <1>7 DEF Command, Create, Attach, Delete
<1>8. ASSUME NEW p \in Proc, CreateStep(p)
      PROVE  AllBarren'
  <2>1. CASE CreateVolume(p)
    <3>1. proc'[p].pc = "create"
      BY <2>1, CreateVolumeTypes DEF MadeOne
    <3> QED  BY <1>1, <3>1 DEF Barren
  <2>2. CASE CreateAnswerLost(p)
    BY <1>5, <2>2 DEF CreateAnswerLost, file
  <2>3. CASE CreateRefused(p) \/ AddRaises(p) \/ CreateDone(p)
    BY <1>4, <2>3 DEF CreateRefused, AddRaises, CreateDone
  <2>4. CASE Add(p)
    <3>1. PICK t : Goes(p, t) /\ t.pc = "store" /\ t.cmd = "create"
      BY <2>4 DEF Add, Load
    <3>2. proc'[p] = t
      BY <1>2, <3>1 DEF Goes
    <3> QED  BY <1>1, <3>1, <3>2 DEF Barren
  <2> QED  BY <1>8, <2>1, <2>2, <2>3, <2>4 DEF CreateStep
<1>9. ASSUME NEW p \in Proc, AttachStep(p)
      PROVE  AllBarren'
  <2>1. CASE ReadRole(p)
    <3>1. PICK t : Goes(p, t) /\ t.pc \in {"idle", "describe"}
      BY <2>1 DEF ReadRole, Idle
    <3> QED  BY <1>3, <3>1
  <2>2. CASE ReadRoleRaises(p) \/ DescribeRaises(p) \/ AttachRefused(p) \/ AttachDone(p)
    BY <1>4, <2>2 DEF ReadRoleRaises, DescribeRaises, AttachRefused, AttachDone
  <2>3. CASE Describe(p)
    <3>1. PICK t : Goes(p, t) /\ t.pc = "attach"
      BY <2>3 DEF Describe
    <3> QED  BY <1>3, <3>1
  <2>4. CASE AttachNext(p) \/ NextInstance(p)
    <3>1. proc'[p].pc = "attach"
      BY <2>4, AttachNextTypes, NextInstanceTypes DEF AttachesOne, TakesNext
    <3> QED  BY <1>1, <3>1 DEF Barren
  <2> QED  BY <1>9, <2>1, <2>2, <2>3, <2>4 DEF AttachStep
<1>10. ASSUME NEW p \in Proc, ListRoles(p) \/ ListRole(p) \/ Prompt(p)
       PROVE  AllBarren'
  <2>1. CASE ListRoles(p)
    <3> DEFINE S == {r \in Role : names[r] # <<>>}
               t == [cmd |-> "delete", pc |-> "listing", todo |-> S]
    <3>1. Goes(p, t)
      BY <2>1 DEF ListRoles
    <3>2. t.pc = "listing" /\ t.todo = S
      OBVIOUS
    <3> HIDE DEF t
    <3>3. proc'[p] = t /\ names' = names
      BY <1>2, <3>1 DEF Goes, file
    <3> QED  BY <1>1, <3>2, <3>3 DEF Barren
  <2>2. CASE ListRole(p)
    <3>1. PICK r \in proc[p].todo : /\ names[r] = <<>>
                                   /\ Goes(p, [proc[p] EXCEPT !.todo = @ \ {r}])
      BY <2>2 DEF ListRole
    <3>2. proc[p].pc = "listing" /\ proc[p] \in Printing
      BY <1>6, <2>2, Shape DEF ListRole
    <3> DEFINE t == [proc[p] EXCEPT !.todo = @ \ {r}]
    <3>3. t.pc = "listing" /\ t.todo = proc[p].todo \ {r}
      BY <3>2 DEF Printing
    <3>4. proc'[p] = t /\ names' = names
      BY <1>2, <3>1 DEF Goes, file
    <3> HIDE DEF t
    <3>5. \A s \in Role \ proc[p].todo : names[s] = <<>>
      BY <1>6, <3>2 DEF Barren
    <3> QED  BY <1>1, <3>1, <3>3, <3>4, <3>5 DEF Barren
  <2>3. CASE Prompt(p)
    <3> DEFINE t == [cmd |-> "delete", pc |-> "prompt"]
    <3>1. Goes(p, t) /\ t.pc = "prompt" /\ proc[p].pc = "listing" /\ proc[p].todo = {}
      BY <2>3 DEF Prompt
    <3> HIDE DEF t
    <3>2. proc'[p] = t /\ names' = names
      BY <1>2, <3>1 DEF Goes, file
    <3>3. \A s \in Role : names[s] = <<>>
      BY <1>6, <3>1 DEF Barren
    <3> QED  BY <1>1, <3>1, <3>2, <3>3 DEF Barren
  <2> QED  BY <1>10, <2>1, <2>2, <2>3
<1>11. ASSUME NEW p \in Proc, GetRoles(p)
       PROVE  AllBarren'
  <2> DEFINE S == {r \in Role : names[r] # <<>>}
  <2>1. PICK o \in SetToSeqs(S) :
             Goes(p, [cmd |-> "delete", pc |-> "role", todo |-> o, rest |-> <<>>])
    BY <1>11 DEF GetRoles
  <2>2. S = {}
    BY <1>6, <1>11 DEF GetRoles, Barren
  <2>3. o = <<>>
    <3>1. o \in [1 .. Cardinality({}) -> {}]
      BY <2>2 DEF SetToSeqs
    <3>2. 1 .. 0 = {}
      OBVIOUS
    <3>3. o \in [{} -> {}]
      BY <3>1, <3>2, FS_EmptySet
    <3> QED  BY <3>3
  <2> DEFINE t == [cmd |-> "delete", pc |-> "role", todo |-> o, rest |-> <<>>]
  <2>4. t.pc = "role" /\ t.todo = o /\ t.rest = <<>>
    OBVIOUS
  <2>5. proc'[p] = t
    BY <1>2, <2>1 DEF Goes
  <2> HIDE DEF t
  <2> QED  BY <1>1, <2>3, <2>4, <2>5 DEF Barren
<1>12. ASSUME NEW p \in Proc, DeleteStep(p)
       PROVE  AllBarren'
  <2>1. CASE \/ ListRaises(p) \/ GetRolesRaises(p) \/ ReadLetterRaises(p)
             \/ CheckRaises(p) \/ DeleteRefused(p) \/ RemoveRoleRaises(p)
             \/ Refrain(p) \/ DeleteDone(p)
    BY <1>4, <2>1 DEF ListRaises, GetRolesRaises, ReadLetterRaises, CheckRaises,
                      DeleteRefused, RemoveRoleRaises, Refrain, DeleteDone
  <2>2. ~(NextRole(p) \/ ReadLetter(p) \/ Check(p) \/ CheckAborts(p)
             \/ DeleteVolume(p) \/ RemoveRole(p))
    BY <1>6 DEF Barren, NextRole, ReadLetter, Check, CheckAborts, DeleteVolume, RemoveRole
  <2> QED  BY <1>10, <1>11, <1>12, <2>1, <2>2 DEF DeleteStep
<1>13. ASSUME NEW p \in Proc, StoreStep(p)
       PROVE  AllBarren'
  <2>1. proc[p].pc \in {"store", "write"} /\ proc[p].cmd = "create"
    BY <1>6, <1>13 DEF StoreStep, Truncate, Write, Barren
  <2>2. CASE Truncate(p)
    <3> DEFINE t == [proc[p] EXCEPT !.pc = "write"]
    <3>1. proc[p] \in Adding
      BY <1>6, <2>1, StoreFields
    <3>2. t.pc = "write" /\ t.cmd = "create"
      BY <2>1, <3>1 DEF Adding
    <3>3. proc'[p] = t
      BY <1>2, <2>2 DEF Truncate
    <3> HIDE DEF t
    <3> QED  BY <1>1, <3>2, <3>3 DEF Barren
  <2>3. CASE Write(p)
    <3>1. AfterWrite(p).pc = "create"
      BY <2>1 DEF AfterWrite
    <3> QED  BY <1>3, <2>3, <3>1 DEF Write
  <2> QED  BY <1>13, <2>2, <2>3 DEF StoreStep
<1>14. CASE Ec2Step \/ UNCHANGED vars
  BY <1>5, <1>14 DEF Ec2Step, VolumeReady, InstanceStarts, InstanceEnds, vars, file
<1> QED  BY <1>4, <1>7, <1>8, <1>9, <1>12, <1>13, <1>14 DEF Next

\* Service.delete_storage begins with print_status, which raises for a role with volumes: with
\* one command at a time, no volume is ever deleted, whatever the user answers and wherever
\* commands are killed.  Only what another command has put into the file since it was listed
\* can be deleted, which is how the storage_delete run gets to a deletion.
THEOREM DeletesNothingAlone ==
    ASSUME \A p, q \in Proc : p = q
    PROVE  Spec => [](\A v \in Vol : vol[v] # "gone")
<1> DEFINE Inv == Types /\ AllBarren /\ \A v \in Vol : vol[v] # "gone"
<1>1. Init => Inv
  <2>1. Init => AllBarren
    BY DEF Init, AllBarren, Barren, Idle
  <2>2. Init => \A v \in Vol : vol[v] # "gone"
    BY DEF Init
  <2> QED  BY <2>1, <2>2, InitTypes
<1>2. Inv /\ [Next]_vars => Inv'
  <2> SUFFICES ASSUME Inv, [Next]_vars PROVE Inv'
    OBVIOUS
  <2>1. Types' /\ AllBarren'
    BY StepTypes, BarrenStep
  <2>2. ASSUME NEW v \in Vol
        PROVE  vol'[v] # "gone"
    <3>1. vol[v] # "gone" /\ vol \in [Vol -> Status]
      BY DEF Types, Ec2Types
    <3>2. ASSUME NEW p \in Proc, Moves(p)
          PROVE  vol'[v] # "gone"
      <4>1. ~\E w \in Vol : DeletesOne(p, w)
        BY DEF DeletesOne, AllBarren, Barren, At
      <4>2. ASSUME NEW w \in Own, NewVolume(w)
            PROVE  vol'[v] # "gone"
        BY <3>1, <4>2 DEF NewVolume
      <4>3. ASSUME NEW n, NEW w \in Own, AttachesOne(p, n, w)
            PROVE  vol'[v] # "gone"
        BY <3>1, <4>3 DEF AttachesOne
      <4>4. ASSUME \/ Quiet(p) \/ Ended(p) \/ AddsOne(p) \/ Truncates(p) \/ Writes(p)
                   \/ Reads(p) \/ MakesPlan(p) \/ TakesNext(p) \/ ReadsLetter(p)
                   \/ Checks(p) \/ Removes(p)
            PROVE  vol' = vol
        BY <4>4 DEF Quiet, Ended, AddsOne, Truncates, Writes, Reads, MakesPlan, TakesNext,
                    ReadsLetter, Checks, Removes, SameEc2
      <4> QED  BY <3>1, <3>2, <4>1, <4>2, <4>3, <4>4 DEF Moves, MadeOne
    <3>3. ASSUME NEW w \in Own, LostOne(w)
          PROVE  vol'[v] # "gone"
      BY <3>1, <3>3 DEF LostOne, NewVolume
    <3>4. ASSUME Ec2Moves
          PROVE  vol'[v] # "gone"
      BY <3>1, <3>4 DEF Ec2Moves
    <3> QED  BY <3>2, <3>3, <3>4, StepTypes
  <2> QED  BY <2>1, <2>2
<1> QED  BY <1>1, <1>2, PTL DEF Spec
=============================================================================
