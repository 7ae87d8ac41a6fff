------------------------- MODULE CredentialsProofs -------------------------
(***************************************************************************)
(* What Credentials guarantees for any processes, keys and faults.         *)
(*                                                                         *)
(* A step is described once by what it does to the keys on the list, in    *)
(* the hand and in the stores (StepEffect); the invariants are preserved   *)
(* by each of these effects.                                               *)
(***************************************************************************)
EXTENDS Credentials, SequenceTheorems, FunctionTheorems, FiniteSetTheorems, TLAPS

(* Sequences without repetition *)

\* The row of a key that is in the table.
LEMMA RowOfType ==
  ASSUME NEW S, rows \in Seq(S), NEW k \in Recorded
  PROVE  RowOf(k) \in 1 .. Len(rows) /\ rows[RowOf(k)] = k
<1>1. DOMAIN rows = 1 .. Len(rows)
  BY LenProperties
<1>2. \E n \in 1 .. Len(rows) : rows[n] = k
  BY <1>1 DEF Recorded, Elements
<1> QED
  BY <1>1, <1>2 DEF RowOf

\* The DELETE removes one key from the table and no other.
LEMMA WithoutRow ==
  ASSUME NEW S, rows \in Seq(S), Distinct(rows), NEW k
  PROVE  /\ RowsWithout(k) \in Seq(S)
         /\ Distinct(RowsWithout(k))
         /\ Elements(RowsWithout(k)) = Recorded \ {k}
<1>1. /\ Len(rows) \in Nat
      /\ rows \in [1 .. Len(rows) -> S]
      /\ DOMAIN rows = 1 .. Len(rows)
  BY LenProperties
<1>2. CASE k \notin Recorded
  BY <1>2 DEF RowsWithout, Recorded
<1>3. CASE k \in Recorded
  <2> DEFINE m == RowOf(k)
             e(n) == IF n < m THEN rows[n] ELSE rows[n + 1]
             s == [n \in 1 .. Len(rows) - 1 |-> e(n)]
  <2>1. m \in 1 .. Len(rows) /\ rows[m] = k
    BY <1>3, RowOfType
  <2> HIDE DEF m
  <2>2. RowsWithout(k) = s
    BY <1>3 DEF RowsWithout, m
  <2>3. Len(rows) - 1 \in Nat
    BY <1>1, <2>1
  <2>4. \A n \in 1 .. Len(rows) - 1 : e(n) \in S
    BY <1>1, <2>1
  <2>5. s \in Seq(S)
    <3> HIDE DEF e
    <3> QED
      BY <2>3, <2>4, IsASeq
  <2>6. DOMAIN s = 1 .. Len(rows) - 1
    OBVIOUS
  <2>7. \A i, j \in 1 .. Len(rows) : rows[i] = rows[j] => i = j
    BY <1>1 DEF Distinct
  <2>8. Distinct(s)
    BY <1>1, <2>1, <2>6, <2>7 DEF Distinct
  <2>9. \A x \in Elements(s) : x \in Recorded /\ x # k
    BY <1>1, <2>1, <2>6, <2>7 DEF Elements, Recorded
  <2>10. ASSUME NEW x \in Recorded, x # k PROVE x \in Elements(s)
    <3>1. PICK n \in 1 .. Len(rows) : rows[n] = x
      BY <1>1 DEF Recorded, Elements
    <3>2. n # m
      BY <2>1, <2>10, <3>1
    <3>3. CASE n < m
      <4>1. n \in DOMAIN s /\ s[n] = x
        BY <1>1, <2>1, <2>6, <3>1, <3>3
      <4> QED
        BY <4>1 DEF Elements
    <3>4. CASE n > m
      <4>1. n - 1 \in DOMAIN s /\ s[n - 1] = x
        BY <1>1, <2>1, <2>6, <3>1, <3>4
      <4> QED
        BY <4>1 DEF Elements
    <3> QED
      BY <1>1, <2>1, <3>1, <3>2, <3>3, <3>4
  <2>11. Elements(s) = Recorded \ {k}
    BY <2>9, <2>10
  <2> QED
    BY <2>2, <2>5, <2>8, <2>11
<1> QED
  BY <1>2, <1>3

\* The INSERT adds a key to the table and changes no other.
LEMMA WithRow ==
  ASSUME NEW S, rows \in Seq(S), Distinct(rows), NEW k \in S
  PROVE  /\ RowsWith(k) \in Seq(S)
         /\ Distinct(RowsWith(k))
         /\ Elements(RowsWith(k)) = Recorded \cup {k}
<1>1. /\ Len(rows) \in Nat
      /\ DOMAIN rows = 1 .. Len(rows)
  BY LenProperties
<1>2. CASE k \in Recorded
  BY <1>2 DEF RowsWith, Recorded
<1>3. CASE k \notin Recorded
  <2> DEFINE s == Append(rows, k)
  <2>1. /\ RowsWith(k) = s
        /\ s \in Seq(S)
        /\ Len(s) = Len(rows) + 1
        /\ DOMAIN s = 1 .. Len(rows) + 1
        /\ \A n \in 1 .. Len(rows) : s[n] = rows[n]
        /\ s[Len(rows) + 1] = k
    BY <1>1, <1>3, AppendProperties, LenProperties DEF RowsWith
  <2>2. \A n \in 1 .. Len(rows) : rows[n] # k
    BY <1>1, <1>3 DEF Recorded, Elements
  <2> HIDE DEF s
  <2>3. Distinct(s)
    BY <1>1, <2>1, <2>2 DEF Distinct
  <2>4. Elements(s) = Recorded \cup {k}
    BY <1>1, <2>1 DEF Elements, Recorded
  <2> QED
    BY <2>1, <2>3, <2>4
<1> QED
  BY <1>2, <1>3

\* The head of a list without repetition is in the list and not in its tail.
LEMMA HeadAndTail ==
  ASSUME NEW S, NEW s \in Seq(S), s # <<>>, Distinct(s)
  PROVE  /\ Head(s) \in S /\ Head(s) \in Elements(s)
         /\ Tail(s) \in Seq(S)
         /\ Distinct(Tail(s))
         /\ Elements(Tail(s)) = Elements(s) \ {Head(s)}
<1>1. /\ Len(s) \in Nat
      /\ DOMAIN s = 1 .. Len(s)
      /\ Len(s) # 0
  BY LenProperties, EmptySeq
<1>2. /\ Head(s) \in S
      /\ Tail(s) \in Seq(S)
      /\ Len(Tail(s)) = Len(s) - 1
      /\ \A n \in 1 .. Len(s) - 1 : Tail(s)[n] = s[n + 1]
      /\ DOMAIN Tail(s) = 1 .. Len(s) - 1
  BY HeadTailProperties, LenProperties
<1>3. Head(s) = s[1]
  BY <1>1
<1>4. Distinct(Tail(s))
  BY <1>1, <1>2 DEF Distinct
<1>5. Elements(Tail(s)) = Elements(s) \ {Head(s)}
  <2>1. \A x \in Elements(Tail(s)) : x \in Elements(s) /\ x # Head(s)
    BY <1>1, <1>2, <1>3 DEF Elements, Distinct
  <2>2. ASSUME NEW x \in Elements(s), x # Head(s) PROVE x \in Elements(Tail(s))
    <3>1. PICK n \in 1 .. Len(s) : s[n] = x
      BY <1>1 DEF Elements
    <3>2. n - 1 \in 1 .. Len(s) - 1 /\ Tail(s)[n - 1] = x
      BY <1>1, <1>2, <1>3, <2>2, <3>1
    <3> QED
      BY <1>2, <3>2 DEF Elements
  <2> QED
    BY <2>1, <2>2
<1>6. Head(s) \in Elements(s)
  BY <1>1, <1>3 DEF Elements
<1> QED
  BY <1>2, <1>4, <1>5, <1>6

-----------------------------------------------------------------------------
(* What a step does to the keys a process is concerned with *)

\* The keys on the list of a process, the key it has created and not yet
\* recorded, and the key it has deleted at IAM and not yet in the database.
TodoOf(s) == IF s.pc \in {"rotating", "deleted"} THEN Elements(s.todo) ELSE {}
AddsOf(s) == IF s.pc = "created" THEN {s.key} ELSE {}
DropsOf(s) == IF s.pc = "deleted" THEN {Head(s.todo)} ELSE {}

Todo(p) == TodoOf(proc[p])
Adds(p) == AddsOf(proc[p])
Drops(p) == DropsOf(proc[p])

ProcStates == {Idle} \cup RotatingStates \cup DeletedStates \cup CreatedStates

Has(p, todo, adds, drops) ==
    Todo(p) = todo /\ Adds(p) = adds /\ Drops(p) = drops

\* p's sets become these; those of the other processes stay.
Gets(p, todo, adds, drops) ==
    /\ Todo(p)' = todo /\ Adds(p)' = adds /\ Drops(p)' = drops
    /\ \A q \in Util \ {p} : /\ Todo(q)' = Todo(q)
                             /\ Adds(q)' = Adds(q)
                             /\ Drops(q)' = Drops(q)
                             /\ proc'[q] = proc[q]

\* The key between a process's change at IAM and its change in the database.
LEMMA InHandIs ==
  ASSUME NEW p \in Util
  PROVE  InHand(p) = Adds(p) \cup Drops(p)
BY DEF InHand, Adds, AddsOf, Drops, DropsOf

\* The sets of a process follow its state.
LEMMA BecomeGets ==
  ASSUME proc \in [Util -> ProcStates], NEW p \in Util, NEW s, Become(p, s)
  PROVE  /\ proc' = [proc EXCEPT ![p] = s]
         /\ proc'[p] = s
         /\ Gets(p, TodoOf(s), AddsOf(s), DropsOf(s))
<1>1. proc'[p] = s /\ \A q \in Util \ {p} : proc'[q] = proc[q]
  BY DEF Become
<1> QED
  BY <1>1 DEF Become, Gets, Todo, Adds, Drops

\* An idle process holds no keys.
LEMMA IdleHas == TodoOf(Idle) = {} /\ AddsOf(Idle) = {} /\ DropsOf(Idle) = {}
BY DEF Idle, TodoOf, AddsOf, DropsOf

\* An idle process, and one that ends.
LEMMA IdleGets ==
  ASSUME proc \in [Util -> ProcStates], NEW p \in Util, Become(p, Idle)
  PROVE  Gets(p, {}, {}, {})
BY BecomeGets, IdleHas

\* A process between two keys holds only its list.
LEMMA RotatingHas ==
  ASSUME NEW p \in Util, proc[p].pc = "rotating"
  PROVE  Has(p, Elements(proc[p].todo), {}, {})
BY DEF Has, Todo, TodoOf, Adds, AddsOf, Drops, DropsOf

\* Nothing is on the empty list.
LEMMA EmptyList == Elements(<<>>) = {}
BY DEF Elements

\* A key that IAM can still issue.
LEMMA NewKeyIsNew ==
  ASSUME issued \subseteq Key, issued # Key
  PROVE  NewKey \in Key /\ NewKey \notin issued
BY DEF NewKey

\* The table holds keys that IAM has issued.
LEMMA RowsType ==
  ASSUME TypeOK
  PROVE  /\ rows \in Seq(Key)
         /\ Recorded \subseteq issued
<1>1. /\ Len(rows) \in Nat /\ DOMAIN rows = 1 .. Len(rows)
      /\ \A n \in 1 .. Len(rows) : rows[n] \in issued
  BY LenProperties, ElementOfSeq DEF TypeOK
<1>2. rows \in Seq(Key)
  BY <1>1, SeqDef DEF TypeOK
<1> QED
  BY <1>1, <1>2 DEF Recorded, Elements

\* The states of a process, by its program counter.
LEMMA StateOf ==
  ASSUME TypeOK, NEW p \in Util
  PROVE  /\ proc \in [Util -> ProcStates]
         /\ proc[p].pc \in {"idle", "rotating", "deleted", "created"}
         /\ proc[p].pc = "idle" => proc[p] = Idle
         /\ proc[p].pc = "rotating" => proc[p].todo \in Seq(Key) /\ Distinct(proc[p].todo)
         /\ proc[p].pc = "deleted" => /\ proc[p].todo \in Seq(Key)
                                     /\ proc[p].todo # <<>>
                                     /\ Distinct(proc[p].todo)
         /\ proc[p].pc = "created" => proc[p].key \in Key
BY DEF TypeOK, ProcStates, Idle, RotatingStates, DeletedStates, CreatedStates

\* init_access_keys() puts the rows of the table on the list.
LEMMA StartEffect ==
  ASSUME TypeOK, NEW p \in Util, Start(p)
  PROVE  /\ Has(p, {}, {}, {})
         /\ Gets(p, Recorded, {}, {})
<1>1. Has(p, {}, {}, {})
  BY StateOf, IdleHas DEF Start, Has, Todo, Adds, Drops
<1> DEFINE s == [pc |-> "rotating", todo |-> rows]
<1>2. TodoOf(s) = Recorded /\ AddsOf(s) = {} /\ DropsOf(s) = {}
  BY DEF TodoOf, AddsOf, DropsOf, Recorded
<1>3. Become(p, s)
  BY DEF Start, CachedKeys
<1>4. Gets(p, Recorded, {}, {})
  <2>1. proc \in [Util -> ProcStates]
    BY StateOf
  <2> HIDE DEF s
  <2>2. Gets(p, TodoOf(s), AddsOf(s), DropsOf(s))
    BY <1>3, <2>1, BecomeGets
  <2> QED
    BY <1>2, <2>2
<1> QED
  BY <1>1, <1>4

\* The key delete_access_key is called for is on the list.
LEMMA NextInList ==
  ASSUME TypeOK, NEW p \in Util, DeletesNext(p)
  PROVE  LET h == Head(proc[p].todo) IN
         /\ Has(p, Elements(proc[p].todo), {}, {})
         /\ h \in Todo(p)
<1> DEFINE t == proc[p].todo
<1>1. t \in Seq(Key) /\ t # <<>> /\ Distinct(t)
  BY StateOf DEF DeletesNext
<1>2. Head(t) \in Elements(t)
  BY <1>1, HeadAndTail
<1>3. Has(p, Elements(t), {}, {})
  BY RotatingHas DEF DeletesNext
<1> QED
  BY <1>2, <1>3 DEF Has

\* The IAM half of delete_access_key.
LEMMA DeleteAtIamEffect ==
  ASSUME TypeOK, NEW p \in Util, DeleteAtIam(p)
  PROVE  LET h == Head(proc[p].todo) IN
         /\ Has(p, Todo(p), {}, {})
         /\ h \in Todo(p)
         /\ Gets(p, Todo(p), {}, {h})
         /\ h \in iam /\ iam' = iam \ {h}
<1> DEFINE s == [pc |-> "deleted", todo |-> proc[p].todo]
<1>1. DeletesNext(p) /\ Become(p, s)
  BY DEF DeleteAtIam
<1>2. TodoOf(s) = Elements(proc[p].todo) /\ AddsOf(s) = {} /\ DropsOf(s) = {Head(proc[p].todo)}
  BY DEF TodoOf, AddsOf, DropsOf
<1>3. Head(proc[p].todo) \in iam /\ iam' = iam \ {Head(proc[p].todo)}
  BY DEF DeleteAtIam, IamWithout
<1>4. Gets(p, Elements(proc[p].todo), {}, {Head(proc[p].todo)})
  <2>1. proc \in [Util -> ProcStates]
    BY StateOf
  <2> HIDE DEF s
  <2>2. Gets(p, TodoOf(s), AddsOf(s), DropsOf(s))
    BY <1>1, <2>1, BecomeGets
  <2> QED
    BY <1>2, <2>2
<1>5. /\ Has(p, Elements(proc[p].todo), {}, {})
      /\ Head(proc[p].todo) \in Todo(p)
  BY <1>1, NextInList
<1>6. Todo(p) = Elements(proc[p].todo)
  BY <1>5 DEF Has
<1> QED
  BY <1>3, <1>4, <1>5, <1>6

\* The database half of delete_access_key.
LEMMA DeleteRowEffect ==
  ASSUME TypeOK, NEW p \in Util, DeleteRow(p)
  PROVE  LET h == Head(proc[p].todo) IN
         /\ Has(p, Todo(p), {}, {h})
         /\ h \in Todo(p)
         /\ Gets(p, Todo(p) \ {h}, {}, {})
         /\ Recorded' = Recorded \ {h}
<1> DEFINE t == proc[p].todo
           s == [pc |-> "rotating", todo |-> Tail(t)]
<1>1. proc[p].pc = "deleted" /\ Become(p, s) /\ rows' = RowsWithout(Head(t))
  BY DEF DeleteRow
<1>2. t \in Seq(Key) /\ t # <<>> /\ Distinct(t)
  BY <1>1, StateOf
<1>3. Head(t) \in Elements(t) /\ Elements(Tail(t)) = Elements(t) \ {Head(t)}
  BY <1>2, HeadAndTail
<1>4. Has(p, Elements(t), {}, {Head(t)})
  BY <1>1 DEF Has, Todo, TodoOf, Adds, AddsOf, Drops, DropsOf
<1>5. TodoOf(s) = Elements(Tail(t)) /\ AddsOf(s) = {} /\ DropsOf(s) = {}
  BY DEF TodoOf, AddsOf, DropsOf
<1>6. Gets(p, Elements(Tail(t)), {}, {})
  <2>1. Gets(p, TodoOf(s), AddsOf(s), DropsOf(s))
    <3>1. proc \in [Util -> ProcStates]
      BY StateOf
    <3>2. Become(p, s)
      BY <1>1
    <3> HIDE DEF s
    <3> QED
      BY <3>1, <3>2, BecomeGets
  <2> QED
    BY <1>5, <2>1
<1>7. Recorded' = Recorded \ {Head(t)}
  <2>1. Recorded' = Elements(RowsWithout(Head(t)))
    BY <1>1 DEF Recorded, Elements
  <2>2. rows \in Seq(issued) /\ Distinct(rows)
    BY DEF TypeOK
  <2> QED
    BY <2>1, <2>2, WithoutRow
<1>8. Todo(p) = Elements(t) /\ Has(p, Todo(p), {}, {Head(t)})
  BY <1>4 DEF Has
<1> QED
  BY <1>3, <1>6, <1>7, <1>8

\* The IAM half of create_access_key.
LEMMA CreateAtIamEffect ==
  ASSUME TypeOK, NEW p \in Util, CreateAtIam(p)
  PROVE  /\ Has(p, {}, {}, {})
         /\ Gets(p, {}, {NewKey}, {})
         /\ NewKey \in Key /\ NewKey \notin issued
         /\ iam' = iam \cup {NewKey} /\ issued' = issued \cup {NewKey}
<1> DEFINE s == [pc |-> "created", key |-> NewKey]
<1>1. Creates(p) /\ Become(p, s) /\ iam' = iam \cup {NewKey} /\ issued' = issued \cup {NewKey}
  BY DEF CreateAtIam
<1>2. Has(p, {}, {}, {})
  BY <1>1, RotatingHas, EmptyList DEF Creates
<1>3. TodoOf(s) = {} /\ AddsOf(s) = {NewKey} /\ DropsOf(s) = {}
  BY DEF TodoOf, AddsOf, DropsOf
<1>4. NewKey \in Key /\ NewKey \notin issued
  BY <1>1, NewKeyIsNew DEF Creates, TypeOK
<1>5. Gets(p, {}, {NewKey}, {})
  <2>1. proc \in [Util -> ProcStates]
    BY StateOf
  <2> HIDE DEF s
  <2>2. Gets(p, TodoOf(s), AddsOf(s), DropsOf(s))
    BY <1>1, <2>1, BecomeGets
  <2> QED
    BY <1>3, <2>2
<1> QED
  BY <1>1, <1>2, <1>4, <1>5

\* The database half of create_access_key.
LEMMA InsertRowEffect ==
  ASSUME TypeOK, NEW p \in Util, InsertRow(p), Adds(p) \subseteq issued
  PROVE  /\ Has(p, {}, {proc[p].key}, {})
         /\ Gets(p, {}, {}, {})
         /\ Recorded' = Recorded \cup {proc[p].key}
<1>1. proc[p].pc = "created" /\ Become(p, Idle) /\ rows' = RowsWith(proc[p].key)
  BY DEF InsertRow
<1>2. Has(p, {}, {proc[p].key}, {})
  BY <1>1 DEF Has, Todo, TodoOf, Adds, AddsOf, Drops, DropsOf
<1>3. Recorded' = Recorded \cup {proc[p].key}
  <2>1. Recorded' = Elements(RowsWith(proc[p].key))
    BY <1>1 DEF Recorded, Elements
  <2>2. rows \in Seq(issued) /\ Distinct(rows)
    BY DEF TypeOK
  <2>3. proc[p].key \in issued
    BY <1>2 DEF Has
  <2> QED
    BY <2>1, <2>2, <2>3, WithRow
<1> QED
  BY <1>1, <1>2, <1>3, StateOf, IdleGets

-----------------------------------------------------------------------------
(* The invariant *)

\* A process works on keys that IAM has issued.
ListsAreIssued ==
    \A p \in Util : Todo(p) \cup Adds(p) \cup Drops(p) \subseteq issued

\* A key that is created and not yet recorded is on nobody's list.
NewKeysAreNew ==
    \A p \in Util : \A k \in Adds(p) :
        /\ k \notin Recorded
        /\ k \in iam \cup harmed
        /\ \A q \in Util : k \notin Todo(q) /\ (q # p => k \notin Adds(q))

\* A key whose row a process is about to delete is gone at IAM, by the doing
\* of this process alone.
DroppedAreGone ==
    \A p \in Util : \A k \in Drops(p) :
        /\ k \notin iam
        /\ k \in Todo(p)
        /\ \A q \in Util \ {p} : k \notin Drops(q)

Inv == /\ TypeOK
       /\ ListsAreIssued
       /\ NewKeysAreNew
       /\ DroppedAreGone

\* The account starts with one key, that works and is recorded.
LEMMA InitInv == Init => Inv
<1> SUFFICES ASSUME Init PROVE Inv
  OBVIOUS
<1>1. \A p \in Util : proc[p] = Idle
  BY DEF Init
<1>2. TypeOK
  <2>1. proc \in [Util -> ProcStates] /\ \A p \in Util : proc[p].pc = "idle"
    BY DEF Init, ProcStates, Idle
  <2>2. rows \in Seq({FirstKey}) /\ Distinct(rows)
    BY DEF Init, Distinct
  <2>3. 0 \in 0 .. MaxFaults
    BY CredentialsAssumption
  <2> QED
    BY <2>1, <2>2, <2>3, CredentialsAssumption DEF Init, TypeOK, ProcStates
<1>3. \A p \in Util : Todo(p) = {} /\ Adds(p) = {} /\ Drops(p) = {}
  BY <1>1, IdleHas DEF Todo, Adds, Drops
<1> QED
  BY <1>2, <1>3 DEF Inv, ListsAreIssued, NewKeysAreNew, DroppedAreGone

(* The types *)

ProcOK == /\ proc \in [Util -> ProcStates]
          /\ \A p \in Util :
                 proc[p].pc \in {"rotating", "deleted"} => Distinct(proc[p].todo)

\* A process that gets a legal state leaves all processes legal.
LEMMA BecomeOK ==
  ASSUME TypeOK, NEW p \in Util, NEW s \in ProcStates, Become(p, s),
         s.pc \in {"rotating", "deleted"} => Distinct(s.todo)
  PROVE  ProcOK'
<1>1. proc' \in [Util -> ProcStates]
  BY DEF TypeOK, ProcStates, Become
<1>2. \A q \in Util : proc'[q] = IF q = p THEN s ELSE proc[q]
  BY DEF TypeOK, Become
<1> QED
  BY <1>1, <1>2 DEF ProcOK, TypeOK

\* A process that stays where it is, or ends, leaves all processes legal.
LEMMA IdleOK ==
  ASSUME TypeOK, NEW p \in Util, Become(p, proc[p]) \/ Become(p, Idle)
  PROVE  ProcOK'
<1>1. CASE Become(p, proc[p])
  BY <1>1 DEF TypeOK, ProcOK, ProcStates, Become
<1>2. CASE Become(p, Idle)
  <2>1. Idle \in ProcStates /\ Idle.pc = "idle"
    BY DEF Idle, ProcStates
  <2> QED
    BY <1>2, <2>1, BecomeOK
<1> QED
  BY <1>1, <1>2

\* Every step leaves all processes in legal states.
LEMMA ProcStep ==
  ASSUME TypeOK, [Next]_vars
  PROVE  ProcOK'
<1>1. ASSUME NEW p \in Util, Start(p) PROVE ProcOK'
  <2> DEFINE s == [pc |-> "rotating", todo |-> rows]
  <2>1. s \in ProcStates /\ Distinct(s.todo)
    BY RowsType DEF ProcStates, RotatingStates, TypeOK
  <2>2. Become(p, s)
    BY <1>1 DEF Start, CachedKeys
  <2> QED
    BY <2>1, <2>2, BecomeOK
<1>2. ASSUME NEW p \in Util, DeleteAtIam(p) PROVE ProcOK'
  <2> DEFINE s == [pc |-> "deleted", todo |-> proc[p].todo]
  <2>1. Become(p, s) /\ DeletesNext(p)
    BY <1>2 DEF DeleteAtIam
  <2>2. s \in ProcStates /\ Distinct(s.todo)
    BY <2>1, StateOf DEF ProcStates, DeletedStates, DeletesNext
  <2> QED
    BY <2>1, <2>2, BecomeOK
<1>3. ASSUME NEW p \in Util, DeleteRow(p) PROVE ProcOK'
  <2> DEFINE s == [pc |-> "rotating", todo |-> Tail(proc[p].todo)]
  <2>1. Become(p, s) /\ proc[p].pc = "deleted"
    BY <1>3 DEF DeleteRow
  <2>2. s \in ProcStates /\ Distinct(s.todo)
    BY <2>1, StateOf, HeadAndTail DEF ProcStates, RotatingStates
  <2> QED
    BY <2>1, <2>2, BecomeOK
<1>4. ASSUME NEW p \in Util, CreateAtIam(p) PROVE ProcOK'
  <2> DEFINE s == [pc |-> "created", key |-> NewKey]
  <2>1. Become(p, s) /\ NewKey \in Key
    BY <1>4, CreateAtIamEffect DEF CreateAtIam
  <2>2. s \in ProcStates /\ s.pc = "created"
    BY <2>1 DEF ProcStates, CreatedStates
  <2> QED
    BY <2>1, <2>2, BecomeOK
<1>5. ASSUME NEW p \in Util,
             \/ DeleteRefused(p) \/ InsertRow(p) \/ Abort(p)
             \/ DeleteAnswerLost(p) \/ CreateAnswerLost(p)
      PROVE  ProcOK'
  BY <1>5, IdleOK DEF DeleteRefused, InsertRow, Abort, DeleteAnswerLost, CreateAnswerLost
<1>6. CASE UNCHANGED proc
  BY <1>6 DEF TypeOK, ProcOK, ProcStates
<1>7. UNCHANGED vars => UNCHANGED proc
  BY DEF vars
<1>8. (\E k \in Key : StudentDeletes(k)) => UNCHANGED proc
  BY DEF StudentDeletes
<1> QED
  BY <1>1, <1>2, <1>3, <1>4, <1>5, <1>6, <1>7, <1>8 DEF Next, Proceed

DataOK == /\ issued \subseteq Key
          /\ iam \subseteq issued
          /\ rows \in Seq(issued) /\ Distinct(rows)
          /\ harmed \subseteq issued
          /\ faults \in 0 .. MaxFaults

\* The type invariant, in two parts.
LEMMA TypeParts == TypeOK <=> ProcOK /\ DataOK
BY DEF TypeOK, ProcOK, DataOK, ProcStates

\* A sequence over a set is one over a larger set.
LEMMA SeqOfMore ==
  ASSUME NEW S, NEW T, S \subseteq T, NEW s \in Seq(S)
  PROVE  s \in Seq(T)
<1>1. Len(s) \in Nat /\ s \in [1 .. Len(s) -> S]
  BY LenProperties
<1>2. s \in [1 .. Len(s) -> T]
  BY <1>1
<1> QED
  BY <1>1, <1>2, SeqDef

\* A step that leaves the table alone.
LEMMA DataFrame ==
  ASSUME DataOK, rows' = rows, issued \subseteq issued', issued' \subseteq Key,
         iam' \subseteq issued', harmed' \subseteq issued', faults' \in 0 .. MaxFaults
  PROVE  DataOK'
<1>1. rows' \in Seq(issued')
  BY SeqOfMore DEF DataOK
<1>2. Distinct(rows')
  BY DEF DataOK
<1> QED
  BY <1>1, <1>2 DEF DataOK

\* A step that changes only the table.
LEMMA DataRows ==
  ASSUME DataOK, rows' \in Seq(issued), Distinct(rows'),
         UNCHANGED <<iam, issued, harmed, faults>>
  PROVE  DataOK'
BY DEF DataOK

\* A fault is counted, and the keys it hits are remembered.
LEMMA FaultCounts ==
  ASSUME DataOK, NEW hit, Fault(hit)
  PROVE  faults' \in 0 .. MaxFaults /\ harmed' = harmed \cup hit
<1>1. faults < MaxFaults /\ faults' = faults + 1 /\ harmed' = harmed \cup hit
  BY DEF Fault
<1> QED
  BY <1>1, CredentialsAssumption DEF DataOK

\* Every step leaves both stores well formed.
LEMMA DataStep ==
  ASSUME Inv, [Next]_vars
  PROVE  DataOK'
<1> USE DEF Inv
<1>0. /\ DataOK
      /\ issued \subseteq Key /\ iam \subseteq issued /\ harmed \subseteq issued
      /\ rows \in Seq(issued) /\ Distinct(rows) /\ faults \in 0 .. MaxFaults
  BY TypeParts DEF DataOK
<1>1. ASSUME NEW p \in Util, Start(p) \/ DeleteRefused(p) PROVE DataOK'
  BY <1>0, <1>1, DataFrame DEF Start, DeleteRefused
<1>2. ASSUME NEW p \in Util, DeleteAtIam(p) PROVE DataOK'
  BY <1>0, <1>2, DataFrame DEF DeleteAtIam, IamWithout
<1>3. ASSUME NEW p \in Util, DeleteRow(p) PROVE DataOK'
  <2>1. rows' \in Seq(issued) /\ Distinct(rows')
    BY <1>0, <1>3, WithoutRow DEF DeleteRow
  <2> QED
    BY <1>0, <1>3, <2>1, DataRows DEF DeleteRow
<1>4. ASSUME NEW p \in Util, CreateAtIam(p) PROVE DataOK'
  <2>1. NewKey \in Key
    BY <1>4, CreateAtIamEffect
  <2> QED
    BY <1>0, <1>4, <2>1, DataFrame DEF CreateAtIam
<1>5. ASSUME NEW p \in Util, InsertRow(p) PROVE DataOK'
  <2>1. Adds(p) \subseteq issued
    BY DEF ListsAreIssued
  <2>2. proc[p].key \in issued
    BY <1>5, <2>1, InsertRowEffect DEF Has
  <2>3. rows' \in Seq(issued) /\ Distinct(rows')
    BY <1>0, <1>5, <2>2, WithRow DEF InsertRow
  <2> QED
    BY <1>0, <1>5, <2>3, DataRows DEF InsertRow
<1>6. ASSUME NEW p \in Util, DeleteAnswerLost(p) PROVE DataOK'
  <2>1. faults' \in 0 .. MaxFaults /\ harmed' = harmed \cup {Head(proc[p].todo)}
    BY <1>0, <1>6, FaultCounts DEF DeleteAnswerLost
  <2> QED
    BY <1>0, <1>6, <2>1, DataFrame DEF DeleteAnswerLost, IamWithout
<1>7. ASSUME NEW p \in Util, CreateAnswerLost(p) PROVE DataOK'
  <2>1. NewKey \in Key
    BY <1>0, <1>7, NewKeyIsNew DEF CreateAnswerLost, Creates
  <2>2. faults' \in 0 .. MaxFaults /\ harmed' = harmed \cup {NewKey}
    BY <1>0, <1>7, FaultCounts DEF CreateAnswerLost
  <2> QED
    BY <1>0, <1>7, <2>1, <2>2, DataFrame DEF CreateAnswerLost
<1>8. ASSUME NEW p \in Util, Abort(p) PROVE DataOK'
  <2>1. InHand(p) \subseteq issued
    BY InHandIs DEF ListsAreIssued
  <2>2. faults' \in 0 .. MaxFaults /\ harmed' = harmed \cup InHand(p)
    BY <1>0, <1>8, FaultCounts DEF Abort
  <2> QED
    BY <1>0, <1>8, <2>1, <2>2, DataFrame DEF Abort
<1>9. ASSUME NEW k \in Key, StudentDeletes(k) PROVE DataOK'
  <2>1. faults' \in 0 .. MaxFaults /\ harmed' = harmed \cup {k}
    BY <1>0, <1>9, FaultCounts DEF StudentDeletes
  <2> QED
    BY <1>0, <1>9, <2>1, DataFrame DEF StudentDeletes
<1>10. CASE UNCHANGED vars
  BY <1>0, <1>10, DataFrame DEF vars
<1> QED
  BY <1>1, <1>2, <1>3, <1>4, <1>5, <1>6, <1>7, <1>8, <1>9, <1>10 DEF Next, Proceed

(* What a step does to the sets of keys *)

\* Which processes run after a step.
LEMMA BecomeActive ==
  ASSUME proc \in [Util -> ProcStates], NEW p \in Util, NEW s, Become(p, s)
  PROVE  Active' = IF s.pc # "idle" THEN Active \cup {p} ELSE Active \ {p}
<1>1. \A q \in Util : proc'[q] = IF q = p THEN s ELSE proc[q]
  BY DEF Become
<1> QED
  BY <1>1 DEF Active

SameSets == /\ Recorded' = Recorded
            /\ issued' = issued
            /\ harmed' = harmed

ReadsList(p) ==
    /\ Has(p, {}, {}, {}) /\ Gets(p, Recorded, {}, {})
    /\ Active' = Active \cup {p}
    /\ iam' = iam /\ SameSets

DeletesKey(p, k) ==
    /\ Has(p, Todo(p), {}, {}) /\ Gets(p, Todo(p), {}, {k})
    /\ Active' = Active
    /\ k \in Todo(p) /\ k \in iam
    /\ iam' = iam \ {k} /\ SameSets

DeletesItsRow(p, k) ==
    /\ Has(p, Todo(p), {}, {k}) /\ Gets(p, Todo(p) \ {k}, {}, {})
    /\ Active' = Active
    /\ iam' = iam /\ issued' = issued /\ harmed' = harmed
    /\ Recorded' = Recorded \ {k}

CreatesKey(p, k) ==
    /\ Has(p, {}, {}, {}) /\ Gets(p, {}, {k}, {})
    /\ Active' = Active
    /\ k \notin issued
    /\ iam' = iam \cup {k} /\ issued' = issued \cup {k} /\ harmed' = harmed
    /\ Recorded' = Recorded

InsertsItsRow(p, k) ==
    /\ Has(p, {}, {k}, {}) /\ Gets(p, {}, {}, {})
    /\ p \in Active /\ Active' = Active \ {p}
    /\ iam' = iam /\ issued' = issued /\ harmed' = harmed
    /\ Recorded' = Recorded \cup {k}

\* The step of no process, or of one that a fault or a refusal ends or leaves
\* where it is.
Disturbs(p) ==
    /\ \/ Gets(p, Todo(p), Adds(p), Drops(p)) /\ Active' = Active
       \/ /\ Gets(p, {}, {}, {}) /\ Active' = Active \ {p}
          /\ Adds(p) \cup Drops(p) \subseteq harmed'
    /\ Recorded' = Recorded
    /\ issued \subseteq issued' /\ harmed \subseteq harmed'
    /\ iam' \subseteq iam \cup (issued' \ issued)
    /\ iam \subseteq iam' \cup harmed'
    /\ iam' \subseteq iam \cup harmed'

Effect(p) == \/ ReadsList(p)
             \/ \E k \in Key : \/ DeletesKey(p, k) \/ DeletesItsRow(p, k)
                              \/ CreatesKey(p, k) \/ InsertsItsRow(p, k)
             \/ Disturbs(p)

\* A step that changes no process changes no process's sets.
LEMMA StayGets ==
  ASSUME TypeOK, NEW p \in Util, UNCHANGED proc
  PROVE  Gets(p, Todo(p), Adds(p), Drops(p)) /\ Active' = Active
BY DEF Gets, Todo, Adds, Drops, Active

\* A fault or a refusal leaves a process where it is, or ends it.
LEMMA StayOrEnd ==
  ASSUME TypeOK, NEW p \in Util, Become(p, proc[p]) \/ Become(p, Idle),
         proc[p].pc # "idle", Adds(p) \cup Drops(p) \subseteq harmed'
  PROVE  \/ Gets(p, Todo(p), Adds(p), Drops(p)) /\ Active' = Active
         \/ /\ Gets(p, {}, {}, {}) /\ Active' = Active \ {p}
            /\ Adds(p) \cup Drops(p) \subseteq harmed'
<1>1. proc \in [Util -> ProcStates]
  BY StateOf
<1>2. CASE Become(p, proc[p])
  <2>1. proc' = proc
    BY <1>1, <1>2 DEF Become
  <2> QED
    BY <2>1, StayGets
<1>3. CASE Become(p, Idle)
  <2>1. Active' = Active \ {p}
    BY <1>1, <1>3, BecomeActive DEF Idle
  <2>2. Gets(p, {}, {}, {})
    BY <1>1, <1>3, IdleGets
  <2> QED
    BY <2>1, <2>2
<1> QED
  BY <1>2, <1>3

\* Every step has one of the effects.
LEMMA StepEffect ==
  ASSUME Inv, [Next]_vars
  PROVE  \E p \in Util : Effect(p)
<1> USE DEF Inv
<1>0. /\ proc \in [Util -> ProcStates]
      /\ issued \subseteq Key /\ iam \subseteq issued /\ harmed \subseteq issued
  BY DEF TypeOK, ProcStates
<1>1. ASSUME NEW p \in Util, Start(p) PROVE ReadsList(p)
  <2>1. Has(p, {}, {}, {}) /\ Gets(p, Recorded, {}, {})
    BY <1>1, StartEffect
  <2>2. Active' = Active \cup {p}
    BY <1>0, <1>1, BecomeActive DEF Start
  <2> QED
    BY <1>1, <2>1, <2>2 DEF Start, ReadsList, SameSets, Recorded, Elements
<1>2. ASSUME NEW p \in Util, DeleteAtIam(p) PROVE \E k \in Key : DeletesKey(p, k)
  <2> DEFINE h == Head(proc[p].todo)
  <2>1. /\ Has(p, Todo(p), {}, {}) /\ Gets(p, Todo(p), {}, {h})
        /\ h \in Todo(p) /\ h \in iam /\ iam' = iam \ {h}
    BY <1>2, DeleteAtIamEffect
  <2>2. Active' = Active
    BY <1>0, <1>2, BecomeActive DEF DeleteAtIam, DeletesNext, Active
  <2>3. SameSets
    BY <1>2 DEF DeleteAtIam, SameSets, Recorded, Elements
  <2> HIDE DEF h
  <2> QED
    BY <1>0, <2>1, <2>2, <2>3 DEF DeletesKey
<1>3. ASSUME NEW p \in Util, DeleteRow(p) PROVE \E k \in Key : DeletesItsRow(p, k)
  <2> DEFINE h == Head(proc[p].todo)
  <2>1. /\ Has(p, Todo(p), {}, {h}) /\ Gets(p, Todo(p) \ {h}, {}, {})
        /\ h \in Todo(p) /\ Recorded' = Recorded \ {h}
    BY <1>3, DeleteRowEffect
  <2>2. Active' = Active
    BY <1>0, <1>3, BecomeActive DEF DeleteRow, Active
  <2>3. iam' = iam /\ issued' = issued /\ harmed' = harmed
    BY <1>3 DEF DeleteRow
  <2>4. h \in Key
    BY <1>0, <2>1 DEF ListsAreIssued
  <2> HIDE DEF h
  <2> QED
    BY <2>1, <2>2, <2>3, <2>4 DEF DeletesItsRow
<1>4. ASSUME NEW p \in Util, CreateAtIam(p) PROVE \E k \in Key : CreatesKey(p, k)
  <2>1. /\ Has(p, {}, {}, {}) /\ Gets(p, {}, {NewKey}, {})
        /\ NewKey \in Key /\ NewKey \notin issued
        /\ iam' = iam \cup {NewKey} /\ issued' = issued \cup {NewKey}
    BY <1>4, CreateAtIamEffect
  <2>2. Active' = Active
    BY <1>0, <1>4, BecomeActive DEF CreateAtIam, Creates, Active
  <2>3. harmed' = harmed /\ Recorded' = Recorded
    BY <1>4 DEF CreateAtIam, Recorded, Elements
  <2> QED
    BY <2>1, <2>2, <2>3 DEF CreatesKey
<1>5. ASSUME NEW p \in Util, InsertRow(p) PROVE \E k \in Key : InsertsItsRow(p, k)
  <2> DEFINE k == proc[p].key
  <2>1. Adds(p) \subseteq issued
    BY DEF ListsAreIssued
  <2>2. Has(p, {}, {k}, {}) /\ Gets(p, {}, {}, {}) /\ Recorded' = Recorded \cup {k}
    BY <1>5, <2>1, InsertRowEffect
  <2>3. k \in Key
    BY <1>0, <2>1, <2>2 DEF Has
  <2>4. p \in Active /\ Active' = Active \ {p}
    BY <1>0, <1>5, BecomeActive DEF InsertRow, Active, Idle
  <2>5. iam' = iam /\ issued' = issued /\ harmed' = harmed
    BY <1>5 DEF InsertRow
  <2> HIDE DEF k
  <2> QED
    BY <2>2, <2>3, <2>4, <2>5 DEF InsertsItsRow
<1>6. ASSUME NEW p \in Util, DeleteRefused(p) PROVE Disturbs(p)
  <2>1. proc[p].pc = "rotating" /\ Become(p, Idle)
    BY <1>6 DEF DeleteRefused, DeletesNext
  <2>2. Adds(p) \cup Drops(p) \subseteq harmed'
    BY <2>1, RotatingHas DEF Has
  <2>3. UNCHANGED <<iam, issued, rows, harmed>>
    BY <1>6 DEF DeleteRefused
  <2> QED
    BY <2>1, <2>2, <2>3, StayOrEnd DEF Disturbs, Recorded, Elements
<1>7. ASSUME NEW p \in Util, DeleteAnswerLost(p) PROVE Disturbs(p)
  <2>1. proc[p].pc = "rotating" /\ (Become(p, proc[p]) \/ Become(p, Idle))
    BY <1>7 DEF DeleteAnswerLost, DeletesNext
  <2>2. Adds(p) \cup Drops(p) \subseteq harmed'
    BY <2>1, RotatingHas DEF Has
  <2>3. /\ UNCHANGED <<issued, rows>>
        /\ iam' = iam \ {Head(proc[p].todo)}
        /\ harmed' = harmed \cup {Head(proc[p].todo)}
    BY <1>7 DEF DeleteAnswerLost, IamWithout, Fault
  <2> QED
    BY <2>1, <2>2, <2>3, StayOrEnd DEF Disturbs, Recorded, Elements
<1>8. ASSUME NEW p \in Util, CreateAnswerLost(p) PROVE Disturbs(p)
  <2>1. proc[p].pc = "rotating" /\ (Become(p, proc[p]) \/ Become(p, Idle))
    BY <1>8 DEF CreateAnswerLost, Creates
  <2>2. Adds(p) \cup Drops(p) \subseteq harmed'
    BY <2>1, RotatingHas DEF Has
  <2>3. /\ UNCHANGED rows
        /\ iam' = iam \cup {NewKey} /\ issued' = issued \cup {NewKey}
        /\ harmed' = harmed \cup {NewKey}
        /\ NewKey \notin issued
    BY <1>0, <1>8, NewKeyIsNew DEF CreateAnswerLost, Creates, Fault
  <2> QED
    BY <2>1, <2>2, <2>3, StayOrEnd DEF Disturbs, Recorded, Elements
<1>9. ASSUME NEW p \in Util, Abort(p) PROVE Disturbs(p)
  <2>1. proc[p].pc # "idle" /\ Become(p, Idle)
    BY <1>9 DEF Abort
  <2>2. UNCHANGED <<iam, issued, rows>> /\ harmed' = harmed \cup InHand(p)
    BY <1>9 DEF Abort, Fault
  <2>3. Adds(p) \cup Drops(p) \subseteq harmed'
    BY <2>2, InHandIs
  <2> QED
    BY <2>1, <2>2, <2>3, StayOrEnd DEF Disturbs, Recorded, Elements
<1>10. ASSUME NEW k \in Key, StudentDeletes(k) PROVE \A p \in Util : Disturbs(p)
  <2>1. /\ UNCHANGED <<proc, issued, rows>>
        /\ iam' = iam \ {k} /\ harmed' = harmed \cup {k}
    BY <1>10 DEF StudentDeletes, Fault
  <2> QED
    BY <2>1, StayGets DEF Disturbs, Recorded, Elements
<1>11. CASE UNCHANGED vars
  <2>1. \A p \in Util : Disturbs(p)
    BY <1>11, StayGets DEF vars, Disturbs, Recorded, Elements
  <2> QED
    BY <2>1, CredentialsAssumption DEF Effect
<1>12. CASE \E k \in Key : StudentDeletes(k)
  BY <1>10, <1>12, CredentialsAssumption DEF Effect
<1>13. ASSUME NEW p \in Util,
              \/ Start(p) \/ Proceed(p) \/ Abort(p)
              \/ DeleteAnswerLost(p) \/ CreateAnswerLost(p)
       PROVE  Effect(p)
  BY <1>1, <1>2, <1>3, <1>4, <1>5, <1>6, <1>7, <1>8, <1>9, <1>13 DEF Proceed, Effect
<1> QED
  BY <1>11, <1>12, <1>13 DEF Next

(* Each part of the invariant, over the effects of a step *)

\* The invariant, taken apart.
LEMMA Parts ==
  ASSUME Inv
  PROVE  /\ ListsAreIssued /\ NewKeysAreNew /\ DroppedAreGone
         /\ Recorded \subseteq issued /\ iam \subseteq issued /\ harmed \subseteq issued
BY RowsType DEF Inv, TypeOK

\* Every step keeps the processes to keys that IAM has issued.
LEMMA ListsStep ==
  ASSUME Inv, NEW p \in Util, Effect(p)
  PROVE  ListsAreIssued'
<1>0. ListsAreIssued /\ Recorded \subseteq issued /\ iam \subseteq issued
  BY Parts
<1>1. ASSUME ReadsList(p) PROVE ListsAreIssued'
  BY <1>0, <1>1 DEF ReadsList, SameSets, Gets, Has, ListsAreIssued
<1>2. ASSUME NEW k \in Key, DeletesKey(p, k) PROVE ListsAreIssued'
  BY <1>0, <1>2 DEF DeletesKey, SameSets, Gets, Has, ListsAreIssued
<1>3. ASSUME NEW k \in Key, DeletesItsRow(p, k) PROVE ListsAreIssued'
  BY <1>0, <1>3 DEF DeletesItsRow, Gets, Has, ListsAreIssued
<1>4. ASSUME NEW k \in Key, CreatesKey(p, k) PROVE ListsAreIssued'
  BY <1>0, <1>4 DEF CreatesKey, Gets, Has, ListsAreIssued
<1>5. ASSUME NEW k \in Key, InsertsItsRow(p, k) PROVE ListsAreIssued'
  BY <1>0, <1>5 DEF InsertsItsRow, Gets, Has, ListsAreIssued
<1>6. ASSUME Disturbs(p) PROVE ListsAreIssued'
  BY <1>0, <1>6 DEF Disturbs, Gets, Has, ListsAreIssued
<1> QED
  BY <1>1, <1>2, <1>3, <1>4, <1>5, <1>6 DEF Effect

\* Every step keeps a key that awaits its row off all lists.
LEMMA NewKeysStep ==
  ASSUME Inv, NEW p \in Util, Effect(p)
  PROVE  NewKeysAreNew'
<1>0. /\ ListsAreIssued /\ NewKeysAreNew
      /\ Recorded \subseteq issued /\ iam \subseteq issued
  BY Parts
<1>1. ASSUME ReadsList(p) PROVE NewKeysAreNew'
  BY <1>0, <1>1 DEF ReadsList, SameSets, Gets, Has, NewKeysAreNew, ListsAreIssued
<1>2. ASSUME NEW k \in Key, DeletesKey(p, k) PROVE NewKeysAreNew'
  BY <1>0, <1>2 DEF DeletesKey, SameSets, Gets, Has, NewKeysAreNew, ListsAreIssued
<1>3. ASSUME NEW k \in Key, DeletesItsRow(p, k) PROVE NewKeysAreNew'
  BY <1>0, <1>3 DEF DeletesItsRow, Gets, Has, NewKeysAreNew, ListsAreIssued
<1>4. ASSUME NEW k \in Key, CreatesKey(p, k) PROVE NewKeysAreNew'
  BY <1>0, <1>4 DEF CreatesKey, Gets, Has, NewKeysAreNew, ListsAreIssued
<1>5. ASSUME NEW k \in Key, InsertsItsRow(p, k) PROVE NewKeysAreNew'
  BY <1>0, <1>5 DEF InsertsItsRow, Gets, Has, NewKeysAreNew, ListsAreIssued
<1>6. ASSUME Disturbs(p) PROVE NewKeysAreNew'
  BY <1>0, <1>6 DEF Disturbs, Gets, Has, NewKeysAreNew, ListsAreIssued
<1> QED
  BY <1>1, <1>2, <1>3, <1>4, <1>5, <1>6 DEF Effect

\* Every step keeps a key whose row is about to go dead at IAM.
LEMMA DroppedStep ==
  ASSUME Inv, NEW p \in Util, Effect(p)
  PROVE  DroppedAreGone'
<1>0. /\ ListsAreIssued /\ DroppedAreGone
      /\ Recorded \subseteq issued /\ iam \subseteq issued
  BY Parts
<1>1. ASSUME ReadsList(p) PROVE DroppedAreGone'
  BY <1>0, <1>1 DEF ReadsList, SameSets, Gets, Has, DroppedAreGone, ListsAreIssued
<1>2. ASSUME NEW k \in Key, DeletesKey(p, k) PROVE DroppedAreGone'
  BY <1>0, <1>2 DEF DeletesKey, SameSets, Gets, Has, DroppedAreGone, ListsAreIssued
<1>3. ASSUME NEW k \in Key, DeletesItsRow(p, k) PROVE DroppedAreGone'
  BY <1>0, <1>3 DEF DeletesItsRow, Gets, Has, DroppedAreGone, ListsAreIssued
<1>4. ASSUME NEW k \in Key, CreatesKey(p, k) PROVE DroppedAreGone'
  BY <1>0, <1>4 DEF CreatesKey, Gets, Has, DroppedAreGone, ListsAreIssued
<1>5. ASSUME NEW k \in Key, InsertsItsRow(p, k) PROVE DroppedAreGone'
  BY <1>0, <1>5 DEF InsertsItsRow, Gets, Has, DroppedAreGone, ListsAreIssued
<1>6. ASSUME Disturbs(p) PROVE DroppedAreGone'
  BY <1>0, <1>6 DEF Disturbs, Gets, Has, DroppedAreGone, ListsAreIssued
<1> QED
  BY <1>1, <1>2, <1>3, <1>4, <1>5, <1>6 DEF Effect

\* Every step preserves the invariant.
LEMMA InvStep == Inv /\ [Next]_vars => Inv'
<1> SUFFICES ASSUME Inv, [Next]_vars PROVE Inv'
  OBVIOUS
<1>1. TypeOK'
  <2>1. ProcOK' /\ DataOK'
    BY ProcStep, DataStep DEF Inv
  <2>2. TypeOK <=> ProcOK /\ DataOK
    BY TypeParts
  <2>3. (TypeOK <=> ProcOK /\ DataOK)'
    BY TypeParts, PTL
  <2> QED
    BY <2>1, <2>3
<1>2. ListsAreIssued' /\ NewKeysAreNew' /\ DroppedAreGone'
  BY StepEffect, ListsStep, NewKeysStep, DroppedStep
<1> QED
  BY <1>1, <1>2 DEF Inv

\* The keys a rotation works on are what delete_access_key and
\* create_access_key take them for, however many rotations overlap.
THEOREM Invariance == Spec => []Inv
BY InitInv, InvStep, PTL DEF Spec

\* The table access_keys and the lists read from it never name a key twice,
\* and IAM accepts no key it has not issued: for any processes, keys and faults.
THEOREM TypeCorrect == Spec => []TypeOK
<1>1. Inv => TypeOK
  BY DEF Inv
<1> QED
  BY <1>1, Invariance, PTL

(* What is in the database and what works *)

Works(k) == \/ k \in iam \/ k \in harmed
            \/ \E p \in Util : k \in Adds(p) \/ k \in Drops(p)

Found(k) == \/ k \in Recorded \/ k \in harmed
            \/ \E p \in Util : k \in Adds(p) \/ k \in Drops(p)

RecordedWork == \A k \in Recorded : Works(k)
WorkingFound == \A k \in iam : Found(k)

\* The two properties, in terms of the sets.
LEMMA InHandSets ==
  /\ RecordedWork <=> RecordedKeysWork
  /\ WorkingFound <=> WorkingKeysAreRecorded
<1>1. \A p \in Util : \A k : k \in InHand(p) <=> k \in Adds(p) \/ k \in Drops(p)
  BY InHandIs
<1> QED
  BY <1>1 DEF RecordedWork, WorkingFound, Works, Found, RecordedKeysWork, WorkingKeysAreRecorded

\* No step leaves a dead key in the table without an owner or a fault.
LEMMA RecordedStep ==
  ASSUME Inv, RecordedWork, NEW p \in Util, Effect(p)
  PROVE  RecordedWork'
<1>0. /\ ListsAreIssued /\ NewKeysAreNew /\ RecordedWork
      /\ Recorded \subseteq issued /\ iam \subseteq issued
  BY Parts
<1>1. ASSUME ReadsList(p) PROVE RecordedWork'
  BY <1>0, <1>1 DEF ReadsList, SameSets, Gets, Has, RecordedWork, Works, NewKeysAreNew
<1>2. ASSUME NEW k \in Key, DeletesKey(p, k) PROVE RecordedWork'
  BY <1>0, <1>2 DEF DeletesKey, SameSets, Gets, Has, RecordedWork, Works, NewKeysAreNew
<1>3. ASSUME NEW k \in Key, DeletesItsRow(p, k) PROVE RecordedWork'
  BY <1>0, <1>3 DEF DeletesItsRow, Gets, Has, RecordedWork, Works, NewKeysAreNew
<1>4. ASSUME NEW k \in Key, CreatesKey(p, k) PROVE RecordedWork'
  BY <1>0, <1>4 DEF CreatesKey, Gets, Has, RecordedWork, Works, NewKeysAreNew
<1>5. ASSUME NEW k \in Key, InsertsItsRow(p, k) PROVE RecordedWork'
  BY <1>0, <1>5 DEF InsertsItsRow, Gets, Has, RecordedWork, Works, NewKeysAreNew
<1>6. ASSUME Disturbs(p) PROVE RecordedWork'
  BY <1>0, <1>6 DEF Disturbs, Gets, Has, RecordedWork, Works, NewKeysAreNew
<1> QED
  BY <1>1, <1>2, <1>3, <1>4, <1>5, <1>6 DEF Effect

\* No step leaves a key that works out of the table without either.
LEMMA WorkingStep ==
  ASSUME Inv, WorkingFound, NEW p \in Util, Effect(p)
  PROVE  WorkingFound'
<1>0. /\ ListsAreIssued /\ DroppedAreGone /\ WorkingFound
      /\ Recorded \subseteq issued /\ iam \subseteq issued
  BY Parts
<1>1. ASSUME ReadsList(p) PROVE WorkingFound'
  BY <1>0, <1>1 DEF ReadsList, SameSets, Gets, Has, WorkingFound, Found, DroppedAreGone
<1>2. ASSUME NEW k \in Key, DeletesKey(p, k) PROVE WorkingFound'
  BY <1>0, <1>2 DEF DeletesKey, SameSets, Gets, Has, WorkingFound, Found, DroppedAreGone
<1>3. ASSUME NEW k \in Key, DeletesItsRow(p, k) PROVE WorkingFound'
  BY <1>0, <1>3 DEF DeletesItsRow, Gets, Has, WorkingFound, Found, DroppedAreGone
<1>4. ASSUME NEW k \in Key, CreatesKey(p, k) PROVE WorkingFound'
  BY <1>0, <1>4 DEF CreatesKey, Gets, Has, WorkingFound, Found, DroppedAreGone
<1>5. ASSUME NEW k \in Key, InsertsItsRow(p, k) PROVE WorkingFound'
  BY <1>0, <1>5 DEF InsertsItsRow, Gets, Has, WorkingFound, Found, DroppedAreGone
<1>6. ASSUME Disturbs(p) PROVE WorkingFound'
  BY <1>0, <1>6 DEF Disturbs, Gets, Has, WorkingFound, Found, DroppedAreGone
<1> QED
  BY <1>1, <1>2, <1>3, <1>4, <1>5, <1>6 DEF Effect

\* Rotations that overlap leave no dead key in access_keys: a key recorded there
\* works, is in the hands of a process that is about to delete its row, or was
\* hit by a fault; for any processes, keys and faults.
THEOREM RecordedKeysWorkHolds == Spec => []RecordedKeysWork
<1>1. Init => RecordedWork
  BY DEF Init, RecordedWork, Works, Recorded, Elements
<1>2. Inv /\ RecordedWork /\ [Next]_vars => RecordedWork'
  BY StepEffect, RecordedStep
<1>3. RecordedWork => RecordedKeysWork
  BY InHandSets
<1> QED
  BY <1>1, <1>2, <1>3, Invariance, PTL DEF Spec

\* No key that create_access_key obtains is lost to the database, but by a
\* fault; for any processes, keys and faults.
THEOREM WorkingKeysAreRecordedHolds == Spec => []WorkingKeysAreRecorded
<1>1. Init => WorkingFound
  BY DEF Init, WorkingFound, Found, Recorded, Elements
<1>2. Inv /\ WorkingFound /\ [Next]_vars => WorkingFound'
  BY StepEffect, WorkingStep
<1>3. WorkingFound => WorkingKeysAreRecorded
  BY InHandSets
<1> QED
  BY <1>1, <1>2, <1>3, Invariance, PTL DEF Spec

-----------------------------------------------------------------------------
(* How many keys there can be *)

\* The keys in the database that a process will not delete.
Unlisted(p) == Recorded \ Todo(p)

\* IAM will refuse a key that is left on the list.
Doomed(p) == \E k \in Todo(p) \ Drops(p) : k \notin iam

\* The other processes that can still add a key while p's unlisted keys stay.
MayAdd(p) == {q \in Active \ {p} : ~Doomed(q) /\ Todo(q) \cap Unlisted(p) = {}}

\* To add a key a process has to delete every key it knows first; so the keys
\* unknown to p, and the processes that can add one, leave room for p's own.
RoomFor(p) == Cardinality(Unlisted(p)) + Cardinality(MayAdd(p)) < Cardinality(Util)

RoomForAll == \A p \in Active : RoomFor(p)

RecordedFit == Cardinality(Recorded) <= Cardinality(Util)

\* The table has no more rows than keys.
LEMMA RowsAreRecorded ==
  ASSUME TypeOK
  PROVE  IsFiniteSet(Recorded) /\ Len(rows) <= Cardinality(Recorded)
<1>1. /\ Len(rows) \in Nat
      /\ DOMAIN rows = 1 .. Len(rows)
      /\ rows \in [1 .. Len(rows) -> issued]
      /\ Distinct(rows)
  BY LenProperties DEF TypeOK
<1>2. rows \in [1 .. Len(rows) -> Recorded]
  BY <1>1 DEF Recorded, Elements
<1>3. rows \in Injection(1 .. Len(rows), Recorded)
  <2>1. \A m, n \in 1 .. Len(rows) : rows[m] = rows[n] => m = n
    BY <1>1 DEF Distinct
  <2> QED
    BY <1>2, <2>1, Fun_IsInj
<1>4. IsFiniteSet(Recorded)
  BY RowsType, CredentialsAssumption, FS_Subset DEF TypeOK
<1>5. Cardinality(1 .. Len(rows)) <= Cardinality(Recorded)
  BY <1>3, <1>4, FS_Injection
<1>6. Cardinality(1 .. Len(rows)) = Len(rows)
  BY <1>1, FS_Interval
<1> QED
  BY <1>4, <1>5, <1>6

\* Fewer processes are not p than there are.
LEMMA Others ==
  ASSUME NEW p \in Util, NEW S \in SUBSET (Util \ {p})
  PROVE  /\ IsFiniteSet(S) /\ Cardinality(S) \in Nat
         /\ Cardinality(S) < Cardinality(Util)
         /\ Cardinality(Util) \in Nat
<1>1. /\ IsFiniteSet(Util \ {p}) /\ Cardinality(Util \ {p}) = Cardinality(Util) - 1
      /\ Cardinality(Util) \in Nat
  BY CredentialsAssumption, FS_RemoveElement, FS_CardinalityType
<1>2. IsFiniteSet(S) /\ Cardinality(S) <= Cardinality(Util \ {p})
  BY <1>1, FS_Subset
<1> QED
  BY <1>1, <1>2, FS_CardinalityType

\* The sets that are counted are finite.
LEMMA SetsAreFinite ==
  ASSUME TypeOK, NEW p \in Util
  PROVE  /\ IsFiniteSet(Unlisted(p)) /\ IsFiniteSet(MayAdd(p))
         /\ Cardinality(Util) \in Nat
<1>1. IsFiniteSet(Unlisted(p))
  BY RowsAreRecorded, FS_Subset DEF Unlisted
<1>2. MayAdd(p) \in SUBSET (Util \ {p})
  BY DEF MayAdd, Active
<1> QED
  BY <1>1, <1>2, Others

\* A sum of two sizes stays below n when no set grows.
LEMMA BothShrink ==
  ASSUME NEW n \in Nat, NEW U, NEW V, IsFiniteSet(U), IsFiniteSet(V),
         Cardinality(U) + Cardinality(V) < n,
         NEW U1 \in SUBSET U, NEW V1 \in SUBSET V
  PROVE  Cardinality(U1) + Cardinality(V1) < n
<1>1. /\ Cardinality(U1) <= Cardinality(U) /\ IsFiniteSet(U1)
      /\ Cardinality(V1) <= Cardinality(V) /\ IsFiniteSet(V1)
  BY FS_Subset
<1>2. /\ Cardinality(U) \in Nat /\ Cardinality(U1) \in Nat
      /\ Cardinality(V) \in Nat /\ Cardinality(V1) \in Nat
  BY <1>1, FS_CardinalityType
<1> QED
  BY <1>1, <1>2

\* It does so when one set loses an element and the other gains one.
LEMMA OneForOne ==
  ASSUME NEW n \in Nat, NEW U, NEW V, IsFiniteSet(U), IsFiniteSet(V),
         Cardinality(U) + Cardinality(V) < n,
         NEW u \in U, NEW v,
         NEW U1 \in SUBSET (U \ {u}), NEW V1 \in SUBSET (V \cup {v})
  PROVE  Cardinality(U1) + Cardinality(V1) < n
<1>1. /\ IsFiniteSet(U \ {u}) /\ Cardinality(U \ {u}) = Cardinality(U) - 1
      /\ IsFiniteSet(V \cup {v}) /\ Cardinality(V \cup {v}) <= Cardinality(V) + 1
  <2>1. IsFiniteSet(U \ {u}) /\ Cardinality(U \ {u}) = Cardinality(U) - 1
    BY FS_RemoveElement
  <2>2. /\ IsFiniteSet(V \cup {v})
        /\ Cardinality(V \cup {v}) = IF v \in V THEN Cardinality(V) ELSE Cardinality(V) + 1
    BY FS_AddElement
  <2>3. Cardinality(V) \in Nat
    BY FS_CardinalityType
  <2> QED
    BY <2>1, <2>2, <2>3
<1>2. Cardinality(U) \in Nat /\ Cardinality(V) \in Nat /\ Cardinality(V \cup {v}) \in Nat
  BY <1>1, FS_CardinalityType
<1>3. Cardinality(U \ {u}) + Cardinality(V \cup {v}) < n
  BY <1>1, <1>2
<1> QED
  BY <1>1, <1>3, BothShrink

\* Nothing is added that p does not know of.
LEMMA RoomShrinks ==
  ASSUME TypeOK, NEW q \in Util, RoomFor(q),
         Unlisted(q)' \subseteq Unlisted(q), MayAdd(q)' \subseteq MayAdd(q)
  PROVE  RoomFor(q)'
<1> DEFINE U == Unlisted(q)
           V == MayAdd(q)
           U1 == Unlisted(q)'
           V1 == MayAdd(q)'
           n == Cardinality(Util)
<1>1. /\ IsFiniteSet(U) /\ IsFiniteSet(V) /\ n \in Nat
      /\ Cardinality(U) + Cardinality(V) < n
      /\ U1 \in SUBSET U /\ V1 \in SUBSET V
  BY SetsAreFinite DEF RoomFor
<1> SUFFICES Cardinality(U1) + Cardinality(V1) < n
  BY DEF RoomFor
<1> HIDE DEF U, V, U1, V1, n
<1> QED
  BY <1>1, BothShrink

\* The row of a key of U goes, and another process may add one in its place.
LEMMA RoomGained ==
  ASSUME TypeOK, NEW q \in Util, RoomFor(q), NEW k \in Unlisted(q), NEW p,
         Unlisted(q)' \subseteq Unlisted(q) \ {k}, MayAdd(q)' \subseteq MayAdd(q) \cup {p}
  PROVE  RoomFor(q)'
<1> DEFINE U == Unlisted(q)
           V == MayAdd(q)
           U1 == Unlisted(q)'
           V1 == MayAdd(q)'
           n == Cardinality(Util)
<1>1. /\ IsFiniteSet(U) /\ IsFiniteSet(V) /\ n \in Nat
      /\ Cardinality(U) + Cardinality(V) < n
      /\ k \in U
      /\ U1 \in SUBSET (U \ {k}) /\ V1 \in SUBSET (V \cup {p})
  BY SetsAreFinite DEF RoomFor
<1> SUFFICES Cardinality(U1) + Cardinality(V1) < n
  BY DEF RoomFor
<1> HIDE DEF U, V, U1, V1, n
<1> QED
  BY <1>1, OneForOne

\* A process that could add a key has added it.
LEMMA RoomUsed ==
  ASSUME TypeOK, NEW q \in Util, RoomFor(q), NEW p \in MayAdd(q), NEW k,
         Unlisted(q)' \subseteq Unlisted(q) \cup {k}, MayAdd(q)' \subseteq MayAdd(q) \ {p}
  PROVE  RoomFor(q)'
<1> DEFINE U == Unlisted(q)
           V == MayAdd(q)
           U1 == Unlisted(q)'
           V1 == MayAdd(q)'
           n == Cardinality(Util)
<1>1. /\ IsFiniteSet(U) /\ IsFiniteSet(V) /\ n \in Nat
      /\ Cardinality(V) + Cardinality(U) < n
      /\ p \in V
      /\ U1 \in SUBSET (U \cup {k}) /\ V1 \in SUBSET (V \ {p})
  <2>1. Cardinality(U) \in Nat /\ Cardinality(V) \in Nat
    BY SetsAreFinite, FS_CardinalityType
  <2> QED
    BY <2>1, SetsAreFinite DEF RoomFor
<1>2. Cardinality(V1) + Cardinality(U1) < n
  <2> HIDE DEF U, V, U1, V1, n
  <2> QED
    BY <1>1, OneForOne
<1>3. IsFiniteSet(U1) /\ IsFiniteSet(V1)
  BY <1>1, FS_Subset, FS_AddElement, FS_RemoveElement
<1>4. Cardinality(U1) \in Nat /\ Cardinality(V1) \in Nat
  <2> HIDE DEF U1, V1
  <2> QED
    BY <1>3, FS_CardinalityType
<1>5. Cardinality(U1) + Cardinality(V1) < n
  <2> HIDE DEF U1, V1
  <2> QED
    BY <1>1, <1>2, <1>4
<1> QED
  BY <1>5 DEF RoomFor

\* Every step leaves room for every process that runs.
LEMMA RoomStep ==
  ASSUME Inv, RoomForAll, NEW p \in Util, Effect(p), NEW q \in Util, q \in Active'
  PROVE  RoomFor(q)'
<1>0. /\ TypeOK /\ ListsAreIssued /\ DroppedAreGone
      /\ Recorded \subseteq issued /\ iam \subseteq issued
  BY Parts DEF Inv
<1>1. ASSUME ReadsList(p) PROVE RoomFor(q)'
  <2>1. CASE q = p \/ Unlisted(q) = {}
    <3>1. Unlisted(q)' = {}
      BY <1>1, <2>1 DEF ReadsList, SameSets, Gets, Unlisted
    <3>2. MayAdd(q)' \in SUBSET (Util \ {q})
      BY DEF MayAdd, Active
    <3>3. Cardinality(MayAdd(q)') < Cardinality(Util) /\ Cardinality(MayAdd(q)') \in Nat
      BY <3>2, Others
    <3> QED
      BY <3>1, <3>3, FS_EmptySet DEF RoomFor
  <2>2. CASE q # p /\ Unlisted(q) # {}
    <3>1. q \in Active /\ RoomFor(q)
      BY <1>1, <2>2 DEF ReadsList, RoomForAll
    <3>2. Unlisted(q)' = Unlisted(q)
      BY <1>1, <2>2 DEF ReadsList, SameSets, Gets, Unlisted
    <3>3. p \notin MayAdd(q)'
      BY <1>1, <2>2, <3>2 DEF ReadsList, Gets, MayAdd, Unlisted
    <3>4. \A r \in Util \ {p} : Doomed(r)' <=> Doomed(r)
      BY <1>1 DEF ReadsList, Gets, Doomed
    <3>5. MayAdd(q)' \subseteq MayAdd(q)
      BY <1>1, <3>2, <3>3, <3>4 DEF ReadsList, Gets, MayAdd, Active
    <3> QED
      BY <1>0, <3>1, <3>2, <3>5, RoomShrinks
  <2> QED
    BY <2>1, <2>2
<1>2. ASSUME NEW k \in Key, DeletesKey(p, k) PROVE RoomFor(q)'
  <2>1. q \in Active /\ RoomFor(q)
    BY <1>2 DEF DeletesKey, RoomForAll
  <2>2. Unlisted(q)' = Unlisted(q)
    BY <1>2 DEF DeletesKey, SameSets, Gets, Unlisted
  <2>3. \A r \in Util : Doomed(r) => Doomed(r)'
    BY <1>2 DEF DeletesKey, Gets, Has, Doomed
  <2>4. MayAdd(q)' \subseteq MayAdd(q)
    BY <1>2, <2>2, <2>3 DEF DeletesKey, Gets, MayAdd, Active
  <2> QED
    BY <1>0, <2>1, <2>2, <2>4, RoomShrinks
<1>3. ASSUME NEW k \in Key, DeletesItsRow(p, k) PROVE RoomFor(q)'
  <2>1. q \in Active /\ RoomFor(q)
    BY <1>3 DEF DeletesItsRow, RoomForAll
  <2>2. k \in Todo(p) /\ k \notin iam /\ \A r \in Util \ {p} : k \notin Drops(r)
    BY <1>0, <1>3 DEF DeletesItsRow, Has, DroppedAreGone
  <2>3. \A r \in Util : Doomed(r) <=> Doomed(r)'
    BY <1>3, <2>2 DEF DeletesItsRow, Gets, Has, Doomed
  <2>4. \A r \in Util \ {p} : k \in Todo(r) => Doomed(r)
    BY <2>2 DEF Doomed
  <2>5. CASE k \notin Unlisted(q)
    <3>1. Unlisted(q)' = Unlisted(q)
      BY <1>3, <2>2, <2>5 DEF DeletesItsRow, Gets, Unlisted
    <3>2. MayAdd(q)' \subseteq MayAdd(q)
      BY <1>3, <2>3, <2>5, <3>1 DEF DeletesItsRow, Gets, MayAdd, Active
    <3> QED
      BY <1>0, <2>1, <3>1, <3>2, RoomShrinks
  <2>6. CASE k \in Unlisted(q)
    <3>1. q # p
      BY <2>2, <2>6 DEF Unlisted
    <3>2. Unlisted(q)' = Unlisted(q) \ {k}
      BY <1>3, <3>1 DEF DeletesItsRow, Gets, Unlisted
    <3>3. MayAdd(q)' \subseteq MayAdd(q) \cup {p}
      BY <1>3, <2>3, <2>4, <3>2 DEF DeletesItsRow, Gets, MayAdd, Active
    <3> QED
      BY <1>0, <2>1, <2>6, <3>2, <3>3, RoomGained
  <2> QED
    BY <2>5, <2>6
<1>4. ASSUME NEW k \in Key, CreatesKey(p, k) PROVE RoomFor(q)'
  <2>1. q \in Active /\ RoomFor(q)
    BY <1>4 DEF CreatesKey, RoomForAll
  <2>2. Unlisted(q)' = Unlisted(q)
    BY <1>4 DEF CreatesKey, Gets, Has, Unlisted
  <2>3. \A r \in Util : Doomed(r) => Doomed(r)'
    BY <1>0, <1>4 DEF CreatesKey, Gets, Has, Doomed, ListsAreIssued
  <2>4. MayAdd(q)' \subseteq MayAdd(q)
    BY <1>4, <2>2, <2>3 DEF CreatesKey, Gets, Has, MayAdd, Active
  <2> QED
    BY <1>0, <2>1, <2>2, <2>4, RoomShrinks
<1>5. ASSUME NEW k \in Key, InsertsItsRow(p, k) PROVE RoomFor(q)'
  <2>1. q # p /\ q \in Active /\ RoomFor(q)
    BY <1>5 DEF InsertsItsRow, RoomForAll
  <2>2. p \in MayAdd(q)
    BY <1>5, <2>1 DEF InsertsItsRow, Has, MayAdd, Doomed
  <2>3. Unlisted(q)' \subseteq Unlisted(q) \cup {k} /\ Unlisted(q) \subseteq Unlisted(q)'
    BY <1>5, <2>1 DEF InsertsItsRow, Gets, Unlisted
  <2>4. \A r \in Util \ {p} : Doomed(r) => Doomed(r)'
    BY <1>5 DEF InsertsItsRow, Gets, Doomed
  <2>5. MayAdd(q)' \subseteq MayAdd(q) \ {p}
    BY <1>5, <2>3, <2>4 DEF InsertsItsRow, Gets, MayAdd, Active
  <2> QED
    BY <1>0, <2>1, <2>2, <2>3, <2>5, RoomUsed
<1>6. ASSUME Disturbs(p) PROVE RoomFor(q)'
  <2>1. q \in Active /\ RoomFor(q)
    BY <1>6 DEF Disturbs, RoomForAll
  <2>2. \A r \in Util : r \in Active' => Todo(r)' = Todo(r) /\ Drops(r)' = Drops(r)
    BY <1>6 DEF Disturbs, Gets
  <2>3. Unlisted(q)' = Unlisted(q)
    BY <1>6, <2>2 DEF Disturbs, Unlisted
  <2>4. \A r \in Util : r \in Active' /\ Doomed(r) => Doomed(r)'
    BY <1>0, <1>6, <2>2 DEF Disturbs, Doomed, ListsAreIssued
  <2>5. Active' \subseteq Active /\ Active \subseteq Util
    BY <1>6 DEF Disturbs, Active
  <2>6. MayAdd(q)' \subseteq MayAdd(q)
    BY <2>2, <2>3, <2>4, <2>5 DEF MayAdd
  <2> QED
    BY <1>0, <2>1, <2>3, <2>6, RoomShrinks
<1> QED
  BY <1>1, <1>2, <1>3, <1>4, <1>5, <1>6 DEF Effect

\* Only a row that is inserted makes the table longer.
LEMMA FitStep ==
  ASSUME Inv, RoomForAll, RecordedFit, NEW p \in Util, Effect(p)
  PROVE  RecordedFit'
<1>0. /\ IsFiniteSet(Recorded) /\ Cardinality(Recorded) \in Nat
      /\ Cardinality(Util) \in Nat
  BY RowsAreRecorded, FS_CardinalityType, CredentialsAssumption DEF Inv
<1>1. CASE Recorded' \subseteq Recorded
  <2>1. Cardinality(Recorded') <= Cardinality(Recorded) /\ IsFiniteSet(Recorded')
    BY <1>0, <1>1, FS_Subset
  <2>2. Cardinality(Recorded') \in Nat
    BY <2>1, FS_CardinalityType
  <2> QED
    BY <1>0, <2>1, <2>2 DEF RecordedFit
<1>2. ASSUME NEW k \in Key, InsertsItsRow(p, k) PROVE RecordedFit'
  <2>1. RoomFor(p) /\ Unlisted(p) = Recorded /\ Recorded' = Recorded \cup {k}
    BY <1>2 DEF InsertsItsRow, RoomForAll, Has, Unlisted
  <2>2. Cardinality(MayAdd(p)) \in Nat
    BY SetsAreFinite, FS_CardinalityType DEF Inv
  <2>3. Cardinality(Recorded) < Cardinality(Util)
    BY <1>0, <2>1, <2>2 DEF RoomFor
  <2>4. /\ Cardinality(Recorded \cup {k}) =
              IF k \in Recorded THEN Cardinality(Recorded) ELSE Cardinality(Recorded) + 1
    BY <1>0, FS_AddElement
  <2> QED
    BY <1>0, <2>1, <2>3, <2>4 DEF RecordedFit
<1>3. \/ Recorded' \subseteq Recorded
      \/ \E k \in Key : InsertsItsRow(p, k)
  BY DEF Effect, ReadsList, DeletesKey, DeletesItsRow, CreatesKey, Disturbs, SameSets
<1> QED
  BY <1>1, <1>2, <1>3

\* "--rotate-secret" never piles keys up: access_keys has at most one row for
\* each process that can run at once, for any processes, keys and faults.
THEOREM OneKeyPerProcessHolds == Spec => []OneKeyPerProcess
<1>1. Init => RoomForAll /\ RecordedFit
  <2> SUFFICES ASSUME Init PROVE RoomForAll /\ RecordedFit
    OBVIOUS
  <2>1. Active = {} /\ Recorded = {FirstKey}
    BY DEF Init, Active, Idle, Recorded, Elements
  <2>2. Cardinality({FirstKey}) = 1
    BY FS_Singleton
  <2>3. Cardinality(Util) \in Nat /\ Cardinality(Util) # 0
    BY CredentialsAssumption, FS_EmptySet, FS_CardinalityType
  <2> QED
    BY <2>1, <2>2, <2>3 DEF RoomForAll, RecordedFit
<1>2. Inv /\ RoomForAll /\ RecordedFit /\ [Next]_vars => (RoomForAll /\ RecordedFit)'
  <2> SUFFICES ASSUME Inv, RoomForAll, RecordedFit, [Next]_vars
               PROVE  RoomForAll' /\ RecordedFit'
    OBVIOUS
  <2>1. PICK p \in Util : Effect(p)
    BY StepEffect
  <2>2. RecordedFit'
    BY <2>1, FitStep
  <2>3. \A q \in Util : q \in Active' => RoomFor(q)'
    BY <2>1, RoomStep
  <2>4. Active' \subseteq Util
    BY DEF Active
  <2> QED
    BY <2>2, <2>3, <2>4 DEF RoomForAll
<1>3. Inv /\ RecordedFit => OneKeyPerProcess
  <2> SUFFICES ASSUME Inv, RecordedFit PROVE OneKeyPerProcess
    OBVIOUS
  <2>1. /\ Len(rows) <= Cardinality(Recorded)
        /\ Cardinality(Recorded) \in Nat /\ Cardinality(Util) \in Nat
    BY RowsAreRecorded, FS_CardinalityType, CredentialsAssumption DEF Inv
  <2>2. Len(rows) \in Nat
    BY LenProperties DEF Inv, TypeOK
  <2> QED
    BY <2>1, <2>2 DEF OneKeyPerProcess, RecordedFit
<1> QED
  BY <1>1, <1>2, <1>3, Invariance, PTL DEF Spec

-----------------------------------------------------------------------------
(* An account is not locked out.  Rotations delete keys in the order of the  *)
(* table, so that whichever deletes the first key of its list is refused     *)
(* none of the others.                                                       *)

ListOf(s) == IF s.pc \in {"rotating", "deleted"} THEN s.todo ELSE <<>>
List(p) == ListOf(proc[p])

\* x comes before y in the sequence s.
Precedes(s, x, y) == \E m, n \in DOMAIN s : m < n /\ s[m] = x /\ s[n] = y

\* The order of a list is that of the table.
InOrder ==
    \A p \in Util : \A x, y \in Key : Precedes(List(p), x, y) => ~ Precedes(rows, y, x)

\* A list has with a key all those before it in the table.
Closed ==
    \A p \in Util : \A x, y \in Key : y \in Todo(p) /\ Precedes(rows, x, y) => x \in Todo(p)

Ordered == InOrder /\ Closed

\* A fault is counted before it hits a key.
HarmIsCounted == faults = 0 => harmed = {}

\* The keys of a list that IAM no longer accepts are the first ones.
DeadFirst ==
    faults = 0 => \A p \in Util : \A x, y \in Key :
                     Precedes(List(p), x, y) /\ x \in iam => y \in iam

\* There is a recorded key that works, or a rotation that nobody will refuse.
SomeoneSucceeds ==
    faults = 0 => \/ Recorded \cap iam # {}
                  \/ \E p \in Active : ~ Doomed(p)

(* The order of a sequence *)

\* Of two elements one comes before the other, and only one.
LEMMA PrecedesOrders ==
  ASSUME NEW S, NEW s \in Seq(S), Distinct(s)
  PROVE  /\ \A x, y \in Elements(s) : x # y => Precedes(s, x, y) \/ Precedes(s, y, x)
         /\ \A x, y : Precedes(s, x, y) => /\ x \in Elements(s) /\ y \in Elements(s)
                                           /\ x # y /\ ~ Precedes(s, y, x)
<1>1. DOMAIN s = 1 .. Len(s) /\ Len(s) \in Nat
  BY LenProperties
<1>2. ASSUME NEW x \in Elements(s), NEW y \in Elements(s), x # y
      PROVE  Precedes(s, x, y) \/ Precedes(s, y, x)
  <2>1. PICK m \in 1 .. Len(s), n \in 1 .. Len(s) : s[m] = x /\ s[n] = y
    BY <1>1 DEF Elements
  <2>2. m < n \/ n < m
    BY <1>2, <2>1
  <2> QED
    BY <1>1, <2>1, <2>2 DEF Precedes
<1>3. ASSUME NEW x, NEW y, Precedes(s, x, y)
      PROVE  x \in Elements(s) /\ y \in Elements(s) /\ x # y /\ ~ Precedes(s, y, x)
  <2>1. PICK m \in 1 .. Len(s), n \in 1 .. Len(s) : m < n /\ s[m] = x /\ s[n] = y
    BY <1>1, <1>3 DEF Precedes
  <2>2. \A i \in 1 .. Len(s) : (s[i] = x => i = m) /\ (s[i] = y => i = n)
    BY <1>1, <2>1 DEF Distinct
  <2>3. x \in Elements(s) /\ y \in Elements(s) /\ x # y
    BY <1>1, <2>1, <2>2 DEF Elements
  <2>4. ~ Precedes(s, y, x)
    BY <1>1, <2>1, <2>2 DEF Precedes
  <2> QED
    BY <2>3, <2>4
<1> QED
  BY <1>2, <1>3

\* Nothing comes before anything in the empty list.
LEMMA PrecedesEmpty == \A x, y : ~ Precedes(<<>>, x, y)
BY DEF Precedes

\* The head comes before the rest, and the tail keeps the order.
LEMMA PrecedesHead ==
  ASSUME NEW S, NEW s \in Seq(S), s # <<>>
  PROVE  /\ \A y \in Elements(s) : y # Head(s) => Precedes(s, Head(s), y)
         /\ \A x, y : Precedes(Tail(s), x, y) => Precedes(s, x, y)
<1>1. /\ DOMAIN s = 1 .. Len(s) /\ Len(s) \in Nat /\ Len(s) # 0
      /\ Head(s) = s[1]
  BY LenProperties, EmptySeq
<1>2. /\ DOMAIN Tail(s) = 1 .. Len(s) - 1
      /\ \A n \in 1 .. Len(s) - 1 : Tail(s)[n] = s[n + 1]
  BY <1>1, HeadTailProperties, LenProperties
<1>3. ASSUME NEW y \in Elements(s), y # Head(s)
      PROVE  Precedes(s, Head(s), y)
  <2>1. PICK n \in 1 .. Len(s) : s[n] = y
    BY <1>1 DEF Elements
  <2>2. 1 \in 1 .. Len(s) /\ 1 < n
    BY <1>1, <1>3, <2>1
  <2> QED
    BY <1>1, <2>1, <2>2 DEF Precedes
<1>4. ASSUME NEW x, NEW y, Precedes(Tail(s), x, y)
      PROVE  Precedes(s, x, y)
  <2>1. PICK m \in 1 .. Len(s) - 1, n \in 1 .. Len(s) - 1 :
          m < n /\ Tail(s)[m] = x /\ Tail(s)[n] = y
    BY <1>2, <1>4 DEF Precedes
  <2>2. /\ m + 1 \in 1 .. Len(s) /\ n + 1 \in 1 .. Len(s) /\ m + 1 < n + 1
        /\ s[m + 1] = x /\ s[n + 1] = y
    BY <1>1, <1>2, <2>1
  <2> QED
    BY <1>1, <2>2 DEF Precedes
<1> QED
  BY <1>3, <1>4

\* The DELETE keeps the order of the rows that stay.
LEMMA PrecedesWithout ==
  ASSUME NEW S, rows \in Seq(S), NEW k, NEW x, NEW y,
         Precedes(RowsWithout(k), x, y)
  PROVE  Precedes(rows, x, y)
<1>1. DOMAIN rows = 1 .. Len(rows) /\ Len(rows) \in Nat
  BY LenProperties
<1>2. CASE k \notin Recorded
  BY <1>2 DEF RowsWithout
<1>3. CASE k \in Recorded
  <2> DEFINE r == RowOf(k)
             e(n) == IF n < r THEN rows[n] ELSE rows[n + 1]
             s == [n \in 1 .. Len(rows) - 1 |-> e(n)]
  <2>1. r \in 1 .. Len(rows)
    BY <1>3, RowOfType
  <2>2. RowsWithout(k) = s
    BY <1>3 DEF RowsWithout
  <2> HIDE DEF r
  <2>3. DOMAIN s = 1 .. Len(rows) - 1
    OBVIOUS
  <2>4. PICK m \in 1 .. Len(rows) - 1, n \in 1 .. Len(rows) - 1 :
          m < n /\ e(m) = x /\ e(n) = y
    <3>1. \A i \in 1 .. Len(rows) - 1 : s[i] = e(i)
      OBVIOUS
    <3>2. Precedes(s, x, y)
      BY <2>2
    <3> HIDE DEF e, s
    <3> QED
      BY <2>3, <3>1, <3>2 DEF Precedes
  <2> DEFINE i == IF m < r THEN m ELSE m + 1
             j == IF n < r THEN n ELSE n + 1
  <2>5. /\ i \in 1 .. Len(rows) /\ j \in 1 .. Len(rows) /\ i < j
        /\ rows[i] = x /\ rows[j] = y
    BY <1>1, <2>1, <2>4
  <2> HIDE DEF i, j
  <2> QED
    BY <1>1, <2>5 DEF Precedes
<1> QED
  BY <1>2, <1>3

\* The INSERT puts the new row last.
LEMMA PrecedesWith ==
  ASSUME NEW S, rows \in Seq(S), NEW k \in S, NEW x, NEW y,
         Precedes(RowsWith(k), x, y), y # k
  PROVE  Precedes(rows, x, y)
<1>1. DOMAIN rows = 1 .. Len(rows) /\ Len(rows) \in Nat
  BY LenProperties
<1>2. CASE k \in Recorded
  BY <1>2 DEF RowsWith
<1>3. CASE k \notin Recorded
  <2> DEFINE s == Append(rows, k)
  <2>1. /\ RowsWith(k) = s
        /\ DOMAIN s = 1 .. Len(rows) + 1
        /\ \A n \in 1 .. Len(rows) : s[n] = rows[n]
        /\ s[Len(rows) + 1] = k
    <3>1. s \in Seq(S) /\ Len(s) = Len(rows) + 1
      BY AppendProperties
    <3>2. DOMAIN s = 1 .. Len(rows) + 1
      BY <3>1, LenProperties
    <3> QED
      BY <1>1, <1>3, <3>2, AppendProperties DEF RowsWith
  <2> HIDE DEF s
  <2>2. PICK m \in 1 .. Len(rows) + 1, n \in 1 .. Len(rows) + 1 :
          m < n /\ s[m] = x /\ s[n] = y
    BY <2>1 DEF Precedes
  <2>3. n # Len(rows) + 1
    BY <2>1, <2>2
  <2>4. /\ m \in 1 .. Len(rows) /\ n \in 1 .. Len(rows)
        /\ rows[m] = x /\ rows[n] = y
    BY <1>1, <2>1, <2>2, <2>3
  <2> QED
    BY <1>1, <2>2, <2>4 DEF Precedes
<1> QED
  BY <1>2, <1>3

(* What a step does to lists and rows *)

\* The list of a process, and the keys on it.
LEMMA ListType ==
  ASSUME TypeOK, NEW p \in Util
  PROVE  /\ List(p) \in Seq(Key) /\ Distinct(List(p))
         /\ Todo(p) = Elements(List(p)) /\ Todo(p) \subseteq Key
         /\ proc[p].pc = "deleted" => /\ List(p) # <<>>
                                      /\ Drops(p) = {Head(List(p))}
         /\ proc[p].pc # "deleted" => Drops(p) = {}
<1>1. List(p) \in Seq(Key) /\ Distinct(List(p))
  <2>1. <<>> \in Seq(Key) /\ Distinct(<<>>)
    BY DEF Distinct
  <2> QED
    BY <2>1, StateOf DEF List, ListOf
<1>2. Todo(p) = Elements(List(p))
  BY EmptyList DEF Todo, TodoOf, List, ListOf
<1>3. Elements(List(p)) \subseteq Key
  <2>1. DOMAIN List(p) = 1 .. Len(List(p)) /\ \A n \in 1 .. Len(List(p)) : List(p)[n] \in Key
    BY <1>1, LenProperties, ElementOfSeq
  <2> QED
    BY <2>1 DEF Elements
<1>4. proc[p].pc = "deleted" => List(p) # <<>> /\ Drops(p) = {Head(List(p))}
  BY StateOf DEF List, ListOf, Drops, DropsOf
<1>5. proc[p].pc # "deleted" => Drops(p) = {}
  BY DEF Drops, DropsOf
<1> QED
  BY <1>1, <1>2, <1>3, <1>4, <1>5

ListReads(p) == List(p)' = rows /\ rows' = rows
ListStays(p) == List(p)' \in {List(p), <<>>} /\ rows' = rows
ListShrinks(p) == /\ List(p) # <<>> /\ List(p)' = Tail(List(p))
                  /\ rows' = RowsWithout(Head(List(p)))
ListDone(p) == /\ List(p)' = <<>> /\ proc[p].pc = "created"
               /\ rows' = RowsWith(proc[p].key)

ListMoves(p) ==
    /\ \A q \in Util \ {p} : List(q)' = List(q) /\ Todo(q)' = Todo(q)
    /\ ListReads(p) \/ ListStays(p) \/ ListShrinks(p) \/ ListDone(p)

\* The list of a process follows its state.
LEMMA BecomeList ==
  ASSUME TypeOK, NEW p \in Util, NEW s, Become(p, s)
  PROVE  /\ List(p)' = ListOf(s)
         /\ \A q \in Util \ {p} : List(q)' = List(q) /\ Todo(q)' = Todo(q)
<1>1. proc \in [Util -> ProcStates]
  BY StateOf
<1>2. proc'[p] = s /\ \A q \in Util \ {p} : proc'[q] = proc[q]
  BY <1>1, BecomeGets DEF Gets
<1> QED
  BY <1>2 DEF List, Todo

\* Every step reads one list, leaves it, or takes its head off it with the row.
LEMMA ListStep ==
  ASSUME TypeOK, [Next]_vars
  PROVE  \E p \in Util : ListMoves(p)
<1> USE DEF ListMoves
<1>0. ListOf(Idle) = <<>>
  BY DEF ListOf, Idle
<1>1. ASSUME NEW p \in Util, Start(p) PROVE ListMoves(p)
  <2>1. Become(p, [pc |-> "rotating", todo |-> rows]) /\ rows' = rows
    BY <1>1 DEF Start, CachedKeys
  <2>2. ListOf([pc |-> "rotating", todo |-> rows]) = rows
    BY DEF ListOf
  <2> QED
    BY <2>1, <2>2, BecomeList DEF ListReads
<1>2. ASSUME NEW p \in Util, DeleteAtIam(p) PROVE ListMoves(p)
  <2>1. Become(p, [pc |-> "deleted", todo |-> proc[p].todo]) /\ rows' = rows
    BY <1>2 DEF DeleteAtIam
  <2>2. ListOf([pc |-> "deleted", todo |-> proc[p].todo]) = List(p)
    BY <1>2 DEF DeleteAtIam, DeletesNext, ListOf, List
  <2> QED
    BY <2>1, <2>2, BecomeList DEF ListStays
<1>3. ASSUME NEW p \in Util, DeleteRow(p) PROVE ListMoves(p)
  <2>1. /\ Become(p, [pc |-> "rotating", todo |-> Tail(proc[p].todo)])
        /\ rows' = RowsWithout(Head(proc[p].todo))
        /\ proc[p].pc = "deleted"
    BY <1>3 DEF DeleteRow
  <2>2. ListOf([pc |-> "rotating", todo |-> Tail(proc[p].todo)]) = Tail(proc[p].todo)
    BY DEF ListOf
  <2>3. List(p) = proc[p].todo /\ List(p) # <<>>
    BY <2>1, ListType DEF List, ListOf
  <2> QED
    BY <2>1, <2>2, <2>3, BecomeList DEF ListShrinks
<1>4. ASSUME NEW p \in Util, CreateAtIam(p) PROVE ListMoves(p)
  <2>1. Become(p, [pc |-> "created", key |-> NewKey]) /\ rows' = rows
    BY <1>4 DEF CreateAtIam
  <2>2. ListOf([pc |-> "created", key |-> NewKey]) = <<>>
    BY DEF ListOf
  <2> QED
    BY <2>1, <2>2, BecomeList DEF ListStays
<1>5. ASSUME NEW p \in Util, InsertRow(p) PROVE ListMoves(p)
  BY <1>0, <1>5, BecomeList DEF InsertRow, ListDone
<1>6. ASSUME NEW p \in Util, Become(p, proc[p]) \/ Become(p, Idle), rows' = rows
      PROVE  ListMoves(p)
  BY <1>0, <1>6, BecomeList DEF ListStays, List
<1>7. ASSUME NEW p \in Util, DeleteRefused(p) \/ Abort(p) PROVE ListMoves(p)
  BY <1>6, <1>7 DEF DeleteRefused, Abort
<1>8. ASSUME NEW p \in Util, DeleteAnswerLost(p) PROVE ListMoves(p)
  BY <1>6, <1>8 DEF DeleteAnswerLost
<1>9. ASSUME NEW p \in Util, CreateAnswerLost(p) PROVE ListMoves(p)
  BY <1>6, <1>9 DEF CreateAnswerLost
<1>10. ASSUME proc' = proc, rows' = rows PROVE \E p \in Util : ListMoves(p)
  BY <1>10, CredentialsAssumption DEF ListStays, List, Todo
<1>11. ASSUME NEW k \in Key, StudentDeletes(k) PROVE \E p \in Util : ListMoves(p)
  BY <1>10, <1>11 DEF StudentDeletes
<1>12. CASE UNCHANGED vars
  BY <1>10, <1>12 DEF vars
<1> HIDE DEF ListMoves
<1> QED
  BY <1>1, <1>2, <1>3, <1>4, <1>5, <1>7, <1>8, <1>9, <1>11, <1>12 DEF Next, Proceed

(* The order is kept *)

\* Lists and table agree about the order, faults or not.
LEMMA OrderStep ==
  ASSUME Inv, Ordered, NEW p \in Util, ListMoves(p), TypeOK'
  PROVE  Ordered'
<1> USE DEF Ordered
<1>0. /\ \A q \in Util : /\ List(q) \in Seq(Key) /\ Distinct(List(q))
                         /\ Todo(q) = Elements(List(q)) /\ Todo(q) \subseteq Key
      /\ rows \in Seq(Key) /\ Distinct(rows)
  BY ListType, RowsType DEF Inv, TypeOK
<1>1. \A q \in Util : Todo(q)' = Elements(List(q)')
  BY EmptyList DEF Todo, TodoOf, List, ListOf
<1>2. \A q \in Util \ {p} : List(q)' = List(q) /\ Todo(q)' = Todo(q)
  BY DEF ListMoves
\* What is required of each list after the step.
<1>3. ASSUME \A q \in Util : \A x, y \in Key :
               /\ Precedes(List(q)', x, y) => ~ Precedes(rows', y, x)
               /\ y \in Todo(q)' /\ Precedes(rows', x, y) => x \in Todo(q)'
      PROVE  Ordered'
  BY <1>3 DEF InOrder, Closed, Precedes
<1>4. CASE ListReads(p)
  <2>1. List(p)' = rows /\ rows' = rows /\ Todo(p)' = Elements(rows)
    BY <1>1, <1>4 DEF ListReads
  <2>2. \A x, y : Precedes(rows, x, y) => /\ x \in Elements(rows)
                                          /\ ~ Precedes(rows, y, x)
    BY <1>0, PrecedesOrders
  <2> QED
    BY <1>2, <1>3, <2>1, <2>2 DEF InOrder, Closed
<1>5. CASE ListStays(p)
  <2>1. CASE List(p)' = List(p)
    <3>1. Todo(p)' = Todo(p)
      BY <1>0, <1>1, <2>1
    <3> QED
      BY <1>2, <1>3, <1>5, <2>1, <3>1 DEF ListStays, InOrder, Closed
  <2>2. CASE List(p)' = <<>>
    <3>1. Todo(p)' = {}
      BY <1>1, <2>2, EmptyList
    <3> QED
      BY <1>2, <1>3, <1>5, <2>2, <3>1, PrecedesEmpty DEF ListStays, InOrder, Closed
  <2> QED
    BY <1>5, <2>1, <2>2 DEF ListStays
<1>6. CASE ListShrinks(p)
  <2> DEFINE h == Head(List(p))
  <2>1. /\ List(p) # <<>> /\ List(p)' = Tail(List(p)) /\ rows' = RowsWithout(h)
    BY <1>6 DEF ListShrinks
  <2>2. Todo(p)' = Todo(p) \ {h}
    BY <1>0, <1>1, <2>1, HeadAndTail
  <2>3. \A x, y : Precedes(rows', x, y) => Precedes(rows, x, y)
    BY <1>0, <2>1, PrecedesWithout
  <2>4. \A x, y : Precedes(rows', x, y) => x # h
    <3>1. Elements(rows') = Recorded \ {h}
      BY <1>0, <2>1, WithoutRow
    <3>2. rows' \in Seq(Key) /\ Distinct(rows')
      BY <1>0, <2>1, WithoutRow
    <3>3. \A x, y : Precedes(rows', x, y) => x \in Elements(rows')
      BY <3>2, PrecedesOrders
    <3> QED
      BY <3>1, <3>3
  <2>5. \A x, y : Precedes(List(p)', x, y) => Precedes(List(p), x, y)
    BY <1>0, <2>1, PrecedesHead
  <2> HIDE DEF h
  <2> QED
    BY <1>2, <1>3, <2>2, <2>3, <2>4, <2>5 DEF InOrder, Closed
<1>7. CASE ListDone(p)
  <2> DEFINE k == proc[p].key
  <2>1. /\ List(p)' = <<>> /\ rows' = RowsWith(k) /\ Adds(p) = {k} /\ k \in Key
    BY <1>7, StateOf DEF ListDone, Inv, Adds, AddsOf
  <2>2. \A q \in Util : k \notin Todo(q)
    BY <2>1 DEF Inv, NewKeysAreNew
  <2>3. \A x, y : Precedes(rows', x, y) => Precedes(rows, x, y) \/ y = k
    BY <1>0, <2>1, PrecedesWith
  <2>4. Todo(p)' = {}
    BY <1>1, <2>1, EmptyList
  <2>5. \A q \in Util : \A x, y : Precedes(List(q), x, y) => x \in Todo(q)
    BY <1>0, PrecedesOrders
  <2> HIDE DEF k
  <2> QED
    BY <1>2, <1>3, <2>1, <2>2, <2>3, <2>4, <2>5, PrecedesEmpty DEF InOrder, Closed
<1> QED
  BY <1>4, <1>5, <1>6, <1>7 DEF ListMoves

\* Without a fault so far, no key has been hit.
LEMMA HarmStep ==
  ASSUME TypeOK, HarmIsCounted, [Next]_vars
  PROVE  HarmIsCounted'
<1>1. faults \in Nat
  BY DEF TypeOK
<1>2. CASE UNCHANGED <<faults, harmed>>
  BY <1>2 DEF HarmIsCounted
<1>3. CASE faults' = faults + 1
  BY <1>1, <1>3 DEF HarmIsCounted
<1> QED
  BY <1>2, <1>3 DEF Next, Proceed, vars, Start, DeleteAtIam, DeleteRefused, DeleteRow,
     CreateAtIam, InsertRow, Abort, DeleteAnswerLost, CreateAnswerLost, StudentDeletes, Fault

\* A step that is no fault.
Orderly(p) == Start(p) \/ Proceed(p)

\* A step after which there was no fault is one of a rotation that no fault
\* disturbs, or no step.
LEMMA NoFaultStep ==
  ASSUME TypeOK, [Next]_vars, faults' = 0
  PROVE  /\ faults = 0
         /\ (\E p \in Util : Orderly(p)) \/ UNCHANGED vars
<1>1. faults \in Nat
  BY DEF TypeOK
<1>2. faults' # faults + 1
  BY <1>1
<1>3. (\E p \in Util : Orderly(p)) \/ UNCHANGED vars
  BY <1>2 DEF Next, Orderly, Abort, DeleteAnswerLost, CreateAnswerLost, StudentDeletes, Fault
<1>4. UNCHANGED faults
  BY <1>3 DEF Orderly, Proceed, vars, Start, DeleteAtIam, DeleteRefused, DeleteRow,
     CreateAtIam, InsertRow
<1> QED
  BY <1>3, <1>4

\* Without faults a key that works and is on a list is in the table, and a dead
\* one in the table is about to be deleted there.
LEMMA WithoutHarm ==
  ASSUME Inv, RecordedWork, WorkingFound, harmed = {}
  PROVE  /\ \A p \in Util : \A k \in Todo(p) : k \in iam => k \in Recorded
         /\ \A k \in Recorded : k \in iam \/ \E p \in Util : k \in Drops(p)
BY DEF Inv, RecordedWork, WorkingFound, Works, Found, NewKeysAreNew, DroppedAreGone

\* The list of a process that has a key to delete.
LEMMA Deleting ==
  ASSUME TypeOK, NEW p \in Util, DeletesNext(p)
  PROVE  /\ List(p) = proc[p].todo /\ List(p) # <<>>
         /\ Head(List(p)) \in Todo(p) /\ Drops(p) = {}
         /\ p \in Active
<1>1. List(p) = proc[p].todo /\ List(p) # <<>> /\ p \in Active
  BY DEF DeletesNext, List, ListOf, Active
<1>2. Head(List(p)) \in Todo(p) /\ Drops(p) = {}
  BY <1>1, NextInList DEF Has
<1> QED
  BY <1>1, <1>2

\* What the steps below are taken from.
Calm == /\ Inv /\ RecordedWork /\ WorkingFound /\ Ordered /\ HarmIsCounted

\* The first key that IAM accepts on any list is the first one in the table: no
\* process has a key before it that works.
LEMMA HeadIsFirst ==
  ASSUME Calm, faults = 0, NEW q \in Util, List(q) # <<>>, Head(List(q)) \in Recorded,
         NEW p \in Util, NEW x \in Key, Precedes(List(p), x, Head(List(q)))
  PROVE  x \notin iam
<1> DEFINE h == Head(List(q))
<1>0. /\ \A r \in Util : /\ List(r) \in Seq(Key) /\ Distinct(List(r))
                         /\ Todo(r) = Elements(List(r))
      /\ rows \in Seq(Key) /\ Distinct(rows) /\ harmed = {}
  BY ListType, RowsType DEF Calm, Inv, TypeOK, HarmIsCounted
<1>1. SUFFICES ASSUME x \in iam PROVE FALSE
  OBVIOUS
<1>2. x \in Todo(p) /\ x # h
  BY <1>0, PrecedesOrders
<1>3. x \in Recorded
  BY <1>0, <1>1, <1>2, WithoutHarm DEF Calm
<1>4. h \in Key /\ h \in Todo(q)
  BY <1>0, HeadAndTail
<1>5. Precedes(rows, x, h)
  <2>1. Precedes(rows, x, h) \/ Precedes(rows, h, x)
    BY <1>0, <1>2, <1>3, PrecedesOrders DEF Recorded
  <2>2. ~ Precedes(rows, h, x)
    BY <1>4 DEF Calm, Ordered, InOrder
  <2> QED
    BY <2>1, <2>2
<1>6. x \in Todo(q)
  BY <1>4, <1>5 DEF Calm, Ordered, Closed
<1>7. Precedes(List(q), h, x)
  BY <1>0, <1>2, <1>6, PrecedesHead
<1> QED
  BY <1>4, <1>5, <1>7 DEF Calm, Ordered, InOrder

\* Deleting a list's first key, and reading a new list, keep dead keys first.
LEMMA DeadFirstStep ==
  ASSUME Calm, DeadFirst, [Next]_vars
  PROVE  DeadFirst'
<1> SUFFICES ASSUME faults' = 0 PROVE DeadFirst'
  BY DEF DeadFirst
<1>0. /\ faults = 0 /\ harmed = {} /\ TypeOK
      /\ (\E p \in Util : Orderly(p)) \/ UNCHANGED vars
  BY NoFaultStep DEF Calm, Inv, HarmIsCounted
<1>1. /\ \A q \in Util : /\ List(q) \in Seq(Key) /\ Distinct(List(q))
                         /\ Todo(q) = Elements(List(q))
      /\ rows \in Seq(Key) /\ Distinct(rows)
      /\ iam \subseteq issued /\ Recorded \subseteq issued
      /\ \A q \in Util : Todo(q) \subseteq issued
  BY <1>0, ListType, RowsType DEF Calm, Inv, TypeOK, ListsAreIssued
<1>2. PICK o \in Util : ListMoves(o)
  BY <1>0, ListStep
\* Every list is read from the table by this step, or part of one before it.
<1>3. ASSUME NEW q \in Util, NEW x, NEW y, Precedes(List(q)', x, y)
      PROVE  \/ Precedes(List(q), x, y)
             \/ List(q)' = rows /\ rows' = rows
  <2>1. CASE q # o
    BY <1>2, <1>3, <2>1 DEF ListMoves
  <2>2. CASE q = o
    <3>1. CASE ListStays(o)
      BY <1>3, <2>2, <3>1, PrecedesEmpty DEF ListStays
    <3>2. CASE ListShrinks(o)
      BY <1>1, <1>3, <2>2, <3>2, PrecedesHead DEF ListShrinks
    <3>3. CASE ListDone(o)
      BY <1>3, <2>2, <3>3, PrecedesEmpty DEF ListDone
    <3> QED
      BY <1>2, <2>2, <3>1, <3>2, <3>3 DEF ListMoves, ListReads
  <2> QED
    BY <2>1, <2>2
\* In the table, too, a key before one that works is dead, or none is dead.
<1>4. ASSUME NEW x \in Key, NEW y \in Key, Precedes(rows, x, y), x \in iam
      PROVE  y \in iam
  <2> SUFFICES ASSUME y \notin iam PROVE FALSE
    OBVIOUS
  <2>1. y \in Recorded /\ x # y
    BY <1>1, <1>4, PrecedesOrders DEF Recorded
  <2>2. PICK q \in Util : y \in Drops(q)
    BY <1>0, <2>1, WithoutHarm DEF Calm
  <2>3. List(q) # <<>> /\ y = Head(List(q)) /\ y \in Todo(q)
    BY <1>0, <1>1, <2>2, ListType, HeadAndTail
  <2>4. x \in Todo(q)
    BY <1>4, <2>3 DEF Calm, Ordered, Closed
  <2>5. Precedes(List(q), y, x)
    BY <1>1, <2>1, <2>3, <2>4, PrecedesHead
  <2> QED
    BY <1>4, <2>5 DEF Calm, Ordered, InOrder
\* Before the step, dead keys were first in each list that it leaves.
<1>5. ASSUME NEW q \in Util, NEW x \in Key, NEW y \in Key, Precedes(List(q)', x, y), x \in iam
      PROVE  y \in iam
  BY <1>0, <1>3, <1>4, <1>5 DEF DeadFirst
<1>6. CASE UNCHANGED iam
  BY <1>5, <1>6 DEF DeadFirst, Precedes
<1>7. ASSUME NEW p \in Util, DeleteAtIam(p)
      PROVE  DeadFirst'
  <2> DEFINE h == Head(List(p))
  <2>1. List(p) # <<>> /\ h \in iam /\ iam' = iam \ {h} /\ rows' = rows
    BY <1>0, <1>7, Deleting DEF DeleteAtIam, IamWithout
  <2>2. h \in Recorded
    BY <1>0, <1>7, <2>1, Deleting, WithoutHarm DEF Calm, DeleteAtIam
  <2>3. ASSUME NEW q \in Util, NEW x \in Key, NEW y \in Key,
               Precedes(List(q)', x, y), x \in iam'
        PROVE  y \in iam'
    <3>1. x \in iam /\ x # h /\ y \in iam
      BY <1>5, <2>1, <2>3
    <3>2. Precedes(List(q), x, y)
      <4>1. CASE q # p
        <5>1. List(q)' = List(q)
          BY <1>0, <1>7, <4>1, BecomeList DEF DeleteAtIam
        <5> QED
          BY <2>3, <5>1
      <4>2. CASE q = p
        <5>1. /\ Become(p, [pc |-> "deleted", todo |-> proc[p].todo])
              /\ List(p) = proc[p].todo
          BY <1>0, <1>7, Deleting DEF DeleteAtIam
        <5>2. ListOf([pc |-> "deleted", todo |-> proc[p].todo]) = proc[p].todo
          BY DEF ListOf
        <5>3. List(p)' = List(p)
          BY <1>0, <5>1, <5>2, BecomeList
        <5> QED
          BY <2>3, <4>2, <5>3
      <4> QED
        BY <4>1, <4>2
    <3>3. y # h
      BY <1>0, <2>1, <2>2, <3>1, <3>2, HeadIsFirst
    <3> QED
      BY <2>1, <3>1, <3>3
  <2> QED
    BY <2>3 DEF DeadFirst, Precedes
<1>8. ASSUME NEW p \in Util, CreateAtIam(p)
      PROVE  DeadFirst'
  <2>1. /\ Gets(p, {}, {NewKey}, {}) /\ NewKey \notin issued
        /\ iam' = iam \cup {NewKey} /\ rows' = rows
    BY <1>0, <1>8, CreateAtIamEffect DEF CreateAtIam
  <2>2. ASSUME NEW q \in Util, NEW x \in Key, NEW y \in Key,
               Precedes(List(q)', x, y), x \in iam'
        PROVE  y \in iam'
    <3>1. x \in issued
      <4>1. CASE Precedes(List(q), x, y)
        BY <1>1, <4>1, PrecedesOrders
      <4>2. CASE Precedes(rows, x, y)
        BY <1>1, <4>2, PrecedesOrders DEF Recorded
      <4> QED
        BY <1>3, <2>2, <4>1, <4>2
    <3>2. x \in iam
      BY <2>1, <2>2, <3>1
    <3> QED
      BY <1>5, <2>1, <2>2, <3>2
  <2> QED
    BY <2>2 DEF DeadFirst, Precedes
<1>9. ASSUME NEW p \in Util, Start(p) \/ DeleteRefused(p) \/ DeleteRow(p) \/ InsertRow(p)
      PROVE  UNCHANGED iam
  BY <1>9 DEF Start, DeleteRefused, DeleteRow, InsertRow
<1>10. CASE UNCHANGED vars
  BY <1>6, <1>10 DEF vars
<1> QED
  BY <1>0, <1>6, <1>7, <1>8, <1>9, <1>10 DEF Orderly, Proceed

\* A rotation that nobody will refuse ends with its key in the table, or gives
\* way to one that has just deleted a key of its list.
LEMMA SucceedsStep ==
  ASSUME Calm, DeadFirst, SomeoneSucceeds, [Next]_vars
  PROVE  SomeoneSucceeds'
<1> SUFFICES ASSUME faults' = 0 PROVE SomeoneSucceeds'
  BY DEF SomeoneSucceeds
<1>0. /\ faults = 0 /\ harmed = {} /\ TypeOK
      /\ (\E p \in Util : Orderly(p)) \/ UNCHANGED vars
  BY NoFaultStep DEF Calm, Inv, HarmIsCounted
<1>1. proc \in [Util -> ProcStates] /\ iam \subseteq issued
  BY <1>0, StateOf DEF TypeOK
<1>2. \/ Recorded \cap iam # {}
      \/ \E p \in Active : ~ Doomed(p)
  BY <1>0 DEF SomeoneSucceeds
\* Whoever does not run or is doomed is nobody that succeeds.
<1>3. ASSUME Recorded \cap iam \subseteq Recorded' \cap iam', iam \subseteq iam',
             \A q \in Active : \/ Doomed(q)
                               \/ q \in Active' /\ Todo(q)' \ Drops(q)' \subseteq Todo(q) \ Drops(q)
      PROVE  SomeoneSucceeds'
  BY <1>2, <1>3 DEF SomeoneSucceeds, Doomed
<1>4. ASSUME NEW p \in Util, Start(p) PROVE SomeoneSucceeds'
  <2>1. /\ Gets(p, Recorded, {}, {}) /\ Recorded' = Recorded /\ iam' = iam
        /\ p \notin Active
    BY <1>0, <1>4, StartEffect DEF Start, Recorded, Elements, Active
  <2>2. Active \subseteq Active' /\ Active \subseteq Util
    BY <1>1, <1>4, BecomeActive DEF Start, Active
  <2>3. ASSUME NEW q \in Active
        PROVE  q \in Active' /\ Todo(q)' \ Drops(q)' \subseteq Todo(q) \ Drops(q)
    BY <2>1, <2>2 DEF Gets
  <2> QED
    BY <1>3, <2>1, <2>3
<1>5. ASSUME NEW p \in Util, DeleteAtIam(p) PROVE SomeoneSucceeds'
  <2> DEFINE h == Head(List(p))
  <2>1. /\ List(p) = proc[p].todo /\ List(p) # <<>> /\ h \in iam /\ p \in Active
        /\ Gets(p, Todo(p), {}, {h}) /\ iam' = iam \ {h}
    BY <1>0, <1>5, Deleting, DeleteAtIamEffect DEF DeleteAtIam
  <2>2. \A k \in Todo(p) : k # h => k \in iam
    <3>1. /\ List(p) \in Seq(Key) /\ Todo(p) = Elements(List(p)) /\ Todo(p) \subseteq Key
          /\ h \in Key
      BY <1>0, <1>1, <2>1, ListType, HeadAndTail
    <3>2. \A k \in Todo(p) : k # h => Precedes(List(p), h, k)
      BY <2>1, <3>1, PrecedesHead
    <3> QED
      BY <1>0, <2>1, <3>1, <3>2 DEF DeadFirst
  <2>3. p \in Active'
    BY <1>1, <1>5, BecomeActive DEF DeleteAtIam
  <2>4. Todo(p)' = Todo(p) /\ Drops(p)' = {h}
    BY <2>1 DEF Gets
  <2> HIDE DEF h
  <2>5. ~ Doomed(p)'
    BY <2>1, <2>2, <2>4 DEF Doomed
  <2> QED
    BY <2>3, <2>5 DEF SomeoneSucceeds
<1>6. ASSUME NEW p \in Util, DeleteRefused(p) PROVE SomeoneSucceeds'
  <2>1. Doomed(p)
    BY <1>0, <1>6, Deleting DEF DeleteRefused, Doomed
  <2>2. /\ Gets(p, {}, {}, {}) /\ Active' = Active \ {p}
        /\ Recorded' = Recorded /\ iam' = iam
    BY <1>1, <1>6, IdleGets, BecomeActive DEF DeleteRefused, Idle, Recorded, Elements
  <2>3. ASSUME NEW q \in Active, ~ Doomed(q)
        PROVE  q \in Active' /\ Todo(q)' \ Drops(q)' \subseteq Todo(q) \ Drops(q)
    BY <2>1, <2>2, <2>3 DEF Gets, Active
  <2> QED
    BY <1>3, <2>2, <2>3
<1>7. ASSUME NEW p \in Util, DeleteRow(p) PROVE SomeoneSucceeds'
  <2> DEFINE h == Head(proc[p].todo)
  <2>1. /\ Has(p, Todo(p), {}, {h}) /\ Gets(p, Todo(p) \ {h}, {}, {})
        /\ Recorded' = Recorded \ {h} /\ iam' = iam
    BY <1>0, <1>7, DeleteRowEffect DEF DeleteRow
  <2> HIDE DEF h
  <2>2. h \notin iam
    BY <2>1 DEF Has, Calm, Inv, DroppedAreGone
  <2>3. Active' = Active
    BY <1>1, <1>7, BecomeActive DEF DeleteRow, Active
  <2>4. ASSUME NEW q \in Active
        PROVE  q \in Active' /\ Todo(q)' \ Drops(q)' \subseteq Todo(q) \ Drops(q)
    BY <2>1, <2>3 DEF Has, Gets, Active
  <2> QED
    BY <1>3, <2>1, <2>2, <2>4
<1>8. ASSUME NEW p \in Util, CreateAtIam(p) PROVE SomeoneSucceeds'
  <2>1. /\ Has(p, {}, {}, {}) /\ Gets(p, {}, {NewKey}, {})
        /\ iam' = iam \cup {NewKey} /\ Recorded' = Recorded
    BY <1>0, <1>8, CreateAtIamEffect DEF CreateAtIam, Recorded, Elements
  <2>2. Active' = Active
    BY <1>1, <1>8, BecomeActive DEF CreateAtIam, Creates, Active
  <2>3. ASSUME NEW q \in Active
        PROVE  q \in Active' /\ Todo(q)' \ Drops(q)' \subseteq Todo(q) \ Drops(q)
    BY <2>1, <2>2 DEF Has, Gets, Active
  <2> QED
    BY <1>3, <2>1, <2>3
<1>9. ASSUME NEW p \in Util, InsertRow(p) PROVE SomeoneSucceeds'
  <2>1. Adds(p) \subseteq issued
    BY DEF Calm, Inv, ListsAreIssued
  <2>2. /\ Has(p, {}, {proc[p].key}, {})
        /\ Recorded' = Recorded \cup {proc[p].key} /\ iam' = iam
    BY <1>0, <1>9, <2>1, InsertRowEffect DEF InsertRow
  <2>3. proc[p].key \in iam
    BY <1>0, <2>2 DEF Has, Calm, Inv, NewKeysAreNew
  <2> QED
    BY <2>2, <2>3 DEF SomeoneSucceeds
<1>10. CASE UNCHANGED vars
  BY <1>2, <1>10 DEF vars, SomeoneSucceeds, Doomed, Todo, Drops, Active, Recorded, Elements
<1> QED
  BY <1>0, <1>4, <1>5, <1>6, <1>7, <1>8, <1>9, <1>10 DEF Orderly, Proceed

\* Rotations that overlap may delete each other's keys and refuse each other, but
\* not all of them: whenever none runs and no fault has happened, the account has
\* a key in the database and all keys there work, for any processes and keys.
THEOREM NeverLockedOutHolds == Spec => []NeverLockedOut
<1> DEFINE Whole == Calm /\ DeadFirst /\ SomeoneSucceeds
<1>1. Init => Whole
  <2> SUFFICES ASSUME Init PROVE Whole
    OBVIOUS
  <2>1. Inv
    BY InitInv
  <2>2. RecordedWork /\ WorkingFound /\ FirstKey \in Recorded /\ FirstKey \in iam
    BY DEF Init, RecordedWork, Works, WorkingFound, Found, Recorded, Elements
  <2>3. \A p \in Util : List(p) = <<>> /\ Todo(p) = {}
    BY IdleHas DEF Init, List, ListOf, Idle, Todo, TodoOf
  <2>4. Ordered /\ DeadFirst
    BY <2>3, PrecedesEmpty DEF Ordered, InOrder, Closed, DeadFirst
  <2>5. HarmIsCounted
    BY DEF Init, HarmIsCounted
  <2> QED
    BY <2>1, <2>2, <2>4, <2>5 DEF Calm, SomeoneSucceeds
<1>2. Whole /\ [Next]_vars => Whole'
  <2> SUFFICES ASSUME Whole, [Next]_vars PROVE Whole'
    OBVIOUS
  <2>1. Inv' /\ TypeOK' /\ TypeOK
    BY InvStep DEF Calm, Inv
  <2>2. PICK p \in Util : ListMoves(p)
    BY <2>1, ListStep
  <2>3. Ordered'
    BY <2>1, <2>2, OrderStep DEF Calm
  <2>4. RecordedWork' /\ WorkingFound'
    BY StepEffect, RecordedStep, WorkingStep DEF Calm
  <2>5. HarmIsCounted'
    BY <2>1, HarmStep DEF Calm
  <2>6. DeadFirst' /\ SomeoneSucceeds'
    BY DeadFirstStep, SucceedsStep
  <2> QED
    BY <2>1, <2>3, <2>4, <2>5, <2>6 DEF Calm
<1>3. Whole => NeverLockedOut
  <2> SUFFICES ASSUME Whole, faults = 0, Active = {}
               PROVE  Recorded # {} /\ Recorded \subseteq iam
    BY DEF NeverLockedOut
  <2>1. Recorded # {}
    BY DEF SomeoneSucceeds
  <2>2. \A p \in Util : Drops(p) = {}
    BY DEF Active, Drops, DropsOf
  <2>3. \A k \in Recorded : k \in iam
    BY <2>2, WithoutHarm DEF Calm, HarmIsCounted
  <2> QED
    BY <2>1, <2>3
<1> HIDE DEF Whole
<1> QED
  BY <1>1, <1>2, <1>3, PTL DEF Spec

-----------------------------------------------------------------------------
(* Rotations are short *)

\* The steps that a rotation has left: two for each key on its list, one for
\* each half of delete_access_key, and two for the key it creates.
Rank(p) ==
    CASE proc[p].pc = "rotating" -> 2 * Len(proc[p].todo) + 2
      [] proc[p].pc = "deleted"  -> 2 * Len(proc[p].todo) + 1
      [] proc[p].pc = "created"  -> 1
      [] OTHER                   -> 0

RankBounded == \A p \in Util : Rank(p) \in 0 .. 2 * Cardinality(Util) + 2

\* A step of a rotation brings it nearer to its end, and only a new rotation
\* is further from it.
RankFalls ==
    \A p \in Util : /\ Proceed(p) => Rank(p)' < Rank(p)
                    /\ Rank(p)' > Rank(p) => Start(p)

\* A list is at most as long as there are processes.
ListsFit ==
    \A p \in Util : proc[p].pc \in {"rotating", "deleted"} =>
                       Len(proc[p].todo) <= Cardinality(Util)

\* The ranks of the four states.
LEMMA RankIs ==
  ASSUME TypeOK, NEW p \in Util
  PROVE  /\ proc[p].pc = "idle" => Rank(p) = 0
         /\ proc[p].pc = "created" => Rank(p) = 1
         /\ proc[p].pc = "rotating" => Rank(p) = 2 * Len(proc[p].todo) + 2
         /\ proc[p].pc = "deleted" => Rank(p) = 2 * Len(proc[p].todo) + 1
         /\ proc[p].pc \in {"rotating", "deleted"} => /\ proc[p].todo \in Seq(Key)
                                                      /\ Len(proc[p].todo) \in Nat
         /\ Rank(p) \in Nat
<1>1. /\ proc[p].pc = "idle" => Rank(p) = 0
      /\ proc[p].pc = "created" => Rank(p) = 1
      /\ proc[p].pc = "rotating" => Rank(p) = 2 * Len(proc[p].todo) + 2
      /\ proc[p].pc = "deleted" => Rank(p) = 2 * Len(proc[p].todo) + 1
  BY DEF Rank
<1>2. proc[p].pc \in {"rotating", "deleted"} => /\ proc[p].todo \in Seq(Key)
                                                /\ Len(proc[p].todo) \in Nat
  BY StateOf, LenProperties
<1>3. proc[p].pc \in {"idle", "rotating", "deleted", "created"}
  BY StateOf
<1> QED
  BY <1>1, <1>2, <1>3

\* The same after a step.
LEMMA RankIsNext ==
  TypeOK' => (\A p \in Util :
                 /\ proc[p].pc = "idle" => Rank(p) = 0
                 /\ proc[p].pc = "created" => Rank(p) = 1
                 /\ proc[p].pc = "rotating" => Rank(p) = 2 * Len(proc[p].todo) + 2
                 /\ proc[p].pc = "deleted" => Rank(p) = 2 * Len(proc[p].todo) + 1
                 /\ Rank(p) \in Nat)'
<1>1. TypeOK => \A p \in Util :
                   /\ proc[p].pc = "idle" => Rank(p) = 0
                   /\ proc[p].pc = "created" => Rank(p) = 1
                   /\ proc[p].pc = "rotating" => Rank(p) = 2 * Len(proc[p].todo) + 2
                   /\ proc[p].pc = "deleted" => Rank(p) = 2 * Len(proc[p].todo) + 1
                   /\ Rank(p) \in Nat
  BY RankIs
<1> QED
  BY <1>1, PTL

\* A step of one process leaves the others where they are.
LEMMA OneMoves ==
  ASSUME TypeOK, [Next]_vars, NEW p \in Util, proc'[p] # proc[p]
  PROVE  \/ Start(p) \/ Proceed(p) \/ Become(p, Idle)
<1>1. proc \in [Util -> ProcStates]
  BY StateOf
<1>2. ASSUME NEW q \in Util, NEW s, Become(q, s)
      PROVE  p = q
  BY <1>1, <1>2 DEF Become
<1>3. CASE \E q \in Util : Start(q) \/ Proceed(q)
  <2>1. ASSUME NEW q \in Util, Start(q)
        PROVE  p = q
    BY <1>2, <2>1 DEF Start
  <2>2. ASSUME NEW q \in Util, DeleteAtIam(q) \/ DeleteRefused(q) \/ DeleteRow(q)
        PROVE  p = q
    BY <1>2, <2>2 DEF DeleteAtIam, DeleteRefused, DeleteRow
  <2>3. ASSUME NEW q \in Util, CreateAtIam(q) \/ InsertRow(q)
        PROVE  p = q
    BY <1>2, <2>3 DEF CreateAtIam, InsertRow
  <2>4. PICK q \in Util : Start(q) \/ Proceed(q)
    BY <1>3
  <2>5. p = q
    BY <1>2, <2>1, <2>2, <2>3, <2>4 DEF Proceed
  <2> QED
    BY <2>4, <2>5
<1>4. ASSUME NEW q \in Util, Become(q, proc[q]) \/ Become(q, Idle)
      PROVE  Become(p, Idle)
  <2>1. ~ Become(q, proc[q])
    BY <1>1 DEF Become
  <2> QED
    BY <1>2, <1>4, <2>1
<1>5. CASE \E q \in Util : Abort(q) \/ DeleteAnswerLost(q) \/ CreateAnswerLost(q)
  BY <1>4, <1>5 DEF Abort, DeleteAnswerLost, CreateAnswerLost
<1>6. CASE (\E k \in Key : StudentDeletes(k)) \/ UNCHANGED vars
  BY <1>6 DEF StudentDeletes, vars
<1> QED
  BY <1>3, <1>5, <1>6 DEF Next

\* What a step of a rotation does to its rank.
LEMMA ProceedRank ==
  ASSUME TypeOK, TypeOK', NEW p \in Util, Proceed(p)
  PROVE  Rank(p)' < Rank(p)
<1>0. proc \in [Util -> ProcStates]
  BY StateOf
<1> USE DEF Become
<1>1. CASE DeleteAtIam(p)
  BY <1>0, <1>1, RankIs, RankIsNext DEF DeleteAtIam, DeletesNext
<1>2. CASE DeleteRefused(p)
  <2>1. proc'[p].pc = "idle" /\ proc[p].pc = "rotating"
    BY <1>0, <1>2 DEF DeleteRefused, DeletesNext, Idle
  <2> QED
    BY <2>1, RankIs, RankIsNext
<1>3. CASE DeleteRow(p)
  <2>1. /\ proc[p].pc = "deleted" /\ proc'[p].pc = "rotating"
        /\ proc'[p].todo = Tail(proc[p].todo)
    BY <1>0, <1>3 DEF DeleteRow
  <2>2. proc[p].todo \in Seq(Key) /\ proc[p].todo # <<>>
    BY <2>1, StateOf
  <2>3. Len(Tail(proc[p].todo)) = Len(proc[p].todo) - 1 /\ Len(proc[p].todo) \in Nat
    BY <2>2, HeadTailProperties, LenProperties
  <2>4. Rank(p) = 2 * Len(proc[p].todo) + 1
    BY <2>1, RankIs
  <2>5. Rank(p)' = 2 * Len(Tail(proc[p].todo)) + 2
    BY <2>1, RankIsNext
  <2> QED
    BY <2>3, <2>4, <2>5
<1>4. CASE CreateAtIam(p)
  <2>1. proc'[p].pc = "created" /\ proc[p].pc = "rotating"
    BY <1>0, <1>4 DEF CreateAtIam, Creates
  <2> QED
    BY <2>1, RankIs, RankIsNext
<1>5. CASE InsertRow(p)
  <2>1. proc'[p].pc = "idle" /\ proc[p].pc = "created"
    BY <1>0, <1>5 DEF InsertRow, Idle
  <2> QED
    BY <2>1, RankIs, RankIsNext
<1> QED
  BY <1>1, <1>2, <1>3, <1>4, <1>5 DEF Proceed

\* Rotations do not grow, whatever others do meanwhile.
LEMMA RankStep ==
  ASSUME TypeOK, TypeOK', [Next]_vars
  PROVE  RankFalls
<1> SUFFICES ASSUME NEW p \in Util, Rank(p)' > Rank(p) PROVE Start(p)
  BY ProceedRank DEF RankFalls
<1>1. Rank(p) \in Nat
  BY RankIs
<1>2. CASE proc'[p] = proc[p]
  BY <1>1, <1>2 DEF Rank
<1>3. CASE Become(p, Idle)
  <2>1. proc'[p].pc = "idle"
    BY <1>3, StateOf, BecomeGets DEF Idle
  <2>2. Rank(p)' = 0
    BY <2>1, RankIsNext
  <2> QED
    BY <1>1, <2>2
<1>4. ~ Proceed(p)
  <2>1. ASSUME Proceed(p) PROVE FALSE
    <3>1. Rank(p)' < Rank(p)
      BY <2>1, ProceedRank
    <3>2. Rank(p)' \in Nat
      BY RankIsNext
    <3> QED
      BY <1>1, <3>1, <3>2
  <2> QED
    BY <2>1
<1> QED
  BY <1>2, <1>3, <1>4, OneMoves

\* A list is as long as the table was, at most.
LEMMA ListsFitStep ==
  ASSUME TypeOK, ListsFit, OneKeyPerProcess, [Next]_vars
  PROVE  ListsFit'
<1> SUFFICES ASSUME NEW p \in Util, proc'[p].pc \in {"rotating", "deleted"}
             PROVE  Len(proc'[p].todo) <= Cardinality(Util)
  BY DEF ListsFit
<1>0. proc \in [Util -> ProcStates] /\ Cardinality(Util) \in Nat
  BY StateOf, CredentialsAssumption, FS_CardinalityType
<1>1. CASE proc'[p] = proc[p]
  BY <1>1 DEF ListsFit
<1>2. CASE Start(p)
  <2>1. proc'[p].todo = rows
    BY <1>0, <1>2 DEF Start, Become, CachedKeys
  <2> QED
    BY <2>1 DEF OneKeyPerProcess
<1>3. CASE DeleteAtIam(p)
  BY <1>0, <1>3 DEF DeleteAtIam, DeletesNext, Become, ListsFit
<1>4. CASE DeleteRow(p)
  <2>1. proc[p].pc = "deleted" /\ proc'[p].todo = Tail(proc[p].todo)
    BY <1>0, <1>4 DEF DeleteRow, Become
  <2>2. proc[p].todo \in Seq(Key) /\ proc[p].todo # <<>>
    BY <2>1, StateOf
  <2>3. Len(Tail(proc[p].todo)) = Len(proc[p].todo) - 1 /\ Len(proc[p].todo) \in Nat
    BY <2>2, HeadTailProperties, LenProperties
  <2>4. Len(proc[p].todo) <= Cardinality(Util)
    BY <2>1 DEF ListsFit
  <2> QED
    BY <1>0, <2>1, <2>3, <2>4
<1>5. CASE CreateAtIam(p)
  BY <1>0, <1>5 DEF CreateAtIam, Become
<1>6. CASE Become(p, Idle) \/ DeleteRefused(p) \/ InsertRow(p)
  BY <1>0, <1>6 DEF DeleteRefused, InsertRow, Become, Idle
<1> QED
  BY <1>1, <1>2, <1>3, <1>4, <1>5, <1>6, OneMoves DEF Proceed

\* A rotation is at its end after two steps for each key it has found and two
\* for its own, and it has found at most one for each process that can run: with
\* weak fairness it ends, and nobody else's steps draw it out.
THEOREM RotationsAreShort == Spec => []RankBounded /\ [][RankFalls]_vars
<1>1. Init => ListsFit
  BY DEF Init, ListsFit, Idle
<1>2. TypeOK /\ ListsFit /\ OneKeyPerProcess /\ [Next]_vars => ListsFit'
  BY ListsFitStep
<1>3. TypeOK /\ ListsFit => RankBounded
  <2> SUFFICES ASSUME TypeOK, ListsFit, NEW p \in Util
               PROVE  Rank(p) \in 0 .. 2 * Cardinality(Util) + 2
    BY DEF RankBounded
  <2>1. Cardinality(Util) \in Nat
    BY CredentialsAssumption, FS_CardinalityType
  <2>2. proc[p].pc \in {"idle", "rotating", "deleted", "created"}
    BY StateOf
  <2>3. CASE proc[p].pc \in {"rotating", "deleted"}
    <3>1. Len(proc[p].todo) <= Cardinality(Util) /\ Len(proc[p].todo) \in Nat
      BY <2>3, RankIs DEF ListsFit
    <3>2. Rank(p) \in {2 * Len(proc[p].todo) + 1, 2 * Len(proc[p].todo) + 2}
      BY <2>3, RankIs
    <3> QED
      BY <2>1, <3>1, <3>2
  <2>4. CASE proc[p].pc \in {"idle", "created"}
    BY <2>1, <2>4, RankIs
  <2> QED
    BY <2>2, <2>3, <2>4
<1>4. TypeOK /\ TypeOK' /\ [Next]_vars => [RankFalls]_vars
  BY RankStep
<1> QED
  BY <1>1, <1>2, <1>3, <1>4, TypeCorrect, OneKeyPerProcessHolds, PTL DEF Spec
=============================================================================
