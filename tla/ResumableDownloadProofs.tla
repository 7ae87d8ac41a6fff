---------------------- MODULE ResumableDownloadProofs ----------------------
(***************************************************************************)
(* What a resumable download guarantees for contents of any size, any      *)
(* number of retries and of replacements of the object, and any number of  *)
(* processes that take it up one after the other.                          *)
(***************************************************************************)
EXTENDS ResumableDownload, TLAPS, SequenceTheorems

-----------------------------------------------------------------------------
(* The inductive invariant                                                 *)

Places == {"loop", "attempt", "save", "truncate", "get", "receive", "finish", "verify", "failed"}

Download == [pc : Places, mine : Content \cup {None}, etag : Content, size : Nat,
             tries : 0 .. num_retries, had : Nat, from : Nat, rest : Seq(Block),
             appends : BOOLEAN, hole : Nat]

Busy == dl \in Download

Harms == {"narrowed", "replaced", "silent", "torn", "hole", "unsaved"}

Types == /\ object \in Content /\ changes \in 0 .. MaxChanges
         /\ local \in Seq(Block) \cup {Gone}
         /\ tracker \in Content \cup {None} /\ got \in Seq(Block) \cup {None}
         /\ seen \subseteq Content
         /\ harm \subseteq Harms
         /\ dl = Idle \/ (Busy /\ local \in Seq(Block))

\* What the process has in memory of the tracker file is what is in it, but while it is
\* written, after it could not be written or has been removed, and if it names no MD5 sum.
TrackerIsMine ==
    Busy => \/ dl.pc \in {"save", "verify"} /\ tracker = None
            \/ dl.pc \notin {"save", "verify"} /\ tracker = dl.mine
            \/ dl.pc \notin {"save", "truncate", "verify"} /\ tracker = None /\ "unsaved" \in harm
            \/ dl.pc \in {"loop", "attempt", "failed"} /\ tracker = None /\ local = <<>>
            \/ dl.pc \in {"loop", "attempt"} /\ dl.mine = None

\* A transfer is of the content the tracker file names, unless the object was
\* replaced between two requests.
MineIsTheKeys ==
    Busy => /\ dl.pc \in {"save", "truncate", "get"} => dl.mine = dl.etag
            /\ dl.pc \in {"receive", "finish"} => dl.mine = dl.etag \/ "replaced" \in harm

\* A request is for what comes after the file; with nothing wrong, for all of it.
RequestFollowsFile ==
    Busy /\ At("get") => /\ dl.from = Len(local)
                         /\ harm = {} => dl.from = 0 \/ dl.size = Len(dl.etag)

Rest(s, r, c) == Len(s) + Len(r) <= Len(c) /\ \A n \in DOMAIN r : r[n] = c[Len(s) + n]

\* So is a response, unless there is a hole.
ResponseFollowsFile ==
    Busy /\ At("receive") =>
        /\ "hole" \notin harm => Rest(local, dl.rest, dl.etag)
        /\ harm = {} => Len(local) + Len(dl.rest) = Len(dl.etag)

\* A file that is taken for complete is complete, unless something is wrong.
FinishedIsComplete ==
    Busy /\ dl.pc \in {"finish", "verify"} /\ harm = {} => local = dl.etag

\* The key is of a content the object has had since the process began.
KeyIsSeen == Busy => object \in seen /\ dl.etag \in seen

IInv == /\ Types /\ TrackerIsMine /\ MineIsTheKeys /\ RequestFollowsFile
        /\ ResponseFollowsFile /\ FinishedIsComplete /\ KeyIsSeen
        /\ FileFollowsTracker

-----------------------------------------------------------------------------
(* Facts on the constants and on prefixes                                  *)

LEMMA ContentsAreData ==
    /\ Content \subseteq Seq(Block) /\ Junk \subseteq Seq(Block)
    /\ None \notin Seq(Block) /\ Gone \notin Seq(Block) /\ None # Gone
    /\ num_retries \in Nat /\ MaxChanges \in Nat
<1>1. /\ Content \cup Junk \subseteq Seq(Block) /\ "none" \notin Block /\ "gone" \notin Block
      /\ num_retries \in Nat /\ MaxChanges \in Nat
  BY DownloadAssumption
<1>2. None[1] = "none" /\ Len(None) = 1 /\ Gone[1] = "gone" /\ Len(Gone) = 1
  BY DEF None, Gone
<1>3. \A s \in Seq(Block) : Len(s) = 1 => s[1] \in Block
  BY ElementOfSeq
<1> QED  BY <1>1, <1>2, <1>3

\* Two sequences of the same length one of which is the beginning of the other.
LEMMA WholePrefix ==
    ASSUME NEW s \in Seq(Block), NEW c \in Seq(Block), Prefix(s, c), Len(s) = Len(c)
    PROVE  s = c
BY DEF Prefix

LEMMA EmptyPrefix ==
    ASSUME NEW c \in Seq(Block)
    PROVE  Prefix(<<>>, c)
BY DEF Prefix

\* A block of the response goes to its place in the content.
LEMMA OneMore ==
    ASSUME NEW s \in Seq(Block), NEW r \in Seq(Block), NEW c \in Seq(Block),
           r # <<>>, Rest(s, r, c)
    PROVE  /\ Append(s, Head(r)) \in Seq(Block) /\ Tail(r) \in Seq(Block)
           /\ Len(Append(s, Head(r))) = Len(s) + 1 /\ Len(Tail(r)) = Len(r) - 1
           /\ Rest(Append(s, Head(r)), Tail(r), c)
           /\ Prefix(s, c) => Prefix(Append(s, Head(r)), c)
<1> DEFINE t == Append(s, Head(r))
           q == Tail(r)
<1>1. /\ Len(s) \in Nat /\ Len(r) \in Nat /\ Len(c) \in Nat /\ Len(r) >= 1
      /\ Head(r) = r[1] /\ Head(r) \in Block
  OBVIOUS
<1>2. t \in Seq(Block) /\ Len(t) = Len(s) + 1 /\ t[Len(s) + 1] = r[1]
      /\ \A n \in 1 .. Len(s) : t[n] = s[n]
  BY <1>1
<1>3. q \in Seq(Block) /\ Len(q) = Len(r) - 1 /\ \A n \in 1 .. Len(q) : q[n] = r[n + 1]
  BY <1>1
<1>4. Len(s) + Len(r) <= Len(c) /\ \A n \in 1 .. Len(r) : r[n] = c[Len(s) + n]
  BY DEF Rest
<1>5. DOMAIN q = 1 .. Len(q) /\ DOMAIN t = 1 .. Len(t) /\ DOMAIN s = 1 .. Len(s)
  BY <1>2, <1>3
<1> HIDE DEF t, q
<1>6. \A n \in 1 .. Len(q) : n + 1 \in 1 .. Len(r) /\ Len(s) + (n + 1) = Len(t) + n
  BY <1>1, <1>2, <1>3
<1>7. \A n \in 1 .. Len(q) : q[n] = c[Len(t) + n]
  BY <1>3, <1>4, <1>6
<1>8. Rest(t, q, c)
  BY <1>1, <1>2, <1>3, <1>4, <1>5, <1>7 DEF Rest
<1>9. ASSUME Prefix(s, c)
      PROVE  Prefix(t, c)
  <2>1. \A n \in 1 .. Len(s) : t[n] = c[n]
    BY <1>2, <1>5, <1>9 DEF Prefix
  <2>2. t[Len(s) + 1] = c[Len(s) + 1]
    BY <1>1, <1>2, <1>4
  <2>n. \A n \in 1 .. Len(t) : n \in 1 .. Len(s) \/ n = Len(s) + 1
    BY <1>1, <1>2
  <2>3. \A n \in 1 .. Len(t) : t[n] = c[n]
    BY <2>n, <2>1, <2>2
  <2>4. Len(t) <= Len(c)
    BY <1>1, <1>2, <1>4
  <2> QED  BY <1>5, <2>3, <2>4 DEF Prefix
<1> QED  BY <1>2, <1>3, <1>8, <1>9 DEF t, q

\* The part of the object from a place to another.
LEMMA PartFollows ==
    ASSUME NEW c \in Seq(Block), NEW s \in Seq(Block), NEW m \in Nat,
           Len(s) <= m, m <= Len(c)
    PROVE  /\ SubSeq(c, Len(s) + 1, m) \in Seq(Block)
           /\ Len(SubSeq(c, Len(s) + 1, m)) = m - Len(s)
           /\ Rest(s, SubSeq(c, Len(s) + 1, m), c)
<1> DEFINE r == SubSeq(c, Len(s) + 1, m)
<1>1. Len(s) \in Nat /\ Len(c) \in Nat
  OBVIOUS
<1>2. /\ r \in Seq(Block) /\ Len(r) = m - Len(s)
      /\ \A n \in 1 .. m - Len(s) : r[n] = c[Len(s) + n]
  <2>1. /\ \A i \in Len(s) + 1 .. m : c[i] \in Block
    BY <1>1
  <2>2. r = [i \in 1 .. m - Len(s) |-> c[Len(s) + i]]
    BY <1>1
  <2>3. \A i \in 1 .. m - Len(s) : c[Len(s) + i] \in Block
    BY <1>1, <2>1
  <2> QED  BY <1>1, <2>2, <2>3
<1>3. DOMAIN r = 1 .. m - Len(s)
  BY <1>2
<1> HIDE DEF r
<1>4. Rest(s, r, c)
  BY <1>1, <1>2, <1>3 DEF Rest
<1> QED  BY <1>2, <1>4 DEF r

-----------------------------------------------------------------------------
(* The steps                                                               *)

LEMMA InitIInv == Init => IInv
BY ContentsAreData DEF Init, IInv, Types, Busy, Download, Places, Idle, TrackerIsMine, At,
    MineIsTheKeys, RequestFollowsFile, ResponseFollowsFile, FinishedIsComplete, KeyIsSeen,
    FileFollowsTracker

\* An idle process is none of the others.
LEMMA IdleIsNotBusy == Idle \notin Download /\ Idle.pc = "idle"
BY DEF Idle, Download, Places

\* The process is gone, and the files are as they were.
LEMMA IdleInv ==
    ASSUME IInv, Busy, dl' = Idle, UNCHANGED <<object, changes, local, tracker, seen>>,
           got' = got \/ got' = local,
           harm \subseteq harm', harm' \subseteq Harms,
           At("truncate") => local = <<>> \/ "torn" \in harm'
    PROVE  IInv'
<1>1. ~Busy'
  BY IdleIsNotBusy DEF Busy
<1>t. local \in Seq(Block)
  BY IdleIsNotBusy DEF Busy, IInv, Types
<1>2. Types'
  BY <1>t DEF IInv, Types
<1>3. FileFollowsTracker'
  <2>1. local = <<>> /\ tracker \in Content => Prefix(local, tracker)
    BY ContentsAreData, EmptyPrefix
  <2>2. tracker \in Content \cup {None}
    BY DEF IInv, Types
  <2>3. FileFollowsTracker
    BY DEF IInv
  <2> QED  BY <2>1, <2>2, <2>3 DEF FileFollowsTracker, Prefix, At
<1> QED  BY <1>1, <1>2, <1>3 DEF IInv, TrackerIsMine, MineIsTheKeys, RequestFollowsFile,
            ResponseFollowsFile, FinishedIsComplete, KeyIsSeen

\* A process that is not idle has all its fields.
LEMMA BusyFields ==
    ASSUME IInv, ~At("idle")
    PROVE  /\ Busy /\ local \in Seq(Block) /\ local # Gone
           /\ dl.mine \in Content \cup {None} /\ dl.etag \in Content /\ dl.size \in Nat
           /\ dl.tries \in 0 .. num_retries /\ dl.had \in Nat /\ dl.from \in Nat
           /\ dl.rest \in Seq(Block) /\ dl.pc \in Places /\ dl.hole \in Nat
<1>1. dl # Idle
  BY IdleIsNotBusy DEF At
<1>2. dl \in Download /\ local \in Seq(Block)
  BY <1>1 DEF IInv, Types, Busy, Harms
<1> QED  BY <1>2, ContentsAreData DEF Download, Busy

\* The process goes on to another place where nothing is claimed of the file.
LEMMA GoesInv ==
    ASSUME IInv, ~At("idle"), dl.pc \notin {"save", "truncate", "verify"},
           UNCHANGED <<object, changes, local, tracker, seen, got, harm>>,
           dl' \in Download, dl'.pc \in {"loop", "attempt", "failed"},
           dl'.pc = "failed" => dl.pc \in {"get", "receive"},
           dl'.mine = dl.mine, dl'.etag = dl.etag
    PROVE  IInv'
<1>1. Busy /\ local \in Seq(Block)
  BY BusyFields
<1>2. Types' /\ KeyIsSeen'
  BY <1>1 DEF IInv, Types, Busy, Harms, KeyIsSeen
<1>3. FileFollowsTracker'
  BY DEF IInv, FileFollowsTracker, Prefix, At
<1>4. TrackerIsMine'
  BY <1>1 DEF IInv, TrackerIsMine, At
<1> QED  BY <1>2, <1>3, <1>4 DEF IInv, MineIsTheKeys, RequestFollowsFile,
            ResponseFollowsFile, FinishedIsComplete, At

LEMMA BeginInv == IInv /\ Begin => IInv'
<1> SUFFICES ASSUME IInv, Begin  PROVE IInv'
  OBVIOUS
<1>1. dl = Idle
  <2>1. Busy => ~At("idle")
    BY DEF Busy, Download, Places, At
  <2> QED  BY <2>1 DEF IInv, Types, Begin
<1>2. /\ object \in Content /\ local \in Seq(Block) \cup {Gone}
      /\ tracker \in Content \cup {None} /\ object \in Seq(Block)
      /\ got \in Seq(Block) \cup {None}
  BY ContentsAreData DEF IInv, Types
<1>3. PICK mode \in {"a", "w", "r+"} :
         /\ local' = IF mode = "w" \/ local = Gone THEN <<>> ELSE local
         /\ dl' = [pc |-> "loop", mine |-> IF tracker \in Multipart THEN None ELSE tracker,
                   etag |-> object, size |-> Len(object), tries |-> 0, had |-> 0,
                   from |-> 0, rest |-> <<>>, appends |-> mode = "a", hole |-> 0]
  BY DEF Begin
<1>e. /\ got' = None /\ seen' = {object} /\ UNCHANGED <<object, changes, tracker>>
      /\ harm' = IF local' = <<>> THEN {} ELSE harm
  BY DEF Begin
<1>4. local' \in Seq(Block)
  BY <1>2, <1>3
<1>5. 0 \in 0 .. num_retries /\ Len(object) \in Nat
  BY <1>2, ContentsAreData
<1>6. dl' \in Download
  <2>1. (IF tracker \in Multipart THEN None ELSE tracker) \in Content \cup {None}
    BY <1>2
  <2>2. (mode = "a") \in BOOLEAN /\ <<>> \in Seq(Block) /\ "loop" \in Places
    BY DEF Places
  <2> QED  BY <1>2, <1>3, <1>5, <2>1, <2>2 DEF Download
<1>7. Types'
  BY <1>2, <1>3, <1>e, <1>4, <1>6 DEF IInv, Types, Busy, Harms
<1>8. dl'.pc = "loop" /\ dl'.mine \in {tracker, None} /\ dl'.etag = object
  BY <1>3
<1>9. TrackerIsMine' /\ KeyIsSeen'
  BY <1>e, <1>8 DEF TrackerIsMine, KeyIsSeen
<1>10. FileFollowsTracker'
  <2>1. FileFollowsTracker /\ ~At("truncate")
    BY <1>1, IdleIsNotBusy DEF IInv, At
  <2>2. local' = <<>> /\ tracker \in Content => Prefix(local', tracker)
    BY ContentsAreData, EmptyPrefix
  <2>3. local' = local \/ local' = <<>>
    BY <1>3
  <2>4. CASE local' = <<>>
    BY <1>2, <1>e, <2>2, <2>4 DEF FileFollowsTracker
  <2>5. CASE local' = local /\ local' # <<>>
    BY <1>e, <2>1, <2>5 DEF FileFollowsTracker
  <2> QED  BY <2>3, <2>4, <2>5
<1> QED  BY <1>7, <1>8, <1>9, <1>10 DEF IInv, MineIsTheKeys, RequestFollowsFile,
            ResponseFollowsFile, FinishedIsComplete, At

\* The file has what its tracker file says, if that could be written, and the key is of
\* that content.
LEMMA ResumesPrefix ==
    ASSUME IInv, At("attempt"), Resumes
    PROVE  /\ Busy /\ dl.mine = dl.etag
           /\ tracker = dl.etag \/ (tracker = None /\ "unsaved" \in harm)
           /\ harm \cap {"replaced", "torn", "hole", "unsaved"} = {} => Prefix(local, dl.etag)
<1>1. Busy /\ dl.etag \in Content
  BY BusyFields DEF At
<1>2. /\ tracker = dl.mine \/ (tracker = None /\ "unsaved" \in harm)
      /\ dl.mine = dl.etag
  BY <1>1 DEF IInv, TrackerIsMine, At, Resumes
<1>3. dl.etag # None
  BY <1>1, ContentsAreData
<1> QED  BY <1>1, <1>2, <1>3 DEF IInv, FileFollowsTracker, At

LEMMA CompleteInv == IInv /\ Complete => IInv'
<1> SUFFICES ASSUME IInv, Complete  PROVE IInv'
  OBVIOUS
<1>1. /\ Busy /\ dl.mine = dl.etag
      /\ tracker = dl.etag \/ (tracker = None /\ "unsaved" \in harm)
      /\ harm \cap {"replaced", "torn", "hole", "unsaved"} = {} => Prefix(local, dl.etag)
  BY ResumesPrefix DEF Complete
<1>2. local \in Seq(Block) /\ dl.etag \in Content /\ dl.etag \in Seq(Block)
  BY BusyFields, ContentsAreData DEF Complete, At
<1>3. /\ Len(local) = dl.size /\ dl' = [dl EXCEPT !.pc = "finish"]
      /\ harm' = harm \cup Narrowed
      /\ UNCHANGED <<object, changes, local, tracker, got, seen>>
  BY DEF Complete, disk
<1>4. dl' \in Download /\ dl'.pc = "finish" /\ dl'.mine = dl.mine /\ dl'.etag = dl.etag
  BY <1>1, <1>3 DEF Busy, Download, Places
<1>5. Narrowed \subseteq {"narrowed"} /\ (Narrowed = {} => dl.size = Len(dl.etag))
  BY DEF Narrowed
<1>6. Types' /\ KeyIsSeen'
  BY <1>1, <1>2, <1>3, <1>4, <1>5 DEF IInv, Types, Busy, Harms, KeyIsSeen
<1>7. FileFollowsTracker'
  <2>1. FileFollowsTracker /\ ~At("truncate")
    BY DEF IInv, Complete, At
  <2> QED  BY <1>3, <2>1 DEF FileFollowsTracker, Prefix
<1>8. FinishedIsComplete'
  <2>1. harm' = {} => local = dl.etag
    BY <1>1, <1>2, <1>3, <1>5, WholePrefix
  <2> QED  BY <1>3, <1>4, <2>1 DEF FinishedIsComplete
<1>9. TrackerIsMine' /\ MineIsTheKeys'
  BY <1>1, <1>3, <1>4 DEF TrackerIsMine, MineIsTheKeys, At
<1> QED  BY <1>4, <1>6, <1>7, <1>8, <1>9 DEF IInv, RequestFollowsFile, ResponseFollowsFile, At

LEMMA ResumeInv == IInv /\ Resume => IInv'
<1> SUFFICES ASSUME IInv, Resume  PROVE IInv'
  OBVIOUS
<1>1. /\ Busy /\ dl.mine = dl.etag
      /\ tracker = dl.etag \/ (tracker = None /\ "unsaved" \in harm)
      /\ harm \cap {"replaced", "torn", "hole", "unsaved"} = {} => Prefix(local, dl.etag)
  BY ResumesPrefix DEF Resume
<1>2. local \in Seq(Block) /\ Len(local) \in Nat
  BY BusyFields DEF Resume, At
<1>3. /\ dl' = [dl EXCEPT !.pc = "get", !.from = Len(local)]
      /\ harm' = harm \cup Narrowed
      /\ UNCHANGED <<object, changes, local, tracker, got, seen>>
  BY DEF Resume, disk
<1>4. /\ dl' \in Download /\ dl'.pc = "get" /\ dl'.mine = dl.mine /\ dl'.etag = dl.etag
      /\ dl'.from = Len(local) /\ dl'.size = dl.size
  BY <1>1, <1>2, <1>3 DEF Busy, Download, Places
<1>5. Narrowed \subseteq {"narrowed"} /\ (Narrowed = {} => dl.size = Len(dl.etag))
  BY DEF Narrowed
<1>6. Types' /\ KeyIsSeen'
  BY <1>1, <1>2, <1>3, <1>4, <1>5 DEF IInv, Types, Busy, Harms, KeyIsSeen
<1>7. FileFollowsTracker'
  <2>1. FileFollowsTracker /\ ~At("truncate")
    BY DEF IInv, Resume, At
  <2> QED  BY <1>3, <2>1 DEF FileFollowsTracker, Prefix
<1>8. RequestFollowsFile'
  BY <1>3, <1>4, <1>5 DEF RequestFollowsFile
<1>9. TrackerIsMine' /\ MineIsTheKeys'
  BY <1>1, <1>3, <1>4 DEF TrackerIsMine, MineIsTheKeys, At
<1> QED  BY <1>4, <1>6, <1>7, <1>8, <1>9 DEF IInv, FinishedIsComplete, ResponseFollowsFile, At

LEMMA OpenTrackerInv == IInv /\ OpenTracker => IInv'
<1> SUFFICES ASSUME IInv, OpenTracker  PROVE IInv'
  OBVIOUS
<1>1. Busy /\ local \in Seq(Block) /\ dl.etag \in Content
  BY BusyFields DEF OpenTracker, At
<1>2. /\ tracker' = None /\ dl' = [dl EXCEPT !.pc = "save", !.mine = dl.etag]
      /\ UNCHANGED <<object, changes, local, got, seen, harm>>
  BY DEF OpenTracker, past
<1>3. dl' \in Download /\ dl'.pc = "save" /\ dl'.mine = dl.etag /\ dl'.etag = dl.etag
  BY <1>1, <1>2 DEF Busy, Download, Places
<1>4. Types' /\ KeyIsSeen'
  BY <1>1, <1>2, <1>3 DEF IInv, Types, Busy, Harms, KeyIsSeen
<1>5. FileFollowsTracker' /\ TrackerIsMine' /\ MineIsTheKeys'
  BY <1>2, <1>3 DEF FileFollowsTracker, TrackerIsMine, MineIsTheKeys, At
<1> QED  BY <1>3, <1>4, <1>5 DEF IInv, RequestFollowsFile, FinishedIsComplete,
            ResponseFollowsFile, At

LEMMA SaveTrackerInv == IInv /\ SaveTracker => IInv'
<1> SUFFICES ASSUME IInv, SaveTracker  PROVE IInv'
  OBVIOUS
<1>1. Busy /\ local \in Seq(Block) /\ dl.mine \in Content \cup {None} /\ dl.mine = dl.etag
  BY BusyFields DEF SaveTracker, At, IInv, MineIsTheKeys
<1>2. /\ tracker' = dl.mine /\ dl' = [dl EXCEPT !.pc = "truncate"]
      /\ UNCHANGED <<object, changes, local, got, seen, harm>>
  BY DEF SaveTracker, past
<1>3. dl' \in Download /\ dl'.pc = "truncate" /\ dl'.mine = dl.mine /\ dl'.etag = dl.etag
  BY <1>1, <1>2 DEF Busy, Download, Places
<1>4. Types' /\ KeyIsSeen'
  BY <1>1, <1>2, <1>3 DEF IInv, Types, Busy, Harms, KeyIsSeen
<1>5. FileFollowsTracker' /\ TrackerIsMine' /\ MineIsTheKeys'
  BY <1>1, <1>2, <1>3 DEF FileFollowsTracker, TrackerIsMine, MineIsTheKeys, At
<1> QED  BY <1>3, <1>4, <1>5 DEF IInv, RequestFollowsFile, FinishedIsComplete,
            ResponseFollowsFile, At

LEMMA SaveFailsInv == IInv /\ SaveFails => IInv'
<1> SUFFICES ASSUME IInv, SaveFails  PROVE IInv'
  OBVIOUS
<1>1. Busy /\ local \in Seq(Block) /\ tracker = None
  BY BusyFields DEF SaveFails, At, IInv, TrackerIsMine
<1>2. /\ dl' = [dl EXCEPT !.pc = "failed"]
      /\ harm' = harm \cup (IF local # <<>> THEN {"unsaved"} ELSE {})
      /\ UNCHANGED <<object, changes, local, tracker, got, seen>>
  BY DEF SaveFails, disk
<1>3. dl' \in Download /\ dl'.pc = "failed" /\ dl'.mine = dl.mine /\ dl'.etag = dl.etag
  BY <1>1, <1>2 DEF Busy, Download, Places
<1>4. Types' /\ KeyIsSeen'
  BY <1>1, <1>2, <1>3 DEF IInv, Types, Busy, Harms, KeyIsSeen
<1>5. FileFollowsTracker' /\ TrackerIsMine' /\ MineIsTheKeys'
  BY <1>1, <1>2, <1>3 DEF FileFollowsTracker, TrackerIsMine, MineIsTheKeys
<1> QED  BY <1>3, <1>4, <1>5 DEF IInv, RequestFollowsFile, FinishedIsComplete,
            ResponseFollowsFile, At

LEMMA TruncateInv == IInv /\ Truncate => IInv'
<1> SUFFICES ASSUME IInv, Truncate  PROVE IInv'
  OBVIOUS
<1>1. Busy /\ dl.etag \in Content /\ dl.mine = dl.etag /\ tracker = dl.mine
      /\ (IF dl.appends THEN 0 ELSE Len(local)) \in Nat
  BY BusyFields DEF Truncate, At, IInv, MineIsTheKeys, TrackerIsMine
<1>2. /\ local' = <<>> /\ harm' = {}
      /\ dl' = [dl EXCEPT !.pc = "get", !.from = 0,
                          !.hole = IF dl.appends THEN 0 ELSE Len(local)]
      /\ UNCHANGED <<object, changes, tracker, got, seen>>
  BY DEF Truncate
<1>3. /\ dl' \in Download /\ dl'.pc = "get" /\ dl'.mine = dl.mine /\ dl'.etag = dl.etag
      /\ dl'.from = 0
  BY <1>1, <1>2 DEF Busy, Download, Places
<1>4. local' \in Seq(Block) /\ Len(local') = 0
  BY <1>2
<1>n. local' # Gone
  BY <1>4, ContentsAreData
<1>5. Types' /\ KeyIsSeen'
  BY <1>1, <1>2, <1>3, <1>4, <1>n DEF IInv, Types, Busy, Harms, KeyIsSeen
<1>6. FileFollowsTracker'
  <2>1. Prefix(<<>>, tracker)
    BY <1>1, ContentsAreData, EmptyPrefix
  <2> QED  BY <1>2, <2>1 DEF FileFollowsTracker
<1>7. TrackerIsMine' /\ MineIsTheKeys' /\ RequestFollowsFile'
  BY <1>1, <1>2, <1>3, <1>4 DEF TrackerIsMine, MineIsTheKeys, RequestFollowsFile, At
<1> QED  BY <1>3, <1>5, <1>6, <1>7 DEF IInv, FinishedIsComplete, ResponseFollowsFile, At

\* A response is of the object as it is now, and begins where the file ends.
LEMMA GetInv == IInv /\ Get => IInv'
<1> SUFFICES ASSUME IInv, Get  PROVE IInv'
  OBVIOUS
<1>1. /\ Busy /\ local \in Seq(Block) /\ dl.etag \in Content /\ dl.size \in Nat
      /\ dl.from = Len(local) /\ dl.mine = dl.etag
      /\ tracker = dl.mine \/ (tracker = None /\ "unsaved" \in harm)
      /\ harm = {} => dl.from = 0 \/ dl.size = Len(dl.etag)
  BY BusyFields DEF Get, At, IInv, MineIsTheKeys, TrackerIsMine, RequestFollowsFile
<1>2. object \in Content /\ object \in Seq(Block) /\ Len(object) \in Nat /\ Len(local) \in Nat
  BY <1>1, ContentsAreData DEF IInv, Types
<1> DEFINE part == SubSeq(object, Len(local) + 1, Until)
<1>3. /\ dl.from = 0 \/ dl.from < Until
      /\ dl' = [dl EXCEPT !.pc = "receive", !.etag = object, !.size = Until - dl.from,
                          !.rest = part]
      /\ harm' = harm \cup (IF object # dl.etag THEN {"replaced"} ELSE {})
      /\ UNCHANGED <<object, changes, local, tracker, got, seen>>
  BY <1>1 DEF Get, disk
<1>4. /\ Until \in Nat /\ Until <= Len(object)
      /\ dl.from = 0 \/ dl.size = Len(object) => Until = Len(object)
      /\ dl.from <= Until
  BY <1>1, <1>2, <1>3 DEF Until
<1>5. part \in Seq(Block) /\ Len(part) = Until - Len(local) /\ Rest(local, part, object)
  BY <1>1, <1>2, <1>3, <1>4, PartFollows
<1> HIDE DEF part
<1>6. Until - dl.from \in Nat
  BY <1>1, <1>2, <1>3, <1>4
<1>7. /\ dl' \in Download /\ dl'.pc = "receive" /\ dl'.mine = dl.mine /\ dl'.etag = object
      /\ dl'.rest = part
  BY <1>1, <1>2, <1>3, <1>5, <1>6 DEF Busy, Download, Places
<1>8. Types'
  BY <1>1, <1>2, <1>3, <1>7 DEF IInv, Types, Busy, Harms
<1>9. KeyIsSeen'
  BY <1>1, <1>3, <1>7 DEF IInv, KeyIsSeen
<1>10. FileFollowsTracker'
  BY <1>1, <1>3 DEF IInv, FileFollowsTracker, Prefix, At, Get
<1>11. TrackerIsMine' /\ MineIsTheKeys'
  BY <1>1, <1>3, <1>7 DEF TrackerIsMine, MineIsTheKeys, At
<1>12. harm' = {} => Len(local) + Len(part) = Len(object)
  <2>1. harm' = {} => harm = {} /\ object = dl.etag
    BY <1>3
  <2>2. harm' = {} => Until = Len(object)
    BY <1>1, <1>4, <2>1
  <2> QED  BY <1>2, <1>5, <2>2
<1>13. ResponseFollowsFile'
  BY <1>3, <1>5, <1>7, <1>12 DEF ResponseFollowsFile
<1> QED  BY <1>7, <1>8, <1>9, <1>10, <1>11, <1>13 DEF IInv, FinishedIsComplete,
            RequestFollowsFile, At

\* What the first block is written after.
LEMMA AfterTheHole ==
    ASSUME dl.hole \in Nat, local \in Seq(Block)
    PROVE  /\ local \o Hole \in Seq(Block) /\ Len(local \o Hole) = Len(local) + dl.hole
           /\ dl.hole = 0 => local \o Hole = local
<1>1. Zero \in Block
  BY DEF Block
<1>2. Hole \in Seq(Block) /\ Len(Hole) = dl.hole
  BY <1>1 DEF Hole
<1> QED  BY <1>2

LEMMA ReceiveInv == IInv /\ Receive => IInv'
<1> SUFFICES ASSUME IInv, Receive  PROVE IInv'
  OBVIOUS
<1>1. /\ Busy /\ local \in Seq(Block) /\ dl.etag \in Content /\ dl.rest \in Seq(Block)
      /\ tracker = dl.mine \/ (tracker = None /\ "unsaved" \in harm)
      /\ dl.mine = dl.etag \/ "replaced" \in harm
      /\ "hole" \notin harm => Rest(local, dl.rest, dl.etag)
      /\ harm = {} => Len(local) + Len(dl.rest) = Len(dl.etag)
      /\ dl.hole \in Nat
  BY BusyFields DEF Receive, At, IInv, MineIsTheKeys, TrackerIsMine, ResponseFollowsFile
<1>2. /\ dl.rest # <<>> /\ local' = Append(local \o Hole, Head(dl.rest))
      /\ dl' = [dl EXCEPT !.rest = Tail(@), !.hole = 0]
      /\ harm' = harm \cup (IF dl.hole > 0 THEN {"hole"} ELSE {})
      /\ UNCHANGED <<object, changes, tracker, got, seen>>
  BY DEF Receive
<1>3. dl.etag \in Seq(Block) /\ Len(local) \in Nat /\ Len(dl.rest) \in Nat
  BY <1>1, ContentsAreData
<1>4. local' \in Seq(Block) /\ Tail(dl.rest) \in Seq(Block)
  BY <1>1, <1>2, AfterTheHole
<1>5. /\ dl' \in Download /\ dl'.pc = "receive" /\ dl'.mine = dl.mine /\ dl'.etag = dl.etag
      /\ dl'.rest = Tail(dl.rest)
  <2>1. dl.pc = "receive" /\ 0 \in Nat
    BY DEF Receive, At
  <2> QED  BY <1>1, <1>2, <1>4, <2>1 DEF Busy, Download
<1>6. Types' /\ KeyIsSeen'
  BY <1>1, <1>2, <1>4, <1>5 DEF IInv, Types, Busy, Harms, KeyIsSeen
<1>7. TrackerIsMine' /\ MineIsTheKeys'
  BY <1>1, <1>2, <1>5 DEF TrackerIsMine, MineIsTheKeys
<1>8. CASE "hole" \in harm'
  BY <1>5, <1>6, <1>7, <1>8 DEF IInv, FileFollowsTracker, ResponseFollowsFile,
     FinishedIsComplete, RequestFollowsFile, At
<1>9. CASE "hole" \notin harm'
  <2>1. dl.hole = 0 /\ harm' = harm /\ local' = Append(local, Head(dl.rest))
    BY <1>1, <1>2, <1>9, AfterTheHole
  <2>2. /\ Len(local') = Len(local) + 1 /\ Len(dl'.rest) = Len(dl.rest) - 1
        /\ Rest(local', dl'.rest, dl.etag)
        /\ Prefix(local, dl.etag) => Prefix(local', dl.etag)
    <3>1. Rest(local, dl.rest, dl.etag) /\ dl'.rest = Tail(dl.rest)
      BY <1>1, <1>5, <1>9, <2>1
    <3>2. /\ Len(Append(local, Head(dl.rest))) = Len(local) + 1
          /\ Len(Tail(dl.rest)) = Len(dl.rest) - 1
          /\ Rest(Append(local, Head(dl.rest)), Tail(dl.rest), dl.etag)
          /\ Prefix(local, dl.etag) => Prefix(Append(local, Head(dl.rest)), dl.etag)
      BY <1>1, <1>2, <1>3, <3>1, OneMore
    <3> QED  BY <2>1, <3>1, <3>2, Zenon
  <2>3. FileFollowsTracker'
    <3>1. FileFollowsTracker /\ ~At("truncate")
      BY DEF IInv, Receive, At
    <3> QED  BY <1>1, <1>2, <2>1, <2>2, <3>1 DEF FileFollowsTracker
  <2>4. harm' = {} => Len(local') + Len(dl'.rest) = Len(dl.etag)
    <3> DEFINE l == Len(local)
               r == Len(dl.rest)
    <3>1. l \in Nat /\ r \in Nat /\ (harm = {} => l + r = Len(dl.etag))
      BY <1>1, <1>3
    <3> HIDE DEF l, r
    <3>2. (l + 1) + (r - 1) = l + r
      BY <3>1
    <3> USE DEF l, r
    <3> QED  BY <2>1, <2>2, <3>1, <3>2, Zenon
  <2>5. ResponseFollowsFile'
    BY <1>5, <2>2, <2>4 DEF ResponseFollowsFile
  <2> QED  BY <1>5, <1>6, <1>7, <2>3, <2>5 DEF IInv, FinishedIsComplete, RequestFollowsFile, At
<1> QED  BY <1>8, <1>9

LEMMA CutSilentlyInv == IInv /\ CutSilently => IInv'
<1> SUFFICES ASSUME IInv, CutSilently  PROVE IInv'
  OBVIOUS
<1>1. /\ Busy /\ local \in Seq(Block) /\ dl.etag \in Content /\ dl.rest \in Seq(Block)
      /\ tracker = dl.mine \/ (tracker = None /\ "unsaved" \in harm)
      /\ dl.mine = dl.etag \/ "replaced" \in harm
      /\ "hole" \notin harm => Rest(local, dl.rest, dl.etag)
  BY BusyFields DEF CutSilently, At, IInv, MineIsTheKeys, TrackerIsMine, ResponseFollowsFile
<1>2. /\ dl' = [dl EXCEPT !.rest = <<>>] /\ harm' = harm \cup {"silent"}
      /\ UNCHANGED <<object, changes, local, tracker, got, seen>>
  BY DEF CutSilently, disk
<1>3. /\ dl' \in Download /\ dl'.pc = "receive" /\ dl'.mine = dl.mine /\ dl'.etag = dl.etag
      /\ dl'.rest = <<>>
  <2>1. dl.pc = "receive" /\ <<>> \in Seq(Block)
    BY DEF CutSilently, At
  <2> QED  BY <1>1, <1>2, <2>1 DEF Busy, Download
<1>4. "hole" \notin harm => Rest(local, <<>>, dl.etag)
  <2>1. Len(local) \in Nat /\ Len(dl.rest) \in Nat /\ Len(dl.etag) \in Nat
    BY <1>1, ContentsAreData
  <2> QED  BY <1>1, <2>1 DEF Rest
<1>5. Types' /\ KeyIsSeen'
  BY <1>1, <1>2, <1>3 DEF IInv, Types, Busy, Harms, KeyIsSeen
<1>6. FileFollowsTracker'
  BY <1>1, <1>2 DEF IInv, FileFollowsTracker, Prefix, At, CutSilently
<1>7. TrackerIsMine' /\ MineIsTheKeys' /\ ResponseFollowsFile'
  BY <1>1, <1>2, <1>3, <1>4 DEF TrackerIsMine, MineIsTheKeys, ResponseFollowsFile, At
<1> QED  BY <1>3, <1>5, <1>6, <1>7 DEF IInv, FinishedIsComplete, RequestFollowsFile, At

\* A response that was received to its end has completed the file, unless
\* something is wrong.
LEMMA ReceivedInv == IInv /\ Received => IInv'
<1> SUFFICES ASSUME IInv, Received  PROVE IInv'
  OBVIOUS
<1>1. /\ Busy /\ local \in Seq(Block) /\ dl.etag \in Content
      /\ tracker = dl.mine \/ (tracker = None /\ "unsaved" \in harm)
      /\ dl.mine = dl.etag \/ "replaced" \in harm
      /\ harm = {} => Len(local) + Len(dl.rest) = Len(dl.etag)
  BY BusyFields DEF Received, At, IInv, MineIsTheKeys, TrackerIsMine, ResponseFollowsFile
<1>2. /\ dl.rest = <<>> /\ dl' = [dl EXCEPT !.pc = "finish"]
      /\ UNCHANGED <<object, changes, local, tracker, got, seen, harm>>
  BY DEF Received, Goes, disk, past
<1>3. dl' \in Download /\ dl'.pc = "finish" /\ dl'.mine = dl.mine /\ dl'.etag = dl.etag
  BY <1>1, <1>2 DEF Busy, Download, Places
<1>4. Types' /\ KeyIsSeen'
  BY <1>1, <1>2, <1>3 DEF IInv, Types, Busy, Harms, KeyIsSeen
<1>5. FileFollowsTracker'
  BY <1>1, <1>2 DEF IInv, FileFollowsTracker, Prefix, At, Received
<1>6. harm = {} => local = dl.etag
  <2>1. dl.etag \in Seq(Block) /\ dl.etag # None /\ Len(local) \in Nat /\ Len(dl.rest) = 0
    BY <1>1, <1>2, ContentsAreData
  <2>2. harm = {} => tracker = dl.etag /\ Len(local) = Len(dl.etag)
    BY <1>1, <2>1
  <2>3. harm = {} => Prefix(local, dl.etag)
    BY <1>1, <2>1, <2>2 DEF IInv, FileFollowsTracker, At, Received
  <2> QED  BY <1>1, <2>1, <2>2, <2>3, WholePrefix
<1>7. TrackerIsMine' /\ MineIsTheKeys' /\ FinishedIsComplete'
  BY <1>1, <1>2, <1>3, <1>6 DEF TrackerIsMine, MineIsTheKeys, FinishedIsComplete, At
<1> QED  BY <1>3, <1>4, <1>5, <1>7 DEF IInv, ResponseFollowsFile, RequestFollowsFile, At

LEMMA RemoveTrackerInv == IInv /\ RemoveTracker => IInv'
<1> SUFFICES ASSUME IInv, RemoveTracker  PROVE IInv'
  OBVIOUS
<1>1. Busy /\ local \in Seq(Block) /\ (harm = {} => local = dl.etag)
  BY BusyFields DEF RemoveTracker, At, IInv, FinishedIsComplete
<1>2. /\ tracker' = None /\ dl' = [dl EXCEPT !.pc = "verify"]
      /\ UNCHANGED <<object, changes, local, got, seen, harm>>
  BY DEF RemoveTracker, past
<1>3. dl' \in Download /\ dl'.pc = "verify" /\ dl'.mine = dl.mine /\ dl'.etag = dl.etag
  BY <1>1, <1>2 DEF Busy, Download, Places
<1>4. Types' /\ KeyIsSeen'
  BY <1>1, <1>2, <1>3 DEF IInv, Types, Busy, Harms, KeyIsSeen
<1>5. FileFollowsTracker' /\ TrackerIsMine' /\ MineIsTheKeys' /\ FinishedIsComplete'
  BY <1>1, <1>2, <1>3 DEF FileFollowsTracker, TrackerIsMine, MineIsTheKeys, FinishedIsComplete, At
<1> QED  BY <1>3, <1>4, <1>5 DEF IInv, RequestFollowsFile, ResponseFollowsFile, At

\* The tracker file of a file that is deleted has been removed before.
LEMMA UnlinkInv == IInv /\ Unlink => IInv'
<1> SUFFICES ASSUME IInv, Unlink  PROVE IInv'
  OBVIOUS
<1>1. Busy /\ tracker = None
  BY BusyFields DEF Unlink, At, IInv, TrackerIsMine
<1>2. /\ local' = Gone /\ dl' = Idle
      /\ UNCHANGED <<object, changes, tracker, got, seen, harm>>
  BY DEF Unlink, past
<1>3. ~Busy'
  BY <1>2, IdleIsNotBusy DEF Busy
<1>4. Types' /\ FileFollowsTracker'
  BY <1>1, <1>2 DEF IInv, Types, FileFollowsTracker
<1> QED  BY <1>3, <1>4 DEF IInv, TrackerIsMine, MineIsTheKeys, RequestFollowsFile,
            ResponseFollowsFile, FinishedIsComplete, KeyIsSeen

\* The process ends, and leaves all behind as it is.
LEMMA EndsInv ==
    ASSUME IInv, ~At("idle"), ~At("truncate"), Ends
    PROVE  IInv'
<1>1. Busy
  BY BusyFields
<1> QED  BY <1>1, IdleInv DEF Ends, disk, past, IInv, Types

LEMMA RetryInv == IInv /\ Retry => IInv'
<1> SUFFICES ASSUME IInv, Retry  PROVE IInv'
  OBVIOUS
<1>1. Busy /\ local \in Seq(Block) /\ dl.tries \in 0 .. num_retries /\ dl.had \in Nat
  BY BusyFields DEF Retry, At
<1>2. Tries \in 0 .. num_retries
  BY <1>1, ContentsAreData DEF Retry, MayRetry, Tries
<1>3. /\ dl' = [dl EXCEPT !.pc = "loop", !.tries = Tries, !.rest = <<>>]
      /\ UNCHANGED <<object, changes, local, tracker, got, seen, harm>>
  BY DEF Retry, disk, past
<1>4. dl' \in Download /\ dl'.pc = "loop" /\ dl'.mine = dl.mine /\ dl'.etag = dl.etag
  <2>1. <<>> \in Seq(Block)
    OBVIOUS
  <2> QED  BY <1>1, <1>2, <1>3, <2>1 DEF Busy, Download, Places
<1> QED  BY <1>3, <1>4, GoesInv DEF Retry, At

LEMMA NextAttemptInv == IInv /\ NextAttempt => IInv'
<1> SUFFICES ASSUME IInv, NextAttempt  PROVE IInv'
  OBVIOUS
<1>1. Busy /\ Len(local) \in Nat
  BY BusyFields DEF NextAttempt, At
<1>2. /\ dl' = [dl EXCEPT !.pc = "attempt", !.had = Len(local), !.hole = 0]
      /\ UNCHANGED <<object, changes, local, tracker, got, seen, harm>>
  BY DEF NextAttempt, disk, past
<1>3. dl' \in Download /\ dl'.pc = "attempt" /\ dl'.mine = dl.mine /\ dl'.etag = dl.etag
  BY <1>1, <1>2 DEF Busy, Download, Places
<1> QED  BY <1>2, <1>3, GoesInv DEF NextAttempt, At

\* A request or a response fails.
LEMMA FailsInv ==
    ASSUME IInv, dl.pc \in {"get", "receive"}, Goes("failed")
    PROVE  IInv'
<1>1. Busy
  BY BusyFields DEF At
<1>2. /\ dl' = [dl EXCEPT !.pc = "failed"]
      /\ UNCHANGED <<object, changes, local, tracker, got, seen, harm>>
  BY DEF Goes, disk, past
<1>3. dl' \in Download /\ dl'.pc = "failed" /\ dl'.mine = dl.mine /\ dl'.etag = dl.etag
  BY <1>1, <1>2 DEF Busy, Download, Places
<1> QED  BY <1>2, <1>3, GoesInv DEF At

LEMMA KilledInv == IInv /\ Killed => IInv'
<1> SUFFICES ASSUME IInv, Killed  PROVE IInv'
  OBVIOUS
<1>1. Busy
  BY BusyFields DEF Killed
<1> QED  BY <1>1, IdleInv DEF Killed, disk, IInv, Types, Harms

\* Another content changes nothing of what is on the disk or in memory.
LEMMA ReplaceInv == IInv /\ Replace => IInv'
<1> SUFFICES ASSUME IInv, Replace  PROVE IInv'
  OBVIOUS
<1>1. /\ object' \in Content /\ seen' = seen \cup {object'} /\ changes' = changes + 1
      /\ changes < MaxChanges /\ UNCHANGED <<local, tracker, dl, got, harm>>
  BY DEF Replace, disk
<1>2. changes' \in 0 .. MaxChanges
  BY <1>1, ContentsAreData DEF IInv, Types
<1>3. Types' /\ KeyIsSeen'
  BY <1>1, <1>2 DEF IInv, Types, KeyIsSeen, Busy
<1> QED  BY <1>1, <1>3 DEF IInv, Busy, TrackerIsMine, MineIsTheKeys, RequestFollowsFile,
            ResponseFollowsFile, FinishedIsComplete, FileFollowsTracker,
            Rest, Prefix, At

LEMMA SucceedInv == IInv /\ Succeed => IInv'
<1> SUFFICES ASSUME IInv, Succeed  PROVE IInv'
  OBVIOUS
<1>1. Busy
  BY BusyFields DEF Succeed, At
<1> QED  BY <1>1, IdleInv DEF Succeed, disk, IInv, Types, At

LEMMA NextInv == IInv /\ [Next]_vars => IInv'
<1> SUFFICES ASSUME IInv, [Next]_vars  PROVE IInv'
  OBVIOUS
<1>1. CASE Begin
  BY <1>1, BeginInv
<1>2. CASE NextAttempt
  BY <1>2, NextAttemptInv
<1>3. CASE AttemptStep
  <2>1. CASE TooLarge \/ OpenFails \/ GetRefused
    BY <2>1, EndsInv DEF TooLarge, OpenFails, GetRefused, At
  <2>2. CASE GetFails \/ Cut
    BY <2>2, FailsInv DEF GetFails, Cut, At
  <2> QED  BY <1>3, <2>1, <2>2, CompleteInv, ResumeInv, OpenTrackerInv, SaveTrackerInv, SaveFailsInv,
              TruncateInv, GetInv, ReceiveInv, CutSilentlyInv, ReceivedInv DEF AttemptStep
<1>4. CASE RemoveTracker \/ Succeed \/ Unlink \/ Retry
  BY <1>4, RemoveTrackerInv, SucceedInv, UnlinkInv, RetryInv
<1>5. CASE CloseFails \/ GiveUp
  BY <1>5, EndsInv DEF CloseFails, GiveUp, At
<1>6. CASE Killed \/ Replace
  BY <1>6, KilledInv, ReplaceInv
<1>7. CASE UNCHANGED vars
  <2>1. UNCHANGED <<object, changes, local, tracker, dl, got, seen, harm>>
    BY <1>7 DEF vars, disk, past
  <2> QED  BY <2>1 DEF IInv, Types, Busy, TrackerIsMine, MineIsTheKeys, RequestFollowsFile,
              ResponseFollowsFile, FinishedIsComplete, FileFollowsTracker,
              KeyIsSeen, Rest, Prefix, At
<1> QED  BY <1>1, <1>2, <1>3, <1>4, <1>5, <1>6, <1>7 DEF Next, Step

-----------------------------------------------------------------------------
(* The theorems                                                            *)

LEMMA Invariant == Spec => []IInv
<1> QED  BY InitIInv, NextInv, PTL DEF Spec

\* The retries of a process stay within num_retries, however many of its attempts
\* make progress, and it has a file to write to for as long as it runs.
THEOREM TypeCorrect == Spec => []TypeOK
<1>1. IInv => TypeOK
  <2> SUFFICES ASSUME IInv  PROVE TypeOK
    OBVIOUS
  <2>1. ~At("idle") => /\ dl.tries \in 0 .. num_retries
                       /\ dl.etag \in Content /\ dl.mine \in Content \cup {None}
                       /\ local \in Seq(Block)
    BY BusyFields
  <2> QED  BY <2>1 DEF TypeOK, IInv, Types, Harms
<1> QED  BY <1>1, Invariant, PTL

\* What is in the file is the beginning of the content its tracker file names,
\* after any number of cuts, failed attempts and processes that died, but for the
\* windows of _attempt_resumable_download and the hole that the property names.
THEOREM ResumesTheRightFile == Spec => []FileFollowsTracker
<1>1. IInv => FileFollowsTracker
  BY DEF IInv
<1> QED  BY <1>1, Invariant, PTL

\* The steps that leave the file.
LEMMA FileStays ==
    ASSUME Next, ~Begin, ~Truncate, ~Receive, ~Unlink
    PROVE  local' = local
BY DEF Next, Step, AttemptStep, NextAttempt, TooLarge, Complete, Resume, OpenTracker, OpenFails,
   SaveTracker, SaveFails, Get, GetRefused, GetFails, Cut, CutSilently, Received,
   RemoveTracker, Succeed, Retry, CloseFails, GiveUp, Killed, Replace, Ends, Goes, disk, past

\* _check_final_md5 deletes no file without one of the reasons the property names: a file
\* that none of them has touched has the content of the key.
THEOREM NeverDeletedInVain == Spec => DeletedForAReason
<1>1. IInv /\ [Next]_vars =>
        [local # Gone /\ local' = Gone => harm # {} \/ dl.etag \in Multipart]_vars
  <2> SUFFICES ASSUME IInv, Next, local # Gone, local' = Gone
               PROVE  harm # {} \/ dl.etag \in Multipart
    OBVIOUS
  <2>1. CASE Unlink
    <3>1. Busy /\ dl.pc = "verify"
      BY <2>1, BusyFields DEF Unlink, At
    <3> QED  BY <2>1, <3>1 DEF IInv, FinishedIsComplete, Unlink, Md5Matches
  <2>2. CASE Begin \/ Truncate \/ Receive
    <3>1. local \in Seq(Block)
      BY DEF IInv, Types
    <3>2. CASE Receive
      <4>1. dl.hole \in Nat /\ dl.rest \in Seq(Block)
        BY <3>2, BusyFields DEF Receive, At
      <4>2. Append(local \o Hole, Head(dl.rest)) \in Seq(Block)
        BY <3>1, <3>2, <4>1, AfterTheHole DEF Receive
      <4> QED  BY <3>2, <4>2, ContentsAreData DEF Receive
    <3>3. CASE Begin \/ Truncate
      <4>1. local' \in {local, <<>>}
        BY <3>3 DEF Begin, Truncate
      <4>2. <<>> \in Seq(Block)
        OBVIOUS
      <4> QED  BY <3>1, <4>1, <4>2, ContentsAreData
    <3> QED  BY <2>2, <3>2, <3>3
  <2> QED  BY <2>1, <2>2, FileStays
<1> QED  BY <1>1, Invariant, PTL DEF Spec, DeletedForAReason

\* A download that succeeds has a content the object had since the process began,
\* for an etag that identifies a content: never a mixture.
THEOREM NoMixtures == Spec => SuccessIsExact
<1>1. IInv /\ [Next]_vars => [got' \notin {got, None} => got' \in seen]_vars
  <2> SUFFICES ASSUME IInv, Next  PROVE got' \notin {got, None} => got' \in seen
    OBVIOUS
  <2>1. CASE Succeed
    <3>1. Busy
      BY <2>1, BusyFields DEF Succeed, At
    <3>2. got' = dl.etag
      BY <2>1 DEF Succeed, Md5Matches
    <3> QED  BY <3>1, <3>2 DEF IInv, KeyIsSeen
  <2>2. CASE Begin
    BY <2>2 DEF Begin
  <2>3. CASE ~Succeed /\ ~Begin
    BY <2>3 DEF Next, Step, AttemptStep, NextAttempt, TooLarge, Complete, Resume, OpenTracker,
       OpenFails, SaveTracker, SaveFails, Truncate, Get, GetRefused, GetFails, Receive, Cut, CutSilently,
       Received, RemoveTracker, Unlink, Retry, CloseFails, GiveUp, Killed, Replace, Ends,
       Goes, past
  <2> QED  BY <2>1, <2>2, <2>3
<1> QED  BY <1>1, Invariant, PTL DEF Spec, SuccessIsExact

-----------------------------------------------------------------------------
(* Downloads are short                                                     *)

\* How often the file may still be emptied for another content, if the object is not
\* replaced: for the tracker file that names another content than the key, and for the key
\* that is of another content than the object.
Restarts == IF dl.etag # object THEN (IF dl.mine = dl.etag THEN 2 ELSE 3)
            ELSE (IF dl.mine = dl.etag THEN 0 ELSE 1)

\* What is missing in the file, of at most size blocks; a hole may make it longer.
Missing(size) == IF dl.pc \in {"save", "truncate"} THEN size
                 ELSE IF Len(local) <= size THEN size - Len(local) ELSE 0

\* The attempts without progress that are left; one that has made progress counts for one more.
Chances == num_retries - (IF ~At("loop") /\ Len(local) > dl.had THEN -1 ELSE dl.tries)

\* What is left of an attempt.
ToDo(size) == CASE At("loop") -> size + 7
                [] At("attempt") -> size + 6
                [] At("save") -> size + 5
                [] At("truncate") -> size + 4
                [] At("get") -> size + 3
                [] At("receive") -> Len(dl.rest) + 2
                [] At("verify") -> 0
                [] OTHER -> 1

Running == ~At("idle")

RankBounded(size) ==
    Running => /\ Restarts \in 0 .. 3 /\ Missing(size) \in 0 .. size
               /\ Chances \in 0 .. num_retries + 1 /\ ToDo(size) \in 0 .. size + 7

\* In the lexicographic order.
Falls(size) == \/ Restarts' < Restarts
               \/ /\ Restarts' = Restarts
                  /\ \/ Missing(size)' < Missing(size)
                     \/ /\ Missing(size)' = Missing(size)
                        /\ \/ Chances' < Chances
                           \/ Chances' = Chances /\ ToDo(size)' < ToDo(size)

RankFalls(size) ==
    Running /\ Running' => changes' > changes \/ (changes' = changes /\ Falls(size))

\* A bound for what the object may contain.
LongEnough(size) == size \in Nat /\ \A c \in Content : Len(c) <= size

\* had_file_bytes_before_attempt, until the file is written.
AttemptBegins == /\ dl.pc \in {"attempt", "save", "truncate"} => dl.had = Len(local)
                 /\ At("attempt") => dl.hole = 0

\* A hole is as long as the file was before the attempt.
HoleComesFirst ==
    dl.pc \in {"get", "receive"} => dl.hole = 0 \/ (dl.hole = dl.had /\ local = <<>>)

\* A response ends where its content ends, but behind a hole.
PartFits == At("receive") => /\ Len(dl.rest) <= Len(dl.etag)
                             /\ \/ Len(local) + Len(dl.rest) <= Len(dl.etag)
                                \/ Len(local) > dl.had

RankInv == AttemptBegins /\ HoleComesFirst /\ PartFits

LEMMA SameRestarts ==
    ASSUME object' = object, dl'.mine = dl.mine, dl'.etag = dl.etag
    PROVE  Restarts' = Restarts
BY DEF Restarts

LEMMA SameMissing ==
    ASSUME NEW size, local' = local,
           dl'.pc \in {"save", "truncate"} <=> dl.pc \in {"save", "truncate"}
    PROVE  Missing(size)' = Missing(size)
BY DEF Missing

LEMMA SameChances ==
    ASSUME local' = local, ~At("loop"), ~At("loop")', dl'.had = dl.had, dl'.tries = dl.tries
    PROVE  Chances' = Chances
BY DEF Chances, At

LEMMA ToDoIs ==
    ASSUME NEW size
    PROVE  /\ At("loop") => ToDo(size) = size + 7
           /\ At("attempt") => ToDo(size) = size + 6
           /\ At("save") => ToDo(size) = size + 5
           /\ At("truncate") => ToDo(size) = size + 4
           /\ At("get") => ToDo(size) = size + 3
           /\ At("receive") => ToDo(size) = Len(dl.rest) + 2
           /\ At("verify") => ToDo(size) = 0
           /\ dl.pc \in {"finish", "failed"} => ToDo(size) = 1
BY DEF ToDo, At

LEMMA ToDoNext ==
    ASSUME NEW CONSTANT size
    PROVE  /\ At("loop")' => ToDo(size)' = size + 7
           /\ At("attempt")' => ToDo(size)' = size + 6
           /\ At("save")' => ToDo(size)' = size + 5
           /\ At("truncate")' => ToDo(size)' = size + 4
           /\ At("get")' => ToDo(size)' = size + 3
           /\ At("receive")' => ToDo(size)' = Len(dl'.rest) + 2
           /\ At("verify")' => ToDo(size)' = 0
           /\ dl'.pc \in {"finish", "failed"} => ToDo(size)' = 1
BY DEF ToDo, At

LEMMA RankInvGet == IInv /\ RankInv /\ Get => RankInv'
<1> SUFFICES ASSUME IInv, RankInv, Get  PROVE RankInv'
  OBVIOUS
<1>1. /\ Busy /\ local \in Seq(Block) /\ dl.size \in Nat /\ dl.pc = "get"
      /\ dl.from = Len(local) /\ Len(local) \in Nat
  BY BusyFields DEF Get, At, IInv, RequestFollowsFile
<1>2. object \in Seq(Block) /\ Len(object) \in Nat
  BY ContentsAreData DEF IInv, Types
<1>3. Until \in Nat /\ Until <= Len(object) /\ Len(local) <= Until
  BY <1>1, <1>2 DEF Until, Get
<1>4. /\ dl'.pc = "receive" /\ dl'.etag = object /\ dl'.had = dl.had /\ dl'.hole = dl.hole
      /\ dl'.rest = SubSeq(object, Len(local) + 1, Until) /\ local' = local
  BY <1>1 DEF Get, Busy, Download, disk
<1>5. Len(dl'.rest) = Until - Len(local)
  BY <1>1, <1>2, <1>3, <1>4, PartFollows
<1>6. PartFits'
  BY <1>1, <1>2, <1>3, <1>4, <1>5 DEF PartFits
<1> QED  BY <1>1, <1>4, <1>6 DEF RankInv, AttemptBegins, HoleComesFirst, At

\* What a block that is written does to the lengths.
LEMMA ReceiveLengths ==
    ASSUME IInv, RankInv, Receive
    PROVE  /\ dl.hole \in Nat /\ dl.had \in Nat /\ Len(local) \in Nat
           /\ Len(dl.rest) \in Nat \ {0} /\ Len(dl.etag) \in Nat
           /\ Len(local') = Len(local) + dl.hole + 1 /\ Len(dl'.rest) = Len(dl.rest) - 1
           /\ dl.pc = "receive" /\ dl'.pc = "receive" /\ dl'.etag = dl.etag
           /\ dl'.mine = dl.mine /\ dl'.had = dl.had /\ dl'.tries = dl.tries /\ dl'.hole = 0
           /\ UNCHANGED <<object, changes>>
<1>1. /\ Busy /\ local \in Seq(Block) /\ dl.rest \in Seq(Block) /\ dl.hole \in Nat
      /\ dl.had \in Nat /\ dl.etag \in Seq(Block) /\ dl.pc = "receive"
  BY BusyFields, ContentsAreData DEF Receive, At
<1>2. /\ dl.rest # <<>> /\ local' = Append(local \o Hole, Head(dl.rest))
      /\ dl'.rest = Tail(dl.rest)
      /\ dl'.pc = "receive" /\ dl'.etag = dl.etag /\ dl'.mine = dl.mine /\ dl'.had = dl.had
      /\ dl'.tries = dl.tries /\ dl'.hole = 0
      /\ UNCHANGED <<object, changes>>
  BY <1>1 DEF Receive, Busy, Download
<1>3. local \o Hole \in Seq(Block) /\ Len(local \o Hole) = Len(local) + dl.hole
  BY <1>1, AfterTheHole
<1>4. Len(local') = Len(local) + dl.hole + 1
  BY <1>1, <1>2, <1>3
<1> QED  BY <1>1, <1>2, <1>4

LEMMA RankInvReceive == IInv /\ RankInv /\ Receive => RankInv'
<1> SUFFICES ASSUME IInv, RankInv, Receive  PROVE RankInv'
  OBVIOUS
<1>1. /\ Len(dl.rest) <= Len(dl.etag)
      /\ Len(local) + Len(dl.rest) <= Len(dl.etag) \/ Len(local) > dl.had
      /\ dl.hole = 0 \/ (dl.hole = dl.had /\ local = <<>>)
  BY ReceiveLengths DEF RankInv, PartFits, HoleComesFirst, At
<1>2. PartFits'
  <2>1. CASE dl.hole = 0
    BY <1>1, <2>1, ReceiveLengths DEF PartFits
  <2>2. CASE dl.hole = dl.had
    BY <1>1, <2>2, ReceiveLengths DEF PartFits
  <2> QED  BY <1>1, <2>1, <2>2
<1> QED  BY <1>2, ReceiveLengths DEF RankInv, AttemptBegins, HoleComesFirst, At

LEMMA RankInvStep == IInv /\ RankInv /\ [Next]_vars => RankInv'
<1> SUFFICES ASSUME IInv, RankInv, [Next]_vars  PROVE RankInv'
  OBVIOUS
<1> USE DEF RankInv, AttemptBegins, HoleComesFirst, PartFits, At
<1>1. CASE dl'.pc \notin {"attempt", "save", "truncate", "get", "receive"}
  BY <1>1
<1>2. CASE NextAttempt
  <2>1. Busy
    BY <1>2, BusyFields DEF NextAttempt
  <2> QED  BY <1>2, <2>1 DEF NextAttempt, Busy, Download, disk
<1>3. CASE OpenTracker \/ SaveTracker \/ Resume
  <2>1. Busy
    BY <1>3, BusyFields DEF OpenTracker, SaveTracker, Resume
  <2> QED  BY <1>3, <2>1 DEF OpenTracker, SaveTracker, Resume, Busy, Download, disk
<1>4. CASE Truncate
  <2>1. Busy
    BY <1>4, BusyFields DEF Truncate
  <2> QED  BY <1>4, <2>1 DEF Truncate, Busy, Download
<1>5. CASE CutSilently
  <2>1. Busy /\ Len(local) \in Nat /\ Len(dl.rest) \in Nat /\ Len(dl.etag) \in Nat
    BY <1>5, BusyFields, ContentsAreData DEF CutSilently
  <2>2. /\ dl'.pc = "receive" /\ dl'.rest = <<>> /\ dl'.etag = dl.etag /\ dl'.had = dl.had
        /\ dl'.hole = dl.hole /\ local' = local /\ dl.pc = "receive" /\ Len(<<>>) = 0
    BY <1>5, <2>1 DEF CutSilently, Busy, Download, disk
  <2> QED  BY <2>1, <2>2
<1>6. CASE UNCHANGED <<dl, local>>
  BY <1>6
<1>7. \/ dl'.pc \notin {"attempt", "save", "truncate", "get", "receive"}
      \/ NextAttempt \/ OpenTracker \/ SaveTracker \/ Resume \/ Truncate \/ CutSilently
      \/ Get \/ Receive \/ UNCHANGED <<dl, local>>
  <2>1. CASE TooLarge \/ OpenFails \/ GetRefused \/ Succeed \/ Unlink \/ CloseFails
             \/ GiveUp \/ Killed \/ Begin
    BY <2>1 DEF TooLarge, OpenFails, GetRefused, Succeed, Unlink, CloseFails, GiveUp, Killed,
       Begin, Ends, Idle
  <2>2. CASE Complete \/ SaveFails \/ GetFails \/ Cut \/ Received \/ RemoveTracker \/ Retry
    <3>1. Busy
      BY <2>2, BusyFields DEF Complete, SaveFails, GetFails, Cut, Received, RemoveTracker, Retry
    <3> QED  BY <2>2, <3>1 DEF Complete, SaveFails, GetFails, Cut, Received, RemoveTracker,
                Retry, Goes, Busy, Download
  <2>3. CASE Replace \/ UNCHANGED vars
    BY <2>3 DEF Replace, vars, disk
  <2> QED  BY <2>1, <2>2, <2>3 DEF Next, Step, AttemptStep
<1> QED  BY <1>1, <1>2, <1>3, <1>4, <1>5, <1>6, <1>7, RankInvGet, RankInvReceive

LEMMA RankIsBounded ==
    ASSUME NEW size, LongEnough(size), IInv, RankInv
    PROVE  RankBounded(size)
<1> SUFFICES ASSUME Running  PROVE RankBounded(size)
  BY DEF RankBounded
<1>1. /\ Len(local) \in Nat /\ size \in Nat /\ dl.etag \in Content /\ dl.pc \in Places
      /\ Len(dl.rest) \in Nat /\ Len(dl.etag) \in Nat /\ Len(dl.etag) <= size
  BY BusyFields, ContentsAreData DEF Running, LongEnough
<1>2. dl.tries \in 0 .. num_retries /\ num_retries \in Nat
  BY BusyFields, ContentsAreData DEF Running
<1>3. Missing(size) \in 0 .. size
  BY <1>1 DEF Missing
<1>4. Chances \in 0 .. num_retries + 1
  BY <1>2 DEF Chances
<1>5. ToDo(size) \in 0 .. size + 7
  <2>1. At("receive") => Len(dl.rest) <= size
    BY <1>1 DEF RankInv, PartFits
  <2> QED  BY <1>1, <2>1, ToDoIs DEF Places, At
<1>6. Restarts \in 0 .. 3
  BY DEF Restarts
<1> QED  BY <1>3, <1>4, <1>5, <1>6 DEF RankBounded

\* A step of an attempt that leaves the file and the key, or changes no more of the key than
\* its etag to that of the object.
LEMMA QuietFall ==
    ASSUME NEW CONSTANT size, local' = local, object' = object, changes' = changes,
           ~At("loop"), ~At("loop")', dl'.had = dl.had, dl'.tries = dl.tries,
           dl'.mine = dl.mine, dl'.etag = dl.etag,
           dl'.pc \in {"save", "truncate"} <=> dl.pc \in {"save", "truncate"},
           ToDo(size)' < ToDo(size)
    PROVE  RankFalls(size)
BY SameRestarts, SameMissing, SameChances DEF RankFalls, Falls

LEMMA NextAttemptFalls ==
    ASSUME NEW CONSTANT size, LongEnough(size), IInv, NextAttempt
    PROVE  RankFalls(size)
<1>1. /\ Busy /\ local \in Seq(Block) /\ dl.pc = "loop"
  BY BusyFields DEF NextAttempt, At
<1>2. /\ dl'.pc = "attempt" /\ dl'.had = Len(local) /\ dl'.tries = dl.tries
      /\ dl'.mine = dl.mine /\ dl'.etag = dl.etag
      /\ UNCHANGED <<object, changes, local>>
  BY <1>1 DEF NextAttempt, Busy, Download, disk
<1>3. Chances' = Chances
  BY <1>1, <1>2 DEF Chances, At
<1>4. ToDo(size)' < ToDo(size)
  BY <1>1, <1>2, ToDoIs, ToDoNext DEF At, LongEnough
<1> QED  BY <1>1, <1>2, <1>3, <1>4, SameRestarts, SameMissing DEF RankFalls, Falls

LEMMA OpenTrackerFalls ==
    ASSUME NEW CONSTANT size, LongEnough(size), IInv, OpenTracker
    PROVE  RankFalls(size)
<1>1. Busy /\ local \in Seq(Block) /\ dl.pc = "attempt" /\ dl.etag \in Content
  BY BusyFields DEF OpenTracker, At
<1>2. /\ dl'.pc = "save" /\ dl'.had = dl.had /\ dl'.tries = dl.tries
      /\ dl'.mine = dl.etag /\ dl'.etag = dl.etag
      /\ UNCHANGED <<object, changes, local>>
  BY <1>1 DEF OpenTracker, Busy, Download
<1>3. ToDo(size)' < ToDo(size)
  BY <1>1, <1>2, ToDoIs, ToDoNext DEF At, LongEnough
<1>4. CASE dl.mine # dl.etag
  <2>1. Restarts' < Restarts
    BY <1>2, <1>4 DEF Restarts
  <2> QED  BY <1>2, <2>1 DEF RankFalls, Falls
<1>5. CASE dl.mine = dl.etag
  <2>1. local = <<>>
    BY <1>1, <1>5, ContentsAreData DEF OpenTracker, Resumes
  <2>2. Missing(size)' = Missing(size)
    BY <1>1, <1>2, <2>1 DEF Missing, LongEnough
  <2>3. Chances' = Chances
    BY <1>1, <1>2, SameChances DEF At
  <2>4. Restarts' = Restarts
    BY <1>2, <1>5, SameRestarts
  <2> QED  BY <1>2, <1>3, <2>2, <2>3, <2>4 DEF RankFalls, Falls
<1> QED  BY <1>4, <1>5

LEMMA TruncateFalls ==
    ASSUME NEW CONSTANT size, LongEnough(size), IInv, Truncate
    PROVE  RankFalls(size)
<1>1. Busy /\ local \in Seq(Block) /\ dl.pc = "truncate" /\ dl.tries \in Nat /\ dl.had \in Nat
  BY BusyFields, ContentsAreData DEF Truncate, At
<1>2. /\ dl'.pc = "get" /\ dl'.had = dl.had /\ dl'.tries = dl.tries
      /\ dl'.mine = dl.mine /\ dl'.etag = dl.etag /\ local' = <<>>
      /\ UNCHANGED <<object, changes>>
  BY <1>1 DEF Truncate, Busy, Download
<1>3. ToDo(size)' < ToDo(size)
  BY <1>1, <1>2, ToDoIs, ToDoNext DEF At, LongEnough
<1>4. Len(local') = 0
  BY <1>2
<1>5. Missing(size)' = Missing(size)
  BY <1>1, <1>2, <1>4 DEF Missing, LongEnough
<1>6. Chances' = Chances \/ Chances' < Chances
  <2>1. num_retries \in Nat
    BY ContentsAreData
  <2>2. Chances' = num_retries - dl.tries
    BY <1>1, <1>2, <1>4 DEF Chances, At
  <2>3. Chances \in {num_retries - dl.tries, num_retries - (-1)}
    BY DEF Chances
  <2> QED  BY <1>1, <2>1, <2>2, <2>3
<1>7. Restarts' = Restarts
  BY <1>2, SameRestarts
<1> QED  BY <1>2, <1>3, <1>5, <1>6, <1>7 DEF RankFalls, Falls

LEMMA GetFalls ==
    ASSUME NEW CONSTANT size, LongEnough(size), IInv, RankInv', Get
    PROVE  RankFalls(size)
<1>1. Busy /\ dl.pc = "get" /\ dl.mine = dl.etag
  BY BusyFields DEF Get, At, IInv, MineIsTheKeys
<1>2. /\ dl'.pc = "receive" /\ dl'.had = dl.had /\ dl'.tries = dl.tries
      /\ dl'.mine = dl.mine /\ dl'.etag = object
      /\ dl'.rest = SubSeq(object, dl.from + 1, Until)
      /\ UNCHANGED <<object, changes, local>>
  BY <1>1 DEF Get, Busy, Download, disk
<1>3. CASE dl.etag = object
  <2>p. Len(dl'.rest) <= Len(dl'.etag)
    BY <1>2 DEF RankInv, PartFits, At
  <2>o. object \in Content /\ object \in Seq(Block)
    BY ContentsAreData DEF IInv, Types
  <2>l. Len(object) <= size /\ Len(object) \in Nat
    BY <2>o DEF LongEnough
  <2>1. Len(dl'.rest) <= Len(object) /\ Len(object) <= size /\ Len(object) \in Nat
    BY <1>2, <2>p, <2>l, Zenon
  <2>2. Len(dl'.rest) \in Nat /\ size \in Nat
    <3>1. /\ dl.from \in Nat /\ Until \in Nat /\ object \in Seq(Block) /\ Until <= Len(object)
      BY <1>1, ContentsAreData DEF Busy, Download, IInv, Types, Until
    <3>2. SubSeq(object, dl.from + 1, Until) \in Seq(Block)
      BY <3>1
    <3> QED  BY <1>2, <3>2 DEF LongEnough
  <2>t. ToDo(size)' = Len(dl'.rest) + 2 /\ ToDo(size) = size + 3
    BY <1>1, <1>2, ToDoIs, ToDoNext DEF At
  <2>3. ToDo(size)' < ToDo(size)
    <3> DEFINE r == Len(dl'.rest)
               o == Len(object)
    <3>1. r \in Nat /\ o \in Nat /\ size \in Nat /\ r <= o /\ o <= size
      BY <2>1, <2>2
    <3> HIDE DEF r, o
    <3>2. r + 2 < size + 3
      BY <3>1
    <3> USE DEF r, o
    <3> QED  BY <2>t, <3>2, Zenon
  <2> QED  BY <1>1, <1>2, <1>3, <2>3, QuietFall DEF At
<1>4. CASE dl.etag # object
  <2>1. Restarts' < Restarts
    BY <1>1, <1>2, <1>4 DEF Restarts
  <2> QED  BY <1>2, <2>1 DEF RankFalls, Falls
<1> QED  BY <1>3, <1>4

LEMMA ReceiveFalls ==
    ASSUME NEW CONSTANT size, LongEnough(size), IInv, RankInv, Receive
    PROVE  RankFalls(size)
<1>1. /\ size \in Nat /\ Len(dl.etag) <= size
      /\ Len(local) + Len(dl.rest) <= Len(dl.etag) \/ Len(local) > dl.had
  BY ReceiveLengths, BusyFields DEF RankInv, PartFits, At, LongEnough
<1>2. Restarts' = Restarts
  BY ReceiveLengths, SameRestarts
<1>3. CASE Len(local) + Len(dl.rest) <= Len(dl.etag)
  <2>1. Len(local) < size /\ Len(local') > Len(local) /\ Len(local') \in Nat
    BY <1>1, <1>3, ReceiveLengths
  <2>2. Missing(size)' < Missing(size)
    BY <1>1, <2>1, ReceiveLengths DEF Missing
  <2> QED  BY <1>2, <2>2, ReceiveLengths DEF RankFalls, Falls
<1>4. CASE Len(local) > dl.had
  <2>1. Len(local') > Len(local) /\ Len(local') > dl.had /\ Len(local') \in Nat
    BY <1>4, ReceiveLengths
  <2>2. Missing(size)' <= Missing(size) /\ Missing(size) \in Nat /\ Missing(size)' \in Nat
    BY <1>1, <2>1, ReceiveLengths DEF Missing
  <2>3. Chances' = Chances
    BY <1>4, <2>1, ReceiveLengths DEF Chances, At
  <2>4. ToDo(size)' < ToDo(size)
    BY ReceiveLengths, ToDoIs, ToDoNext DEF At
  <2> QED  BY <1>2, <2>2, <2>3, <2>4, ReceiveLengths DEF RankFalls, Falls
<1> QED  BY <1>1, <1>3, <1>4

\* The next attempt takes the file as it is.
LEMMA SaveFailsFalls ==
    ASSUME NEW CONSTANT size, LongEnough(size), IInv, SaveFails
    PROVE  RankFalls(size)
<1>1. Busy /\ Len(local) \in Nat /\ dl.pc = "save" /\ size \in Nat
  BY BusyFields DEF SaveFails, At, LongEnough
<1>2. /\ dl'.pc = "failed" /\ dl'.had = dl.had /\ dl'.tries = dl.tries
      /\ dl'.mine = dl.mine /\ dl'.etag = dl.etag
      /\ UNCHANGED <<object, changes, local>>
  BY <1>1 DEF SaveFails, Busy, Download, disk
<1>3. ToDo(size)' < ToDo(size)
  BY <1>1, <1>2, ToDoIs, ToDoNext DEF At
<1>4. Missing(size)' < Missing(size) \/ Missing(size)' = Missing(size)
  BY <1>1, <1>2 DEF Missing
<1>5. Restarts' = Restarts /\ Chances' = Chances
  BY <1>1, <1>2, SameRestarts, SameChances DEF At
<1> QED  BY <1>2, <1>3, <1>4, <1>5 DEF RankFalls, Falls

LEMMA RetryFalls ==
    ASSUME NEW CONSTANT size, IInv, Retry
    PROVE  RankFalls(size)
<1>1. Busy /\ dl.pc = "failed" /\ dl.tries \in Nat /\ num_retries \in Nat
  BY BusyFields, ContentsAreData DEF Retry, At
<1>2. /\ dl'.pc = "loop" /\ dl'.tries = Tries /\ dl'.mine = dl.mine /\ dl'.etag = dl.etag
      /\ UNCHANGED <<object, changes, local>>
  BY <1>1 DEF Retry, Busy, Download, disk
<1>3. /\ Chances' = num_retries - Tries
      /\ Chances = num_retries - (IF Len(local) > dl.had THEN -1 ELSE dl.tries)
  BY <1>1, <1>2 DEF Chances, At
<1>4. Chances' < Chances
  BY <1>1, <1>3 DEF Tries
<1>5. Restarts' = Restarts /\ Missing(size)' = Missing(size)
  BY <1>1, <1>2, SameRestarts, SameMissing
<1> QED  BY <1>2, <1>4, <1>5 DEF RankFalls, Falls

\* The steps that only take the process to another place, or empty what is left of a response.
Onwards == \/ Complete \/ Resume \/ SaveTracker \/ GetFails \/ Cut \/ CutSilently
           \/ Received \/ RemoveTracker

LEMMA OnwardsFalls ==
    ASSUME NEW CONSTANT size, LongEnough(size), IInv, Onwards
    PROVE  RankFalls(size)
<1>1. Busy /\ dl.rest \in Seq(Block)
  BY BusyFields DEF Onwards, Complete, Resume, SaveTracker, GetFails, Cut, CutSilently,
     Received, RemoveTracker, At
<1>2. /\ UNCHANGED <<object, changes, local>>
      /\ dl'.had = dl.had /\ dl'.tries = dl.tries /\ dl'.mine = dl.mine /\ dl'.etag = dl.etag
  BY <1>1 DEF Onwards, Complete, Resume, SaveTracker, GetFails, Cut, CutSilently,
     Received, RemoveTracker, Goes, Busy, Download, disk
<1>3. \/ dl.pc = "attempt" /\ dl'.pc \in {"finish", "get"}
      \/ dl.pc = "save" /\ dl'.pc = "truncate"
      \/ dl.pc = "get" /\ dl'.pc = "failed"
      \/ dl.pc = "receive" /\ dl.rest # <<>> /\ dl'.pc = "failed"
      \/ dl.pc = "receive" /\ dl.rest # <<>> /\ dl'.pc = "receive" /\ dl'.rest = <<>>
      \/ dl.pc = "receive" /\ dl'.pc = "finish"
      \/ dl.pc = "finish" /\ dl'.pc = "verify"
  BY <1>1 DEF Onwards, Complete, Resume, SaveTracker, GetFails, Cut, CutSilently,
     Received, RemoveTracker, Goes, Busy, Download, At
<1>4. ToDo(size)' < ToDo(size)
  <2>1. /\ size \in Nat /\ Len(dl.rest) \in Nat /\ Len(<<>>) = 0
        /\ dl.rest # <<>> => Len(dl.rest) > 0
    BY <1>1 DEF LongEnough
  <2> QED  BY <1>3, <2>1, ToDoIs, ToDoNext DEF At
<1> QED  BY <1>2, <1>3, <1>4, QuietFall DEF At

LEMMA RankStep ==
    ASSUME NEW CONSTANT size, LongEnough(size), IInv, RankInv, RankInv', [Next]_vars
    PROVE  [RankFalls(size)]_vars
<1> SUFFICES ASSUME Next  PROVE RankFalls(size)
  OBVIOUS
<1>1. CASE Begin
  BY <1>1 DEF Begin, RankFalls, Running
<1>2. CASE \/ TooLarge \/ OpenFails \/ GetRefused \/ Succeed \/ Unlink \/ CloseFails
           \/ GiveUp \/ Killed
  <2>1. dl' = Idle
    BY <1>2 DEF TooLarge, OpenFails, GetRefused, Succeed, Unlink, CloseFails, GiveUp, Killed, Ends
  <2> QED  BY <2>1 DEF RankFalls, Running, At, Idle
<1>3. CASE Replace
  BY <1>3, ContentsAreData DEF Replace, RankFalls, IInv, Types
<1> QED  BY <1>1, <1>2, <1>3, NextAttemptFalls, OpenTrackerFalls, TruncateFalls, GetFalls, SaveFailsFalls,
            ReceiveFalls, RetryFalls, OnwardsFalls DEF Next, Step, AttemptStep, Onwards

\* However often a download is cut, and whatever was in its file, each of its steps, and each
\* step beside it but a replacement of the object, lowers the rank, and the rank is bounded:
\* between two replacements get_file empties a file that is not empty at most twice, gets
\* each block once from one of these to the next, and has at most num_retries + 1 more
\* attempts from one block to the next.  With weak fairness it ends.  size is any bound for
\* the lengths of contents.
THEOREM DownloadsAreShort ==
    ASSUME NEW CONSTANT size, LongEnough(size)
    PROVE  Spec => []RankBounded(size) /\ [][RankFalls(size)]_vars
<1>1. Init => RankInv
  BY DEF Init, RankInv, AttemptBegins, HoleComesFirst, PartFits, Idle, At
<1>2. IInv /\ RankInv /\ [Next]_vars => RankInv'
  BY RankInvStep
<1>3. IInv /\ RankInv => RankBounded(size)
  BY RankIsBounded
<1>4. IInv /\ RankInv /\ RankInv' /\ [Next]_vars => [RankFalls(size)]_vars
  BY RankStep
<1> QED  BY <1>1, <1>2, <1>3, <1>4, Invariant, PTL DEF Spec
=============================================================================
