------------------------- MODULE ResumableDownload -------------------------
(***************************************************************************)
(* boto.s3.resumable_download_handler: a download that goes on where it    *)
(* was cut off, in the same process or, by its tracker file, in a later    *)
(* one.  Responses are cut, processes die, and the object is replaced      *)
(* while all this goes on.                                                 *)
(*                                                                         *)
(* A content is a sequence of blocks, and its etag is taken for the        *)
(* content itself: an MD5 sum, unless the object was uploaded in parts.    *)
(* The key is what Key.open_read makes of every response: its etag, and as *)
(* its size the length of that response.                                   *)
(***************************************************************************)
EXTENDS Integers, Sequences

CONSTANTS Content,     \* what the object may contain
          Multipart,   \* what it contains after an upload in parts
          Junk,        \* what may be in the file at first
          num_retries,
          MaxChanges,  \* bound: how often the object is replaced
          MaxFile      \* bound: the length of a file opened where it is not emptied

\* What is read where nothing was written.
Zero == "zero"

Block == {Zero} \cup UNION {{c[n] : n \in DOMAIN c} : c \in Content \cup Junk}

\* "none" and "gone" are no data: see None and Gone.
ASSUME DownloadAssumption == /\ Content # {} /\ Multipart \subseteq Content
                             /\ Content \cup Junk \subseteq Seq(Block)
                             /\ "none" \notin Block /\ "gone" \notin Block
                             /\ num_retries \in Nat /\ MaxChanges \in Nat /\ MaxFile \in Nat

VARIABLES object,    \* the content of the object
          changes,   \* how often it was replaced
          local,     \* the file that is downloaded to
          tracker,   \* the etag in the tracker file
          dl,        \* the process that downloads
          got,       \* the content of the last download, if it succeeded
          seen,      \* what the object contained since the download began
          harm       \* what has gone wrong since the file was last emptied

disk == <<local, tracker>>
past == <<got, seen, harm>>
vars == <<object, changes, disk, dl, past>>

None == <<"none">>
Gone == <<"gone">>
Idle == [pc |-> "idle"]

Init == /\ object \in Content /\ changes = 0
        /\ local \in Junk /\ tracker = None
        /\ dl = Idle /\ got = None /\ seen = {} /\ harm = {}

At(pc) == dl.pc = pc

Goes(pc) == /\ dl' = [dl EXCEPT !.pc = pc]
            /\ UNCHANGED <<object, changes, disk, past>>

\* The process ends with an exception.
Ends == dl' = Idle /\ UNCHANGED <<object, changes, disk, past>>

\* A file open for appending ("a"), emptied ("w") or left as it is ("r+"), a key from a
\* HEAD request, and what _load_tracker_file_etag finds: ETAG_REGEX takes MD5 sums only.
Begin == /\ At("idle")
         /\ \E mode \in {"a", "w", "r+"} :
               /\ mode = "r+" => local # Gone /\ Len(local) <= MaxFile
               /\ local' = IF mode = "w" \/ local = Gone THEN <<>> ELSE local
               /\ dl' = [pc |-> "loop", mine |-> IF tracker \in Multipart THEN None ELSE tracker,
                         etag |-> object, size |-> Len(object), tries |-> 0, had |-> 0,
                         from |-> 0, rest |-> <<>>, appends |-> mode = "a", hole |-> 0]
         /\ got' = None /\ seen' = {object}
         /\ harm' = IF local' = <<>> THEN {} ELSE harm
         /\ UNCHANGED <<object, changes, tracker>>

\* had_file_bytes_before_attempt; the file is positioned at its end.
NextAttempt == /\ At("loop")
               /\ dl' = [dl EXCEPT !.pc = "attempt", !.had = Len(local), !.hole = 0]
               /\ UNCHANGED <<object, changes, disk, past>>

-----------------------------------------------------------------------------
(* _attempt_resumable_download                                             *)

ResumesMutant == local # <<>> /\ dl.mine # None

\* etag_value_for_current_download is that of the key.
Resumes == local # <<>> /\ dl.mine # None /\ dl.mine = dl.etag

\* "Deleting tracker file", which it does not.
TooLarge == At("attempt") /\ Resumes /\ Len(local) > dl.size /\ Ends

\* The key's size is less than its content's if the last response was to a
\* request for a part.
Narrowed == IF dl.size # Len(dl.etag) THEN {"narrowed"} ELSE {}

Complete == /\ At("attempt") /\ Resumes /\ Len(local) = dl.size
            /\ dl' = [dl EXCEPT !.pc = "finish"]
            /\ harm' = harm \cup Narrowed
            /\ UNCHANGED <<object, changes, disk, got, seen>>

\* Range: bytes=%d-%d
Resume == /\ At("attempt") /\ Resumes /\ Len(local) < dl.size
          /\ dl' = [dl EXCEPT !.pc = "get", !.from = Len(local)]
          /\ harm' = harm \cup Narrowed
          /\ UNCHANGED <<object, changes, disk, got, seen>>

\* _save_tracker_info: open(..., 'w') empties the tracker file, or fails,
OpenTracker == /\ At("attempt") /\ ~Resumes
               /\ tracker' = None
               /\ dl' = [dl EXCEPT !.pc = "save", !.mine = dl.etag]
               /\ UNCHANGED <<object, changes, local, past>>

OpenFails == At("attempt") /\ ~Resumes /\ Ends

\* and the etag is written to it.
SaveTracker == /\ At("save")
               /\ tracker' = dl.mine
               /\ dl' = [dl EXCEPT !.pc = "truncate"]
               /\ UNCHANGED <<object, changes, local, past>>

\* That fails when the tracker file is closed, with a retryable exception: the next
\* attempt resumes whatever is in the file.
SaveFails == /\ At("save")
             /\ dl' = [dl EXCEPT !.pc = "failed"]
             /\ harm' = harm \cup (IF local # <<>> THEN {"unsaved"} ELSE {})
             /\ UNCHANGED <<object, changes, disk, got, seen>>

\* What has happened to the former content of the file matters no more, but for its length:
\* fp.truncate leaves the position where it was, which only a file open for appending ignores.
Truncate == /\ At("truncate")
            /\ local' = <<>> /\ harm' = {}
            /\ dl' = [dl EXCEPT !.pc = "get", !.from = 0,
                                !.hole = IF dl.appends THEN 0 ELSE Len(local)]
            /\ UNCHANGED <<object, changes, tracker, got, seen>>

UntilMutant == IF dl.from = 0 \/ dl.size > Len(object) THEN Len(object) ELSE dl.size - 1

\* A request for all of the object has no Range header.
Until == IF dl.from = 0 \/ dl.size > Len(object) THEN Len(object) ELSE dl.size

\* open_read: the response is of the object as it is now.
Get == /\ At("get") /\ (dl.from = 0 \/ dl.from < Until)
       /\ dl' = [dl EXCEPT !.pc = "receive", !.etag = object, !.size = Until - dl.from,
                           !.rest = SubSeq(object, dl.from + 1, Until)]
       /\ harm' = harm \cup (IF object # dl.etag THEN {"replaced"} ELSE {})
       /\ UNCHANGED <<object, changes, disk, got, seen>>

\* The object has no such part any more: an exception nobody catches.
GetRefused == At("get") /\ dl.from > 0 /\ dl.from >= Until /\ Ends

\* No response: a retryable exception.
GetFails == At("get") /\ Goes("failed")

Hole == [n \in 1 .. dl.hole |-> Zero]

Receive == /\ At("receive") /\ dl.rest # <<>>
           /\ local' = Append(local \o Hole, Head(dl.rest))
           /\ dl' = [dl EXCEPT !.rest = Tail(@), !.hole = 0]
           /\ harm' = harm \cup (IF dl.hole > 0 THEN {"hole"} ELSE {})
           /\ UNCHANGED <<object, changes, tracker, got, seen>>

\* The connection breaks: an exception,
Cut == At("receive") /\ dl.rest # <<>> /\ Goes("failed")

\* or, if the other side has closed it, what httplib takes for the end.
CutSilently == /\ At("receive") /\ dl.rest # <<>>
               /\ dl' = [dl EXCEPT !.rest = <<>>]
               /\ harm' = harm \cup {"silent"}
               /\ UNCHANGED <<object, changes, disk, got, seen>>

Received == At("receive") /\ dl.rest = <<>> /\ Goes("finish")

-----------------------------------------------------------------------------
(* get_file                                                                *)

RemoveTracker == /\ At("finish")
                 /\ tracker' = None
                 /\ dl' = [dl EXCEPT !.pc = "verify"]
                 /\ UNCHANGED <<object, changes, local, past>>

Md5MatchesMutant == (Len(local) = dl.size \/ local = dl.etag) /\ dl.etag \notin Multipart

\* The key's etag is that of the last response.
Md5Matches == local = dl.etag /\ dl.etag \notin Multipart

\* _check_final_md5
Succeed == /\ At("verify") /\ Md5Matches
           /\ got' = local /\ dl' = Idle
           /\ UNCHANGED <<object, changes, disk, seen, harm>>

Unlink == /\ At("verify") /\ ~Md5Matches
          /\ local' = Gone /\ dl' = Idle
          /\ UNCHANGED <<object, changes, tracker, past>>

TriesMutant == IF Len(local) >= dl.had THEN 0 ELSE dl.tries + 1

\* progress_less_iterations
Tries == IF Len(local) > dl.had THEN 0 ELSE dl.tries + 1

MayRetryMutant == dl.tries <= num_retries

MayRetry == Tries <= num_retries

Retry == /\ At("failed") /\ MayRetry
         /\ dl' = [dl EXCEPT !.pc = "loop", !.tries = Tries, !.rest = <<>>]
         /\ UNCHANGED <<object, changes, disk, past>>

\* close reads the rest of a response, where no exception is caught.
CloseFails == At("failed") /\ MayRetry /\ dl.rest # <<>> /\ Ends

GiveUp == At("failed") /\ ~MayRetry /\ Ends

-----------------------------------------------------------------------------

\* The process is killed.  If that is between the tracker file and the file,
\* they do not agree.
Killed == /\ ~At("idle")
          /\ dl' = Idle
          /\ harm' = harm \cup (IF At("truncate") /\ local # <<>> THEN {"torn"} ELSE {})
          /\ UNCHANGED <<object, changes, disk, got, seen>>

Replace == /\ changes < MaxChanges /\ changes' = changes + 1
           /\ \E c \in Content \ {object} : object' = c
           /\ seen' = seen \cup {object'}
           /\ UNCHANGED <<disk, dl, got, harm>>

AttemptStep == \/ TooLarge \/ Complete \/ Resume
               \/ OpenTracker \/ OpenFails \/ SaveTracker \/ SaveFails \/ Truncate
               \/ Get \/ GetRefused \/ GetFails
               \/ Receive \/ Cut \/ CutSilently \/ Received

Step == \/ NextAttempt \/ AttemptStep \/ RemoveTracker \/ Succeed \/ Unlink
        \/ Retry \/ CloseFails \/ GiveUp

Next == Begin \/ Step \/ Killed \/ Replace

Spec == Init /\ [][Next]_vars

\* A process that is not killed goes on.
FairSpec == Spec /\ WF_vars(Step)

-----------------------------------------------------------------------------
(* Properties                                                              *)

\* The types of the variables; the retries stay within num_retries.
TypeOK == /\ object \in Content /\ changes \in 0 .. MaxChanges
          /\ local \in Seq(Block) \cup {Gone}
          /\ tracker \in Content \cup {None} /\ got \in Seq(Block) \cup {None}
          /\ seen \subseteq Content
          /\ harm \subseteq {"narrowed", "replaced", "silent", "torn", "hole", "unsaved"}
          /\ ~At("idle") => /\ dl.tries \in 0 .. num_retries
                            /\ dl.etag \in Content /\ dl.mine \in Content \cup {None}
                            /\ local \in Seq(Block)

Prefix(s, c) == Len(s) <= Len(c) /\ \A n \in DOMAIN s : s[n] = c[n]

\* "We'll resume the transfer for this file": what is in the file is the
\* beginning of the content the tracker file names, after any number of cuts,
\* failed attempts and processes that died, unless the object was replaced
\* between the HEAD request and the response, a process died between the two files,
\* or the file was not open for appending and got a hole.
FileFollowsTracker ==
    \/ tracker = None \/ At("truncate") \/ harm \cap {"replaced", "torn", "hole"} # {}
    \/ Prefix(local, tracker)

\* "The download could have spanned a number of hours and multiple processes":
\* when one succeeds, the file has a content that the object had since this
\* process began, neither a mixture of two nor the one an older tracker file names.
SuccessIsExact == [][got' \notin {got, None} => got' \in seen]_vars

\* The file is deleted only if its object was uploaded in parts, or if, since the file was
\* last emptied, the object was replaced, a process died between the two files, the
\* tracker file could not be written, a file not open for appending got a hole, a response
\* ended early without an error, or the download was cut twice: the second time the key has
\* the size of a part, and the handler takes a part of the file for the whole.
DeletedForAReason ==
    [][local # Gone /\ local' = Gone => harm # {} \/ dl.etag \in Multipart]_vars

\* A download that nothing disturbs any more comes to an end, however often it is
\* cut: without progress, after num_retries.
DownloadsEnd == ~At("idle") ~> At("idle")
=============================================================================
