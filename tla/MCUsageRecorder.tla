-------------------------- MODULE MCUsageRecorder --------------------------
(***************************************************************************)
(* Instances of UsageRecorder for TLC.  Account "ab" is the longer name    *)
(* that the filter "a*" of a report on account "a" selects too.            *)
(***************************************************************************)
EXTENDS UsageRecorder

CONSTANTS i1, i2, q1, q2, cron, cron2, report

MCUser == {"a", "ab"}

MCOwner == [x \in Instance \cup SpotRequest |-> IF x \in {i1, q1} THEN "a" ELSE "ab"]

MCKeyMatch == [u \in MCUser |->
                 IF u = "a" THEN Instance \cup SpotRequest
                 ELSE {x \in Instance \cup SpotRequest : MCOwner[x] = u}]

MCSubject == [r \in Recorder |-> IF r = report THEN "a" ELSE "everyone"]
=============================================================================
