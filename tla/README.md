# A verification project for ec2-wrappers

`ec2-wrappers` is a set of Python scripts with which a class of students uses
one Amazon account: students get credentials of their own, launch instances
through a privileged program that watches a spending limit, and a cron job
records how long instances run so that usage can be reported. The scripts share
little but two SQLite databases, a log file and Amazon's services, and many of
them run at the same time, started by students and by cron. This directory
holds TLA+ models of these scripts, the configurations that check them with
TLC, and proofs checked with TLAPS.

Paths below are relative to `src/`; `SA` is `ec2-wrappers/subaccounts.py`, `RU`
is `ec2-wrappers/record_usage.py`, `EC` is
`ec2-wrappers/hadoop/cloud/providers/ec2.py`, `SV` is
`ec2-wrappers/hadoop/cloud/service.py`, `SB` is
`microproxy/lib/HTTP/Proxy/Engine/ScoreBoard.pm` and `RD` is
`ec2-wrappers/boto-src/boto/s3/resumable_download_handler.py`.

## 1. Inventory

| Component | State it keeps | Operations | Interacts with |
|---|---|---|---|
| Launch quota: `SA` `run_instances`, `ec2_runner.py` | none of its own; asks EC2 for the account's instances | price, compare with `SPEND_LIMIT`, log, launch or file a spot request | EC2 through boto, audit log; started by `hadoop-ec2` (`cs61cec2.py`) through the setuid wrapper |
| Audit log: `audit.py` | an append-only file under `flock` | `audit_log` | every privileged operation |
| Usage recorder: `RU` `update_instances`, `update_spot_requests`, `usage_cron.py` | usage database: `instances`, `instance_stopped`, `pending_spot_requests` | poll EC2, import instance by instance, replace spot requests | EC2; the database is shared with reports |
| Usage report: `RU` `user_report`, `usage_report.py` | none | refresh the database for one account, sum up hours and prices | usage database, EC2 |
| Access keys: `SA` `create_access_key`, `delete_access_key`; `ec2_util.py --rotate-secret` | identity database, table `access_keys`; IAM's keys | list, delete, create, rotate | IAM, audit log |
| SSH key pairs and IAM users: the rest of `SA`, `ec2_util.py`, `kill_all_accounts.py` | tables `ssh_keys`, `users`; EC2's key pairs, IAM's users | create and delete key pairs, make and delete users, set passwords | IAM, EC2, audit log |
| Cluster launch: `hadoop/cloud/service.py`, `providers/ec2.py`, `cs61cec2.py` | EC2 security groups and instances | launch master, slaves or a whole cluster, wait with a timeout, authorize ports, terminate, delete | EC2, launch quota |
| Cluster storage: `hadoop/cloud/storage.py`, `providers/ec2.py` | a JSON file of volumes beside EC2's volumes | create, attach, delete | EC2, cluster launch |
| Command lines, wrapper, boot scripts, configuration | none that several processes share | option parsing, environment, installation | all of the above |
| `microproxy` | table of child processes | pre-fork, reap, kill idle children | children through a pipe |
| Bundled boto | for a resumable download: the file and a tracker file | API calls, with a retry loop (`_mexe`); downloads that are resumed by later processes | Amazon |

What is hard about each, and what makes it correct:

* **Launch quota.** The price is computed from an answer of EC2 that is old by
  the time of the launch; processes of one account overlap; boto transmits a
  launch again when an answer is lost; spot requests become instances later.
  Correct means: the account's cost stays under *some* bound whatever
  interleaves (which one is section 4), and nothing exists at EC2 that the
  audit log does not announce.
* **Usage recorder.** Each transaction covers one instance, but the list that
  is imported was fetched before, and two recorders may hold lists of different
  age; instances end, stop, restart and drop out of EC2's answers meanwhile;
  recorders die. Correct means: a recorded end is true and final, a finished
  instance is charged for the time it ran, and ends get recorded in the end.
* **Access keys.** IAM and the database are changed one after the other with no
  transaction over both; overlapping rotations work from lists read at their
  start; a lost answer repeats a call that was carried out. Correct means: the
  two stores agree up to what a process is just doing, keys do not pile up, and
  the student ends up with a key that works.
* **Cluster launch.** Checks before acts (is a master running, does the group
  exist), a timeout after which launched instances go on starting, a
  termination that looks at running instances only, groups that are deleted one
  by one, permissions that are revoked before they are granted. Correct means:
  masters are as few as the checks allow, what is left over has a cause that can
  be named, slaves are sent to a master of their cluster.
* **Cluster storage.** A file that is read, changed and rewritten without a
  lock, and volumes that exist before the file names them. Correct means: file
  and EC2 agree up to commands that ended early, an instance gets the storage of
  one instance, and other clusters' volumes are left alone. Deletion itself is
  barely reached: the listing before it raises for any role that has volumes.
* **microproxy.** Status records of children that arrive after the child was
  reaped, signals that arrive between a test and a system call, clients that say
  nothing. Correct means: no child is missed, connections are served while there
  is a child to serve them, stopping ends. Nearly all of that
  directory is the third-party HTTP::Proxy library.
* **Resumable downloads.** Two files that are changed one after the other,
  responses that are cut, an object that changes meanwhile, files opened in modes
  the handler does not expect. Correct means: a
  success is the object's content, and work is thrown away only when it must be.

`PROJECT.json` lists every hazard at its line, with the properties that cover it
or the reason why none does yet.

## 2. Modules and plan

| Module | What it is | State |
|---|---|---|
| `Budget` | abstract account: claims against a limit that nothing ties to their use | written |
| `LaunchQuota` | `run_instances` with boto's retries and EC2; implements `Budget` | written |
| `Ledger` | abstract table of ends: recorded once, then final | written |
| `UsageRecorder` | cron and reports over the usage database; implements `Ledger` where recorders do not overlap | written |
| `Credentials` | key rotation over IAM and the identity database | written |
| `VolumeStore` | storage commands over the JSON file and EC2's volumes | written |
| `ClusterLaunch` | launch, wait, authorize, terminate and delete of a cluster | written |
| `ScoreBoard` | the pre-forking engine of microproxy | written |
| `ResumableDownload` | boto's resumable download handler, with S3 | written |
| `BudgetProofs`, `LaunchQuotaProofs`, `RecorderProofs`, `CredentialsProofs`, `ScoreBoardProofs`, `ResumableDownloadProofs`, `ClusterLaunchProofs`, `VolumeStoreProofs` | theorems | written |
| `MCBudget`, `MCLaunchQuota`, `MCUsageRecorder`, `MCCredentials`, `MCVolumeStore`, `MCClusterLaunch`, `MCScoreBoard`, `MCResumableDownload` | instances for TLC | written |

The order follows what costs money: launching first, then the accounting that
notices it, then credentials, then clusters, then what runs beside them. Abstract specifications are kept
where the code has a promise that survives all its interleavings (`Budget`) or
that names exactly what the interleavings break (`Ledger`). Modules with
theorems use no recursive operator, and neither do the others. Runs are of two
or three processes, one to three objects and one or two faults, the smallest
sizes at which each hazard occurs.

## 3. What the modules model

### Budget and LaunchQuota

`LaunchQuota` follows one student account. `proc[p]` is an `ec2_runner.py`
process; `live` and `spot` are EC2's instances and open spot requests by kind of
key name and instance type; `making` and `refused` are what the audit log says.

| Action | Code |
|---|---|
| `Price` | `ec2_runner.py` accepts the request (lines 36-74), `run_instances` calls `cost_instances` (SA 222) and `cost_proposal` (SA 226); what is kept is the result of the comparison to come |
| `Reject` | the two lines after `SA` 241 |
| `Approve` | the line "Making instance requset" (SA 245) |
| `TransmitAnswered`, `TransmitAnswerLost`, `TransmitLost` | one round of `_mexe`'s loop around `RunInstances` or `RequestSpotInstances` (SA 248-273) |
| `Fail` | the process dies, or EC2 refuses |
| `Terminate`, `FulfilSpot`, `CancelSpot` | EC2, also at the student's request (`student-policy` allows it) |

Key names are of two kinds because the code tests them twice and differently:
`run_instances` wants the account name as a prefix, `running_instances` filters
by the account name and a dash. A key `alias` passes the first test and not the
second, so its instances are never priced. The counted cost, which the
properties are about, is that of `cost_instances`. The table of prices is the
code's, in tenths, so that the comparison is exact. The code compares floats:
sums of prices such as 0.2 and 5.9 can be off in the last digit, and a
request that meets `SPEND_LIMIT` to the digit might be decided the other way;
that rounding is not modelled.

`Budget` keeps only a cost and, for each process, a claim: how much it may still
add, how often. `BudgetRefined` says that launching implements it, with the
claim opening at `Price`, where the comparison's outcome is fixed, and not at
the launch.

### Ledger and UsageRecorder

`state`, `launch`, `ran`, `term` are an instance at EC2 and the time it really
ran; `start`, `end`, `stopOpen`, `pending` are the database; `pc`, `seen`,
`now`, `reqs` are a process.

| Action | Code |
|---|---|
| `FetchInstances` | `get_all_instances` with the filter of the report (RU 86-90) |
| `ReadClock` | `now = ...` (RU 91), once for the list and after it was fetched |
| `ImportInstance` | one transaction (RU 95-142): which row is written (`WritesRow`), with which end (`WrittenEnd`) and start (`WrittenStart`), and the row of a stop |
| `ImportRaises` | the statement at RU 124, which is not SQL (`WHERE` before `SET`) and raises whenever it is reached, that is when an instance with an open stop is seen running again; nothing catches it, the transaction is rolled back, the process is over |
| `FetchSpotRequests`, `ReplaceSpotRequests` | RU 144-172; the deletion is by account name, the selection by prefix of the key name |
| `Abort` | the process is killed, EC2 refuses, the database is locked |
| `Tick`, `LaunchInstance` ... `ForgetInstance`, `SpotStep` | the clock, EC2 and its users |

`Cron` processes select everything, reports what their filter matches, which for
an account name that is a prefix of another includes the other's instances
(`KeyMatch`, and account `ab` beside `a` in the instances for TLC).
`FinishedTime` is the view `finished_instance_times`: because no stop is ever
closed the subtrahend of the view is always zero. Rounding to hours, prices,
`last_seen`, `is_spot` and `instance_type` are left out; no guard reads them.
The order within a list is any order. EC2 may refuse the filter name
`launch.key_name`; a report then ends in `Abort`.

### Credentials

`iam` is what IAM accepts, `rows` the table `access_keys` in the order SELECT
returns it, `proc[p]` an `ec2_util.py --rotate-secret`.

| Action | Code |
|---|---|
| `Start` | `User(...)`, with `init_access_keys` (SA 98): the list the process keeps |
| `DeleteAtIam`, `DeleteRefused`, `DeleteRow` | `delete_access_key` (SA 190): IAM first, then audit line and row; the mentions of `init_iam` and `init_access_keys` at its top lack parentheses and do nothing |
| `CreateAtIam`, `InsertRow` | `create_access_key` (SA 128) |
| `DeleteAnswerLost`, `CreateAnswerLost` | `_mexe`: carried out, transmitted again |
| `Abort` | the process dies, or the database is locked |
| `StudentDeletes` | the IAM tools, which `get_user_policy` (SA 276) opens to students |

`harmed` and `faults` only record where faults hit, so that properties can
except them. The number of retries is left open (after a lost answer the process
goes on or raises); it does not matter to the properties. At this commit
`ec2_util.py` line 37 reads `!opt['init']`, which Python does not accept; the
model is of the program with `not` in its place.

### VolumeStore

`vol`, `at` and `inst` are EC2's volumes and the cluster's instances; `names` is
what the JSON file has for each role, one list of volumes for each instance, and
`torn` says that the file is not JSON; `proc[p]` is a `hadoop-ec2` process. A
role is a sequence of letters, because the code confuses the two.

| Action | Code |
|---|---|
| `Create`, `CreateVolume`, `Add` | `Ec2Storage.create` (EC 344): the volumes of one instance at EC2, then `add_instance_storage_for_role`, for each instance |
| `Load`, `Truncate`, `Write` | `JsonVolumeManager._load` and `_store` (`storage.py` 75-83): `open(..., "w")` empties the file before `json.dump` fills it, and two writers leave the end of the longer text (`Written`) |
| `Attach`, `ReadRole`, `Describe`, `AttachNext`, `NextInstance` | `attach` (EC 420): instances, then the file, then one description of the volumes and the plan it makes (which list for which instance, `Plans`), then one call for each volume of the list at hand, list by list |
| `Delete`, `ListRoles`, `ListRole`, `ListRaises`, `Prompt`, `GetRoles`, `NextRole` | `Service.delete_storage` (SV 154): `print_status` reads the file's roles, then each role's volumes, and raises for a role that has some, because `_print_volume` (EC 397-401) reads `availabilityZone` and `attach_time`, which boto's `Volume` does not have; then the user's answer, and the roles are read again |
| `ReadLetter`, `Check`, `DeleteVolume`, `RemoveRole` | `Ec2Storage.delete` (EC 462), which is given a string and goes through its letters; `Described` is `get_all_volumes`, which without ids returns all volumes |
| `...Raises`, `...Refused`, `Killed` | a file that is not JSON, a volume or role that is not there, EC2's refusals, a process that is killed |
| `CreateAnswerLost` | boto sends `CreateVolume` again |

`dead`, `resent`, `undone` and `mixed` only record what has gone wrong: commands
that ended early, calls sent twice, the volumes that a delete-storage had deleted
when it ended early, and updates by two commands at a time. The properties except
exactly these. Because of `print_status`, a delete-storage deletes only volumes
that another command has put into the file since it listed it, or what
`Ec2Storage.delete` takes for them.

### ClusterLaunch

`groups` and `rules` are the cluster's security groups and permissions, `inst`
its instances with their groups, the host they were told and the process that
launched them; `site` is the client's `hadoop-site.xml`.

| Action | Code |
|---|---|
| `LaunchMaster`, `LaunchSlaves`, `LaunchCluster` | SV 261-295; the checks of `check_running` are at the beginning, and nothing is held until the launch |
| `ListGroups` ... `CreateRoleGroup` | `_create_groups` (EC 120), once for each role, one call to EC2 after the other |
| `RunInstances`, `RunAnswerLost`, `RunRefused` | `launch_instances` of `cs61cec2.py` (63-79): the launch quota as one call that may be refused, or carried out while the answer is lost; boto's `_mexe` then sends it again, or gives up and `ec2-run` fails |
| `Wait`, `WaitTimeout`, `Gather` | `_launch_instances` (SV 221-231); after a timeout it returns nothing, and a template of one instance then raises at `len(None)` |
| `HostOf`, `NextTemplate` | `_launch_cluster_instances` (SV 373) |
| `WriteSite`, `BeginAuthorize`, `Revoke`, `Grant`, `LaunchDone` | SV 395-478, EC 145-160 |
| `Terminate`, `TerminateListed` | `terminate` (`cs61cec2.py` 103): a list of running instances, then the call |
| `Delete`, `DeleteGroup` | `delete` (EC 259), group by group in any order |

One cluster, its Hadoop roles. EC2 answers an authorization that exists already
with an error, as the comment at EC 151 says, and refuses to delete a group that
has instances; instances start or fail at any time. `strays`, `opened` and
`upset` record what has gone wrong. Strays are instances their launch did not wait
for to the end, and those of a call whose answer was lost: these exist, and no
command has their ids. On a fresh cluster `launch-master` always
raises while it opens ports, because the groups of the slaves' roles do not exist
yet; the model shows the same.

### ScoreBoard

`kids` is the parent's table, `child[k]` the process `k` with its place in the
loop of `_run_child`, `pipe` the status records. The parent's phases are the four
of `run()` (SB 55) and the two of `stop()` (SB 150); each is one step except for
reaping, which is one step for each child. A signal (`Interrupted`) clears `loop`
and interrupts the system call the child is in, or is noted before the call and
then does not interrupt it. A child with a connection looks at `loop` before each
request (`Serve`) and then waits for its client (`Proxy.pm` 308: `get_request` and
the `print` of a response have no timeout), who acts, leaves, or does neither
(`ClientActs`, `ClientLeaves`; `ServeDies` is a child that dies of a request).
Process ids are used again as
soon as a child has been reaped. Time is left out: whether `verify_delay` has
passed, or a second since the last fork, is open.

### ResumableDownload

`object` is the content in S3, `local` the file, `tracker` the etag in the tracker
file, `dl` the process. The attempt loop of `get_file` (RD 273-330) is `NextAttempt`
to `GiveUp`; an attempt (RD 171-213) either resumes or opens the tracker file,
saves the etag, truncates the file and starts again. `Begin` is a caller that opens
the file for appending, emptied (`'w'`, as boto's own tests do) or as it is (`'r+'`).
Only in the first case does `fp.truncate(0)` (RD 207) also move the position to the
beginning: otherwise the first block is written where the old file ended, and zeros
are read before it (`hole`). A tracker file that cannot be opened ends the process
(`OpenFails`); one whose text cannot be written raises at `close()` (RD 162-164), an
`IOError` that `get_file` retries with the etag in memory already (`SaveFails`), so
that the old file is resumed. `TooLarge` says "Deleting tracker file" and does not
delete it. `Get` is `Key.open_read`,
which takes over etag and length of every response. A response may end by an
exception (`Cut`) or, because httplib takes a closed connection for the end,
without one (`CutSilently`). A content is a short sequence of blocks, possibly none,
and stands for its own etag. The etag is an MD5 sum, except for contents in
`Multipart`, of objects uploaded in parts (`boto/s3/multipart.py`): no file passes
the comparison with theirs (RD 227), and `ETAG_REGEX` does not accept it from a
tracker file, so that no later process resumes them. `harm` records what has gone wrong since the file was last
emptied. The wrappers themselves do not call this handler; it is modelled because
it is the one part of the bundled library, beside the retry loop, with a protocol
over failures.

## 4. What is checked

All runs check for deadlock except those of `Credentials`, `VolumeStore` and
`ClusterLaunch`, where nobody has to give another command and the number of
commands is bounded, and of `ScoreBoard`, where nothing more happens after
`stop()`.

| Run | Bounds | Shows |
|---|---|---|
| `budget` | 3 runners, 2 transmissions, limit 3 | `CostInv`, the inductive invariant of the proof: the interplay of several open claims needs two runners, three show that a third adds nothing new |
| `quota_overlap` | 2 processes, 2 transmissions, 3 approvals, four requests that meet the limit exactly or exceed it by a tenth | the counted cost never exceeds processes x transmissions x `SPEND_LIMIT`; launching implements `Budget` |
| `quota_spot` | 2 processes, spot and on-demand, both kinds of key, 2 approvals | the log covers what exists, spot requests and retransmissions included |
| `quota_overlap_limit` | 2 processes, 1 transmission | **violated**: `SPEND_LIMIT` does not hold with two processes |
| `recorder_overlap` | cron and a report, 1 instance, 1 spot request, times 0 to 2, 1 abort | a recorded end is true, covers the run, and is lost only to a list older than the end; ends are recorded for good, the spot table agrees with EC2 in the end |
| `recorder_alone` | cron, 2 instances, restarts | without overlap the database is a ledger |
| `credentials_overlap` | 3 processes, 7 keys, 2 faults | the stores agree up to keys in hand and faults; at most one key per process; without faults, an account on which no rotation runs has a recorded key and all its recorded keys work, and rotations that overlap and refuse each other end |
| `storage` | 2 processes, 2 roles, 2 volumes for an instance, 3 commands, 1 fault | a volume that exists is in the file or in a command's hands, but for one instance's volumes for each create that ended early; the file names volumes that exist; an instance has the storage of one instance |
| `storage_delete` | 2 processes, 2 commands, 1 volume of another cluster | **violated**: delete-storage lists an empty file, create-storage records a role, the user says yes, and the other cluster's volume is deleted; `DeletesNothingAlone` (section 5) says why it takes two processes |
| `cluster` | 2 processes, 3 instances, 3 commands, 1 fault | masters that `launch-master` brought up are at most as many as processes, but for those of a call whose answer was lost; instances that are pending are watched by a process unless a timeout, failure, lost answer or death explains it; the cluster's group is open to itself; groups that `delete-cluster` no longer finds, ports that are closed and slaves without their master are explained in the same way |
| `scoreboard` | 2 process ids, a pipe of 2 records, 2 requests for each child | no child is missing from the table, `stop()` leaves none; connections are accepted in the end although the table may be full of children that are gone, unless `max_clients` children are held by their clients; `stop()` ends unless a process id without a child, a child deaf in `accept`, a child that noted the signal and waits for its client, or a full pipe keeps it |
| `download` | 4 contents of 0 to 3 blocks, one uploaded in parts, files opened in 3 modes, of at most 3 blocks when opened `'r+'`, 1 retry, 2 replacements, any number of processes | what is in the file is the beginning of what the tracker file names; a success is a content the object had since the process began; the file is deleted for one of seven reasons; downloads end |

Why the bounds are enough. Launching: fifteen `m1.large` cost exactly the limit, nine `m2.xlarge` and seven
`m1.small` together a tenth more, so that a comparison that lets a tenth too much pass
is caught; three
approvals let a process launch again after another's launch; the theorems remove
the bounds. Recorder: three instants are enough to
put the launch, the end and the clock reading apart in any order, and a second report would do nothing that cron and one report
do not. Storage and clusters: three commands are a command, one that overlaps it and
one that finds what they left. Of the two roles for
storage one has a single letter, so that what `Ec2Storage.delete` reads letter by letter
is a role with volumes, and one has two, which are no roles; two volumes for an instance let a create end between them; one command creates
the storage of up to two instances of the first role and of one of the second. ScoreBoard: two ids are enough for a table full
of children that are gone; how many children there can be does not show with two,
and is proved. Downloads: contents that share their beginning or differ in
length, an empty one and one uploaded in parts, and two replacements, so that a
content can come back; `MaxFile` bounds only the file that `'r+'` finds, since holes
could otherwise grow from process to process. Credentials: seven keys are the first one, one for each of the three processes, one
for each fault, and one spare, so that a second generation of rotations happens.

**What the checks found beside the two violated runs.** These were found with
configurations of the same modules that are not kept as runs:

* `SPEND_LIMIT` does not hold for a single process that files spot requests: open
  requests are not priced (SA 222).
* With overlap a recorded end can go away again, although "We can safely import
  each instance as a transaction" (RU 94): `LedgerRefined` holds for
  `recorder_alone` and not for the instance of `recorder_overlap`.
  `ClearedByStaleList` says how it happens.
* With restarts `EndsGetRecorded` does not hold: the statement at RU 124 is not SQL
  and raises, so that one restarted instance blocks the recording of all that are
  listed after it.
* An instance that is stopped and then terminated is charged for the time it was
  stopped, although the README speaks of "instance hours running" (line 84).
* After a key has gone at IAM only, every later rotation is refused at its row,
  although nobody else runs: `RotationsConverge` needs that there are no faults.
* A download that is cut twice may be thrown away: the size of the key is that of
  the last response (`"narrowed"` in `DeletedForAReason`).
* The same happens to a download that starts anew over data in a file that is not
  open for appending (`"hole"`; boto's
  `test_download_with_object_size_change_between_starts` expects it), to one whose
  tracker file could not be written (`"unsaved"`), and to every download of an
  object uploaded in parts, whose content is correct.
* `max_clients` silent clients keep every other client waiting for ever, and one that
  is silent when the proxy is stopped can keep `stop()` from ending (`Hung`).

**Deadlock.** Processes can always start again in `LaunchQuota`, `UsageRecorder`
and `ResumableDownload`.

**Fairness.** `UsageRecorder!FairSpec` is weak fairness of each cron process:
cron starts update after update (README, "a cronjob is included"), and a process
that runs gets on. Reports, students and EC2 need not do anything. With
restarts this is not enough, because `ImportRaises` is a step too.
`Credentials!FairSpec` is weak fairness of the steps of a rotation that runs;
rotations need not start. `ScoreBoard!FairSpec` is weak fairness of the parent and
of each child's own steps (`OwnStep`), which are processes that the system schedules,
but not of what a client does, who may stay silent for ever, and strong fairness
of `VerifyKids` and `ForkKid`: whenever the parent comes to them the clock may not
have advanced far enough, but it does not stay so for ever, and fork does not fail
for ever. Nobody has to connect. `ResumableDownload!FairSpec` is weak fairness of
the process's own steps; responses may be cut every time, and that it ends
nonetheless rests on the count of attempts without progress and on the object
being replaced a bounded number of times. `VolumeStore` and `ClusterLaunch` have no
liveness property: most of their commands end by an exception somewhere.

**Mutants.** Each property of a passing run has a mutated definition (named
`...Mutant`, next to the definition it replaces) that the property rejects: a
comparison that forgets the request or is off by one, a call that is sent once too often, an audit line that forgets the count, an
end time that is rewritten or comes from a wrong state, a start time from the
wrong clock, a deletion or insertion that is missing, a list that is not reset, a
permission that is not granted, a table that is not verified, a resumption that
does not compare etags, an attempt that counts as progress without any.

## 5. What is proved

For all values of the constants, under the assumptions each module names (finite
sets of processes, natural numbers, requests of known types).

* `BudgetProofs`: `BudgetTypeCorrect`, `BudgetInvariant` and `BudgetBounded`: the cost is at most
  `Ceiling == Cardinality(Runner) * Sends * Limit`. That statement is not
  inductive: it says nothing about claims still open. The invariant `CostInv`
  counts the transmissions all open claims have left as a set of `Tokens` and
  says that *one* of them was opened against a cost under the limit: the cost
  plus its own addition, plus a whole limit for each *other* token, is at most
  the ceiling. A new claim is its own witness (it has just been compared); a
  use of a claim takes a token away, which is worth a limit, and adds at most a
  limit; the end of instances only lowers the cost.
* `LaunchQuotaProofs`: `TypeCorrect`; `LaunchRefinesBudget` and through it
  `SpendIsBounded`; `SerialWithinLimit`. The last three assume that no spot
  requests are made (`TRUE \notin SpotModes`): with them the statements are
  false (section 4). `SerialWithinLimit` also assumes one
  process and one transmission: the only setting in which `SPEND_LIMIT` itself
  holds, beside the run that violates it. `AuditCoversHolds` needs none of this:
  what exists at EC2, spot requests included, is at most what the log accounts
  for. Its invariant (`CoverInv`) adds what the calls under way may still bring
  about, which is a sum over processes; it is written as the size of a set of
  `Tokens`, one for each instance of each transmission a process has left, so
  that no induction is needed: a transmission takes its tokens away and makes at
  most as many instances.
* `RecorderProofs`: `TypeCorrect`; `EndTimesAreReal`, for any recorders and
  restarts, by the invariant `EndInv`, which follows an end from EC2 over the
  list to the table: what a list shows as terminated has ended, and did so
  before the recorder read the clock; `EndsAreClearedByStaleLists`, which uses
  the same invariant for the list that overwrites; `DatabaseIsLedger`, if no two
  recorders select the same instance (`Apart`), by `ListIsFresh`: whoever still
  has to import an instance with an end has it as terminated;
  `FinishedTimeIsEnough`, without restarts, by `ChargeInv`: an instance has not
  run for longer than it has existed, and all lists and rows have its one launch
  time.
* `CredentialsProofs`: `TypeCorrect`, `RecordedKeysWorkHolds`,
  `WorkingKeysAreRecordedHolds` and `OneKeyPerProcessHolds`, for any processes,
  keys and faults. `StepEffect` states once what each step does to four sets:
  the keys on a process's list (`Todo`), created and not yet recorded (`Adds`),
  deleted at IAM and not yet in the table (`Drops`), and recorded; every
  invariant is then proved over these effects. The first two properties need
  that a key that awaits its row is on nobody's list (`NewKeysAreNew`: else
  another rotation could delete it before its row exists) and that a key whose
  row is about to go is dead at IAM (`DroppedAreGone`). For the number of keys,
  consider a process that runs, the recorded keys it does not know, and the
  other processes that may still add a key while those stay (no key left on
  their list is dead, and none is among the unknown ones): together they are
  fewer than the processes (`RoomFor`). A new rotation knows all keys; a row
  that goes lets at most one process in, because every other process with that
  key on its list will be refused; a process that inserts a row was counted. When
  a process inserts its own row its list is empty, so all keys were unknown to
  it and there is room for one more. `NeverLockedOutHolds` is for runs without
  faults: rotations could refuse each other until no working key is recorded, if
  each lost its row to another. They do not, because all delete in the order of
  the table: a list is in the table's order and has with a key all those before it
  in the table (`InOrder`, `Closed`), and the keys of a list that are dead come
  before those that work (`DeadFirst`). So there is always a recorded key that
  works, or a rotation under way that nobody will refuse (`SomeoneSucceeds`).
  `RotationsAreShort` gives each rotation a rank, two for each key on its list and
  two, that its own steps lower and nobody else's raise. By `OneKeyPerProcessHolds`
  it is at most `2 * Cardinality(Util) + 2`. It is `RotationsConverge` but for
  fairness. The invariants were checked with TLC on the instance of
  `credentials_overlap` before they were proved.

* `ScoreBoardProofs`: `TypeCorrect`, `NoChildIsMissed`, `AtMostMaxClients` and
  `StopLeavesNone`, for any finite set of process ids, any configuration and any
  size of the pipe. The inductive invariant (`Invariance`) puts them together: the
  bound on the children needs that the table which `run()` counts has all of them
  in it, so that a fork under `max_clients` by the table is one under
  `max_clients` in truth; that the table has all of them needs that status records
  never say "none" and that verification keeps whoever exists. `Same` states once
  what a signal or a step of a child may do to a process: it neither makes nor
  removes it and gives nobody the lock. `StopIsShort` is what `StopEnds` needs
  beside fairness: while `stop()` waits, every child has been sent the signal, no
  process is made, and each step of a process brings it nearer to being reaped
  (`ToEnd`), which is at most nine steps away.

* `ResumableDownloadProofs`: `TypeCorrect`, `ResumesTheRightFile`,
  `NeverDeletedInVain` and `NoMixtures`, for contents of any blocks and any length,
  any `num_retries` and any number of replacements. The assumption says that
  the two markers for "no etag" and "no file" are not data. That the file follows the tracker is not inductive: it says nothing of
  the key a process has in memory. The invariant has, for each place of an
  attempt, what is still to come: the etag in memory is the one in the tracker
  file except while that is written, or after that failed (`TrackerIsMine`), it is the key's unless the
  object was replaced between two requests (`MineIsTheKeys`), a request begins
  where the file ends (`RequestFollowsFile`), and what a response still has to
  deliver is what comes after the file in the content it is of
  (`ResponseFollowsFile`). Each of these has the alternatives that `harm` records (a
  hole, a death between the two files, a tracker file that was not written), and
  `NeverDeletedInVain` follows because a file that fails the comparison has met one
  of them or is of an object uploaded in parts. `DownloadsAreShort` bounds a download, for any bound
  `size` on the length of contents: four numbers in lexicographic order, the times
  a non-empty file may still be emptied (at most three), the blocks missing from it
  (at most `size`; a hole counts as what it covers), the attempts left without
  progress (`num_retries + 1`), the place in the attempt (at most `size + 7`). Every step of the process lowers them and no other raises them,
  except that a replacement of the object starts them anew; replacements are the
  environment's and bounded.
* `ClusterLaunchProofs`: `Invariance`, and from it `TypeCorrect`,
  `PendingAreWatched`, `GroupsAreReachable`, `OrphansExplained`, `RightMaster`,
  `PortsStayOpen` and `FewMasters`, for any finite sets of processes and instances
  and any roles, ports and numbers of slaves. The assumption takes the templates
  as the code has them: the namenode is no role of slaves, the cluster's own group
  none of its roles'. For the number of masters, a master that was waited for to
  the end belongs to a process that no longer launches one (`OwnedMasters` states
  an injection); a launch under way has one master at most, so that masters and
  launches together are fewer than the processes. Instances of a call whose answer was
  lost are strays from the moment they exist; what a call makes is stated once for
  both outcomes (`Grows`). For the host of slaves, a launch
  has no other instance while it waits for its masters (`MastersFirst`), so the
  host it finds is its own. For the ports, a port is open, about to be granted, or
  still on the list of *each* launch that is revoking (`Ports`): a launch that
  ends its list has been through all of them.
* `VolumeStoreProofs`: `Invariance`, and with it `TypeCorrect`,
  `FileNamesWhatExists`, `LeaksBounded` and `NeverTwoLists`, for any finite sets of
  volumes, processes and instances, any roles and any number of commands and
  faults. The assumption adds to the finite sets that `None` is no instance and
  that roles are sequences of the letters that occur in them. Every step is first
  put into one of sixteen classes by what it does to the state (`Moves`,
  `StepTypes`), and the three layers of the invariant are proved over these.
  `Provenance` needs no exception: each list of volumes is made once, by one
  create-storage, and the file and the commands only pass lists on; two lists that
  share a volume are one list of one role (`Apart`), and volumes being made are in
  none (`Fresh`). Two commands that update at a time can lose lists or bring
  them back, never mix them. `Updates` holds while no two commands update the file
  at a time: whoever has truncated it is alone with it, what is about to be stored
  is the file and the change (`Sound`), each volume that the file or a command
  has exists or is on a delete-storage's list (`AllStand`; `RecordedVolumesExist`
  alone would say nothing of the copies that become the file), and the count of
  `LeaksAreBounded`. `Attachments` holds while nobody attaches at the same time
  either: the volumes attached to one instance are from one list in the file *and*
  in every copy about to replace it, attach-storage knows every attached volume of
  its role (`KnowsOf`), and what is attached to an instance it plans for is from
  the planned list (`PlanHolds`). That an attachment keeps this uses `Apart`: the
  volume's list in the file is the planned one.
  `UpdatesAreAtomic` says what the JSON file is worth without a lock: while no two
  commands update it at a time and none ends with the file truncated, it is JSON
  except while one command writes it, and each change of it is a whole update, one
  instance's new volumes appended or one role with deleted volumes taken away. The
  change is stated of what the file has or, while it is truncated, of what the one
  who truncated it is about to write (`Shown`).
  `DeletesNothingAlone` is the other side of the `storage_delete` run: with one
  process no volume is ever deleted, for any roles, any number of commands, killed or
  refused anywhere. Past the listing every role in the file has no volumes
  (`AllBarren`), nobody else adds any, and there is no role for `Ec2Storage.delete` to
  go through.

The inductive invariants of these three modules were checked with TLC on the instances
of `download`, `cluster` and `storage` before they were proved (that of `VolumeStore`
with `Attachments` spelt out process by process), and so were `CoverInv` on that of
`quota_spot` and the action properties of `UpdatesAreAtomic`, `DownloadsAreShort` and
`StopIsShort` on those of `storage`, `download` and `scoreboard`.

Only model-checked: all liveness (`EndsGetRecorded`, `SpotTableConverges`,
`RotationsConverge`, `ConnectionsAreServed`, `StopEnds`, `DownloadsEnd`), which is
out of the prover's reach. For `RotationsConverge`, `StopEnds` and `DownloadsEnd` the
numbers that fall are proved, and what is left to TLC is that a step stays possible
until the end (`ENABLED`) and is taken (fairness). Every other property of a passing
run is a theorem.

## 6. What is not modelled

* SSH key pairs and IAM users. At this commit their operations fail in the same way
  on every call, whatever else happens: `make_user` and `set_password` raise,
  `delete_ssh_key` mentions `delete` without calling it, `delete_user` swallows a
  `NameError`. There is no order of steps to explore.
* Most of the bundled boto, which is most of the repository's Python (some 36000
  of 39000 lines): classes that build requests to some twenty Amazon services and
  parse the answers, without state of their own that several steps share, and
  nearly all of them for services the wrappers never call. Its share of the lines
  is therefore not covered, and modelling it line by line would say nothing about
  this system. The parts with a protocol are modelled: the retry loop, the
  resumable download, and `get_all_volumes` as deletion uses it. The resumable
  *upload* handler speaks a protocol of Google Storage only.
* `create-formatted-snapshot`, a script of ssh commands on an instance of its own;
  logging in, proxying and copying files; waiting for Hadoop's web page.
* The ZooKeeper service: its `launch_cluster` takes one argument fewer than the
  command line passes, and raises.
* Two clusters, one of which is called like the other with a dash and a word: the
  pattern at EC 116 takes the other's groups for its own.
* The ports of students' proxies (`proxy_port_base`), which is arithmetic on the
  letters of an account name.
* Filters, SOCKS and HTTP in microproxy; its log.
* Prices and hours printed by reports; the text of log lines; password and key
  material.
* Database locks: a recorder or rotation that meets one raises, which is
  `Abort`. SQLite itself is taken to be atomic per transaction; README warns
  about shared filesystems.
* Account names that are prefixes of each other on the launching side: the
  staff account's launches would be priced with students' keys. On the
  recording side they are modelled.
* Two recorders that write the same stop in the same microsecond (a primary key
  conflict), and `ec2_runner.py -c`, whose count is a string and fails in the
  multiplication.
