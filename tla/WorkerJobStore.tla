--------------------------- MODULE WorkerJobStore ---------------------------
(***************************************************************************)
(* The Worker Job store of one repository                                  *)
(* (server_operational_worker_jobs.rs): fixed records in worker_job.bin, a *)
(* ready index and a state index beside it, and an update journal that     *)
(* protects the replacement of a record.  Every operation works alone,     *)
(* under the exclusive queue lock, in steps that each change one file; a   *)
(* step may fail and the server may stop between or inside any two.        *)
(*                                                                         *)
(* finish_prepared_ci binds a job inside a Binary DB transaction of the    *)
(* ServerLand scope, whose rollback journal covers the record and the      *)
(* publication together.  Server start recovers in the order of            *)
(* open_repository_runtime and invalidates package jobs whose source was   *)
(* only in memory.                                                         *)
(*                                                                         *)
(* Rows of the ready index carry no availability time here: it changes     *)
(* only together with the state.                                           *)
(***************************************************************************)
EXTENDS WorkerJobRecords, FiniteSets

CONSTANTS
  Faults,      \* the faults that may happen
  MaxFaults    \* bound: faults of a behaviour

ASSUME FaultAssumption == Faults \subseteq {"io", "crash", "torn"} /\ MaxFaults \in Nat

Jobs == 1 .. MaxJobs
None == [job |-> 0]
BeforeImage == [job : Jobs, before : Record]
(* A record half written: no read decodes it.                              *)
Mangled == [state |-> "mangled"]
Tables == UNION {[1 .. n -> Record \cup {Mangled}] : n \in 0 .. MaxJobs}

(* The steps an operation is made of.  Those with a temporary file write   *)
(* it, sync it, rename it over their target and sync the directory.        *)
TempOf == [publish |-> "staging", putReady |-> "ready", rebuildReady |-> "ready",
           putStates |-> "states", rebuildStates |-> "states", rewrite |-> "rewrite"]
AtomicReplaces == DOMAIN TempOf
RowWrites == {"writeRow", "restoreRow"}
Steps == AtomicReplaces \cup RowWrites \cup
  {"removeTemps", "decide", "append", "syncRow", "relate", "unlink", "syncDirectory",
   "clearLock", "landBegin", "landPublish", "landBind", "landCommit", "landAbort", "cleanRead"}

Operations == Replacements \cup
  {"enqueue", "tombstone_all", "finish_prepared_ci", "recover_publication", "start"}

VARIABLES
  jobs, tail,        \* worker_job.bin: its records, and whether half a record follows
  index,             \* the rows of the ready and the state index
  journal,           \* the before-image in the update journal, or None
  temps,             \* temporary files that exist
  land, published,   \* the ServerLand journal, or None; jobs with a published Patchset
  server,            \* "down", "starting" or "up"
  op, todo, onError, \* the operation at work, its steps left, and its error path
  base, goal,        \* the table an operation found, and the one it means to leave
  answer, acked,     \* what the last operation returned; jobs written by a success
  faults             \* faults so far

files == <<jobs, tail, index, journal, temps, land, published>>
control == <<server, op, todo, onError, base, goal, answer, acked>>
vars == <<files, control, faults>>

Indexes == {"ready", "states"}
Operation == [name : Operations, job : 0 .. MaxJobs, record : Record, failed : BOOLEAN]
NoOp == [name |-> "none"]
Idle == op = NoOp

(* Records stay within their attempts, indexes list jobs of the table, and *)
(* the journals hold whole records.                                        *)
TypeOK ==
  /\ jobs \in Tables /\ tail \in BOOLEAN
  /\ index \in [Indexes -> SUBSET (JobStates \X Jobs)]
  /\ journal \in BeforeImage \cup {None} /\ land \in BeforeImage \cup {None}
  /\ temps \subseteq {"staging", "ready", "states", "rewrite"}
  /\ published \subseteq Jobs
  /\ server \in {"down", "starting", "up"}
  /\ op \in Operation \cup {NoOp}
  /\ todo \in Seq(Steps) /\ onError \in Seq(Steps)
  /\ base \in Table /\ goal \in Table
  /\ answer \in {"none", "ok", "err"} /\ acked \subseteq Jobs
  /\ faults \in 0 .. MaxFaults

Init ==
  /\ jobs = <<>> /\ tail = FALSE
  /\ index = [x \in Indexes |-> {}]
  /\ journal = None /\ temps = {}
  /\ land = None /\ published = {}
  /\ server = "up"
  /\ op = NoOp /\ todo = <<>> /\ onError = <<>>
  /\ base = <<>> /\ goal = <<>>
  /\ answer = "none" /\ acked = {}
  /\ faults = 0

-----------------------------------------------------------------------------
(* Indexes: the row a record has in each, and the rows of the whole file.  *)

Rows(x, j, r) ==
  IF Live(r) /\ (x = "states" \/ r.state = "queued") THEN {<<r.state, j>>} ELSE {}
Expected(x) == UNION {Rows(x, j, jobs[j]) : j \in DOMAIN jobs}
Listed(x, j) == {row \in index[x] : row[2] = j}

(* A change of job j from rows old to rows new.  An index that disagrees   *)
(* with the record as it was is refused as stale.                          *)
NotStale(j, old, new) == \A x \in Indexes : old[x] = new[x] \/ Listed(x, j) = old[x]
Prepared(x) == (index[x] \ Listed(x, op.job)) \cup Rows(x, op.job, op.record)
RowsOf(j, r) == [x \in Indexes |-> Rows(x, j, r)]
NoRows == [x \in Indexes |-> {}]
IndexOf == [putReady |-> "ready", rebuildReady |-> "ready",
            putStates |-> "states", rebuildStates |-> "states"]
(* The indexes to write for a change, the ready index first.               *)
PutSteps(old, new) ==
  (IF old["ready"] # new["ready"] THEN <<"putReady">> ELSE <<>>)
    \o (IF old["states"] # new["states"] THEN <<"putStates">> ELSE <<>>)

-----------------------------------------------------------------------------
(* What the store's users may see.                                         *)

Restored(t, image) == IF image = None THEN t ELSE [t EXCEPT ![image.job] = image.before]
OnDisk == Restored(Restored(jobs, journal), land)
Seen == IF Idle THEN OnDisk ELSE base
(* Readers wait for the queue lock and refuse interrupted state.           *)
Clean == land = None /\ journal = None /\ temps = {}
Serving == server = "up" /\ Idle /\ Clean /\ ~tail

-----------------------------------------------------------------------------
(* Control of an operation.                                                *)

At(step) == todo # <<>> /\ Head(todo) = step

Return(result) ==
  /\ op' = NoOp /\ todo' = <<>> /\ onError' = <<>>
  /\ answer' = result
  /\ acked' = IF result = "ok" /\ op.job # 0 THEN acked \cup {op.job} ELSE acked
  /\ server' = IF server = "starting" /\ result = "err" THEN "down" ELSE server
  /\ UNCHANGED <<base, goal>>

(* The current step is done; the last one ends the operation.              *)
Advance ==
  IF Len(todo) = 1 THEN Return(IF op.failed THEN "err" ELSE "ok")
  ELSE todo' = Tail(todo) /\ UNCHANGED <<server, op, onError, base, goal, answer, acked>>

(* Mutant of Errored: the undone operation returns Ok.                     *)
ErroredUnnoticed ==
  IF onError = <<>> THEN Return("err")
  ELSE /\ todo' = onError /\ onError' = <<>>
       /\ UNCHANGED <<server, op, base, goal, answer, acked>>

(* The current step failed: the error path runs once, then Err returns.    *)
Errored ==
  IF onError = <<>> THEN Return("err")
  ELSE /\ todo' = onError /\ onError' = <<>>
       /\ op' = [op EXCEPT !.failed = TRUE]
       /\ UNCHANGED <<server, base, goal, answer, acked>>

(* Mutant of UndoSteps: the indexes keep what the undone change put there. *)
UndoRowOnly == <<"restoreRow", "unlink", "syncDirectory">>
UndoSteps == <<"restoreRow", "rebuildReady", "rebuildStates", "unlink", "syncDirectory">>

(* Mutant of UndoReplacement: the rollback trusts the journal to be there. *)
UndoUnprotected == UndoSteps
(* The error path of a replacement: its journal may be gone already, so it *)
(* is published again first.                                               *)
UndoReplacement == <<"publish">> \o UndoSteps

RecoverySteps == <<"removeTemps">> \o (IF journal = None THEN <<>> ELSE UndoSteps)

Begin(name, j, steps) ==
  /\ Idle
  /\ op' = [name |-> name, job |-> j, record |-> Fresh(FALSE, "queued"), failed |-> FALSE]
  /\ todo' = steps /\ onError' = <<>>
  /\ base' = OnDisk /\ goal' = OnDisk
  /\ answer' = "none"
  /\ UNCHANGED <<files, acked, faults>>

-----------------------------------------------------------------------------
(* Requests.  All but finish refuse while a ServerLand journal exists.     *)

Request(name, j) ==
  /\ server = "up" /\ land = None /\ ~tail
  /\ Begin(name, j, RecoverySteps \o <<"decide">>)
  /\ UNCHANGED server

CallReplace(name, j) == j \in DOMAIN jobs /\ name # "invalidate" /\ Request(name, j)
CallEnqueue == Len(jobs) < MaxJobs /\ Request("enqueue", 0)
CallTombstoneAll == Request("tombstone_all", 0)

CallFinish(j) ==
  /\ server = "up" /\ ~tail /\ j \in DOMAIN jobs
  /\ Begin("finish_prepared_ci", j, RecoverySteps \o <<"landBegin">>)
  /\ UNCHANGED server

CallRecoverPublication ==
  /\ server = "up" /\ land # None
  /\ Begin("recover_publication", 0, RecoverySteps \o <<"landAbort", "clearLock">>)
  /\ UNCHANGED server

(* open_repository_runtime: an interrupted publication is recovered, the   *)
(* locators of CI jobs are read like any reader reads, and only then the   *)
(* store itself is recovered.                                              *)
Start ==
  /\ server = "down"
  /\ Begin("start", 0, (IF land = None THEN <<>> ELSE RecoverySteps \o <<"landAbort">>) \o <<"cleanRead">>)
  /\ server' = "starting"

(* The package jobs that were active when the server stopped.              *)
Orphans == {j \in DOMAIN jobs : Admits("invalidate", jobs[j])}
Invalidate(j) ==
  /\ server = "starting" /\ Idle /\ j \in Orphans /\ \A i \in Orphans : j <= i
  /\ Begin("invalidate", j, RecoverySteps \o <<"decide">>)
  /\ UNCHANGED server

Open ==
  /\ server = "starting" /\ Idle /\ Orphans = {}
  /\ server' = "up"
  /\ UNCHANGED <<files, op, todo, onError, base, goal, answer, acked, faults>>

-----------------------------------------------------------------------------
(* What each step does to the files.                                       *)

(* A rollback restores the record the operation found, recovery the one in *)
(* the journal.                                                            *)
RowOf(step) == IF step = "writeRow" \/ op.failed THEN op.job ELSE journal.job
RowAfter(step) ==
  IF step = "writeRow" THEN op.record
  ELSE IF op.failed THEN base[op.job] ELSE journal.before
WriteRow(step, r) == jobs' = [jobs EXCEPT ![RowOf(step)] = r]

Target(step) ==
  \/ /\ step = "publish"
     /\ journal' = [job |-> op.job, before |-> base[op.job]]
     /\ UNCHANGED <<jobs, index>>
  \/ /\ step \in {"putReady", "putStates"}
     /\ index' = [index EXCEPT ![IndexOf[step]] = Prepared(IndexOf[step])]
     /\ UNCHANGED <<jobs, journal>>
  \/ /\ step \in {"rebuildReady", "rebuildStates"}
     /\ index' = [index EXCEPT ![IndexOf[step]] = Expected(IndexOf[step])]
     /\ UNCHANGED <<jobs, journal>>
  \/ /\ step = "rewrite"
     /\ jobs' = Tombstoned(jobs)
     /\ UNCHANGED <<index, journal>>

AtomicReplace(step) ==
  /\ Target(step)
  /\ temps' = temps \ {TempOf[step]}
  /\ UNCHANGED <<tail, land, published>>

-----------------------------------------------------------------------------
(* Steps that succeed.                                                     *)

RemoveTemps ==
  /\ At("removeTemps")
  /\ temps' = {}
  /\ Advance
  /\ UNCHANGED <<jobs, tail, index, journal, land, published, faults>>

Proceed(r, t, j, steps) ==
  /\ op' = [op EXCEPT !.job = j, !.record = r]
  /\ goal' = t
  /\ todo' = steps
  /\ UNCHANGED <<files, server, onError, base, answer, acked, faults>>

(* Mutant of ReplaceSteps: the record is written before its journal.       *)
ReplaceStepsRowFirst(old, new) ==
  <<"writeRow", "publish">> \o PutSteps(old, new) \o <<"unlink", "syncDirectory", "clearLock">>
ReplaceSteps(old, new) ==
  <<"publish", "writeRow">> \o PutSteps(old, new) \o <<"unlink", "syncDirectory", "clearLock">>

DecideReplace ==
  /\ At("decide") /\ op.name \in Replacements
  /\ LET j == op.job
         r == jobs[j]
         s == Replaced(op.name, r)
     IN  IF Admits(op.name, r) /\ NotStale(j, RowsOf(j, r), RowsOf(j, s))
         THEN Proceed(s, [jobs EXCEPT ![j] = s], j, ReplaceSteps(RowsOf(j, r), RowsOf(j, s)))
         ELSE Return("err") /\ UNCHANGED <<files, faults>>

DecideEnqueue == \E r \in FreshRecords :
  /\ At("decide") /\ op.name = "enqueue"
  /\ LET j == Len(jobs) + 1
     IN  IF NotStale(j, NoRows, RowsOf(j, r))
         THEN Proceed(r, Append(jobs, r), j,
                <<"append", "syncRow", "relate">> \o PutSteps(NoRows, RowsOf(j, r)) \o <<"clearLock">>)
         ELSE Return("err") /\ UNCHANGED <<files, faults>>

DecideTombstone ==
  /\ At("decide") /\ op.name = "tombstone_all"
  /\ Proceed(op.record, Tombstoned(jobs), 0,
       (IF jobs = Tombstoned(jobs) THEN <<>> ELSE <<"rewrite">>)
         \o <<"rebuildReady", "rebuildStates", "clearLock">>)

(* From here on an error undoes the replacement.                           *)
Publish ==
  /\ At("publish")
  /\ AtomicReplace("publish")
  /\ todo' = Tail(todo)
  /\ onError' = IF op.failed THEN <<>> ELSE UndoReplacement
  /\ UNCHANGED <<server, op, base, goal, answer, acked, faults>>

ReplaceFile == \E step \in AtomicReplaces \ {"publish"} :
  At(step) /\ AtomicReplace(step) /\ Advance /\ UNCHANGED faults

OverwriteRow == \E step \in RowWrites :
  /\ At(step)
  /\ WriteRow(step, RowAfter(step))
  /\ Advance
  /\ UNCHANGED <<tail, index, journal, temps, land, published, faults>>

AppendRow ==
  /\ At("append")
  /\ jobs' = Append(jobs, op.record)
  /\ Advance
  /\ UNCHANGED <<tail, index, journal, temps, land, published, faults>>

(* From here on an error rebuilds the indexes.                             *)
SyncRow ==
  /\ At("syncRow")
  /\ todo' = Tail(todo)
  /\ onError' = <<"rebuildReady", "rebuildStates">>
  /\ UNCHANGED <<files, server, op, base, goal, answer, acked, faults>>

(* The caller's relationship commit: its error is returned at the end.     *)
Relate ==
  /\ At("relate")
  /\ todo' = Tail(todo)
  /\ \/ UNCHANGED <<op, faults>>
     \/ /\ "io" \in Faults /\ faults < MaxFaults
        /\ faults' = faults + 1
        /\ op' = [op EXCEPT !.failed = TRUE]
  /\ UNCHANGED <<files, server, onError, base, goal, answer, acked>>

Unlink ==
  /\ At("unlink")
  /\ journal' = None
  /\ Advance
  /\ UNCHANGED <<jobs, tail, index, temps, land, published, faults>>

Barrier == \E step \in {"syncDirectory", "clearLock"} :
  At(step) /\ Advance /\ UNCHANGED <<files, faults>>

(* The Binary DB transaction of finish.  Beginning it recovers an          *)
(* interrupted one; a job that may not finish drops it again.              *)
LandBegin ==
  /\ At("landBegin")
  /\ jobs' = Restored(jobs, land)
  /\ published' = published \ {land.job}
  /\ IF Finishable(jobs'[op.job])
     THEN /\ land' = [job |-> op.job, before |-> jobs'[op.job]]
          /\ todo' = <<"landPublish", "landBind", "landCommit">>
          /\ onError' = <<"landAbort">>
          /\ goal' = [jobs' EXCEPT ![op.job] = Bound(@)]
          /\ UNCHANGED <<server, op, base, answer, acked>>
     ELSE land' = None /\ Return("err")
  /\ UNCHANGED <<tail, index, journal, temps, faults>>

LandPublish ==
  /\ At("landPublish")
  /\ published' = published \cup {op.job}
  /\ Advance
  /\ UNCHANGED <<jobs, tail, index, journal, temps, land, faults>>

LandBind ==
  /\ At("landBind")
  /\ jobs' = [jobs EXCEPT ![op.job] = Bound(@)]
  /\ Advance
  /\ UNCHANGED <<tail, index, journal, temps, land, published, faults>>

LandCommit ==
  /\ At("landCommit")
  /\ land' = None
  /\ Advance
  /\ UNCHANGED <<jobs, tail, index, journal, temps, published, faults>>

(* Mutant of LandAbort: the record is rolled back, the Patchset is not.    *)
LandAbortRowOnly ==
  /\ At("landAbort")
  /\ jobs' = Restored(jobs, land)
  /\ land' = None
  /\ Advance
  /\ UNCHANGED <<tail, index, journal, temps, published, faults>>

LandAbort ==
  /\ At("landAbort")
  /\ jobs' = Restored(jobs, land)
  /\ published' = published \ {land.job}
  /\ land' = None
  /\ Advance
  /\ UNCHANGED <<tail, index, journal, temps, faults>>

(* Start: the read of the locators, then recover, which repairs the        *)
(* indexes that differ from the records.                                   *)
RepairSteps ==
  (IF index["ready"] # Expected("ready") THEN <<"rebuildReady">> ELSE <<>>)
    \o (IF index["states"] # Expected("states") THEN <<"rebuildStates">> ELSE <<>>)

CleanRead ==
  /\ At("cleanRead")
  /\ IF ~Clean \/ tail THEN Return("err")
     ELSE todo' = RepairSteps \o <<"clearLock">> /\ UNCHANGED <<server, op, onError, base, goal, answer, acked>>
  /\ UNCHANGED <<files, faults>>

-----------------------------------------------------------------------------
(* Faults.                                                                 *)

Fault(kind) == kind \in Faults /\ faults < MaxFaults /\ faults' = faults + 1

(* An atomic replacement fails before its rename, or after it.             *)
ReplaceFails == \E step \in AtomicReplaces :
  /\ At(step) /\ Fault("io")
  /\ \/ /\ temps' \in {temps, temps \ {TempOf[step]}, temps \cup {TempOf[step]}}
        /\ UNCHANGED <<jobs, tail, index, journal, land, published>>
     \/ AtomicReplace(step)
  /\ Errored

(* A record is written not at all, in part, or whole but not synced.       *)
RowFails == \E step \in RowWrites :
  /\ At(step) /\ Fault("io")
  /\ \E r \in {jobs[RowOf(step)], Mangled, RowAfter(step)} : WriteRow(step, r)
  /\ Errored
  /\ UNCHANGED <<tail, index, journal, temps, land, published>>

AppendFails ==
  /\ At("append") /\ Fault("io")
  /\ tail' \in IF "torn" \in Faults THEN BOOLEAN ELSE {FALSE}
  /\ Errored
  /\ UNCHANGED <<jobs, index, journal, temps, land, published>>

(* The remaining steps fail without effect, but for the removal of         *)
(* temporary files, whose directory sync may fail after it.                *)
StepFails == \E step \in {"removeTemps", "syncRow", "unlink", "syncDirectory", "landBegin",
                          "landPublish", "landBind", "landCommit", "landAbort"} :
  /\ At(step) /\ Fault("io")
  /\ temps' \in IF step = "removeTemps" THEN {temps, {}} ELSE {temps}
  /\ Errored
  /\ UNCHANGED <<jobs, tail, index, journal, land, published>>

(* The lock file is cleared after the work is done: no error path runs.    *)
ClearLockFails ==
  /\ At("clearLock") /\ Fault("io")
  /\ Return("err")
  /\ UNCHANGED files

(* The server stops; a file operation at work stays half done.             *)
Crash ==
  /\ server # "down" /\ Fault("crash")
  /\ server' = "down"
  /\ op' = NoOp /\ todo' = <<>> /\ onError' = <<>> /\ answer' = "none"
  /\ \/ UNCHANGED files
     \/ \E step \in AtomicReplaces :
          /\ At(step)
          /\ temps' = temps \cup {TempOf[step]}
          /\ UNCHANGED <<jobs, tail, index, journal, land, published>>
     \/ \E step \in RowWrites :
          /\ At(step)
          /\ WriteRow(step, Mangled)
          /\ UNCHANGED <<tail, index, journal, temps, land, published>>
     \/ /\ At("append") /\ "torn" \in Faults
        /\ tail' = TRUE
        /\ UNCHANGED <<jobs, index, journal, temps, land, published>>
  /\ UNCHANGED <<base, goal, acked>>

-----------------------------------------------------------------------------
Call ==
  \/ \E name \in Replacements, j \in Jobs : CallReplace(name, j)
  \/ CallEnqueue \/ CallTombstoneAll \/ CallRecoverPublication
  \/ \E j \in Jobs : CallFinish(j)

Boot == Start \/ (\E j \in Jobs : Invalidate(j)) \/ Open

Step ==
  \/ RemoveTemps \/ DecideReplace \/ DecideEnqueue \/ DecideTombstone
  \/ Publish \/ ReplaceFile \/ OverwriteRow \/ AppendRow \/ SyncRow \/ Relate
  \/ Unlink \/ Barrier \/ CleanRead
  \/ LandBegin \/ LandPublish \/ LandBind \/ LandCommit \/ LandAbort

Break == ReplaceFails \/ RowFails \/ AppendFails \/ StepFails \/ ClearLockFails \/ Crash

Next == Call \/ Boot \/ Step \/ Break

Spec == Init /\ [][Next]_vars

(* A stopped server is started again, and threads at work go on.           *)
FairSpec == Spec /\ WF_vars(Boot) /\ WF_vars(Step)

-----------------------------------------------------------------------------
(* A record that a failed or interrupted write left in pieces is always    *)
(* covered by the update journal, in the forward path and in the rollback. *)
TornRowIsProtected == \A j \in DOMAIN jobs : jobs[j] = Mangled => journal.job = j

(* An operation that returns Ok has left the table it meant to leave, one  *)
(* that returns Err that table or the one it found.                        *)
AnswersHold ==
  /\ answer = "ok" => OnDisk = goal
  /\ answer = "err" => OnDisk \in {base, goal}

(* Whatever failed since, a reader that is let in finds each job that some *)
(* request was told of in both indexes, under its state: a queued job can  *)
(* be claimed and blocks retirement.                                       *)
AckedIsListed == Serving =>
  \A j \in acked, x \in Indexes : Live(jobs[j]) => Listed(x, j) = Rows(x, j, jobs[j])

(* The binding of a package job and the publication of its Patchset are    *)
(* one: neither is ever there without the other.                           *)
BoundIsPublished == Idle => {j \in DOMAIN OnDisk : OnDisk[j].bound} = published \ {land.job}

(* Readers see every operation happen as a whole or not at all.            *)
T == INSTANCE WorkerJobTable WITH table <- Seen
AtomicOperations == T!Spec

(* A stopped server comes back.                                            *)
StartSucceeds == server = "down" ~> server = "up"
=============================================================================
