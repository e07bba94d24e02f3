-------------------------- MODULE PreparedPackages --------------------------
(***************************************************************************)
(* Prepared packages: CI runs on a package before anything of it is        *)
(* published, its reviews are collected in memory, and finish publishes    *)
(* the first package that passed on the head of the target line.  The      *)
(* server keeps this state in memory (PreparedCiRuntime); durable are only *)
(* the Worker Job records, the line's head and the job's directory of      *)
(* managed files.                                                          *)
(*                                                                         *)
(* prepare, finish, abandon and reprepare exclude each other               *)
(* (package_operation_lock): op is the one under way.  Runners claim,      *)
(* download, complete and fail; reviewers submit evidence.  The queue lock *)
(* is queue, the lock of the runtime's state is held in StateHeld.         *)
(* A job has one attempt, as prepare_workflow_package enqueues it: claimed *)
(* stands for attempt_count = 1.  Publication is one step here;            *)
(* WorkerJobStore has its files.                                           *)
(***************************************************************************)
EXTENDS PackageReviews, FiniteSets

CONSTANTS Packages,     \* package hashes
          Base,         \* the snapshot on which each package was built
          Trunk,        \* the head of the target line at the start
          Readers,      \* download requests that run at the same time
          Reviews,      \* the review requests, each with its idempotency key
          Capacity,     \* reviews accepted for one package (64 in the code)
          RequireHuman, \* whether the package's author mode asks for a human
          MaxJobs, MaxFaults, MaxRestarts

ASSUME BoundsAssumption ==
  /\ MaxJobs \in Nat /\ MaxFaults \in Nat /\ MaxRestarts \in Nat /\ Capacity \in Nat
  /\ Base \in [Packages -> Packages \cup {Trunk}]
  /\ RequireHuman \in BOOLEAN

\* A package's name also names the snapshot it publishes, its revision: no package
\* publishes the snapshot again that the line starts from.
ASSUME RevisionAssumption == Trunk \notin Packages

\* A review identifies a human, a bot or nobody; its action may be any word.
ASSUME ReviewsAssumption ==
  \A e \in Reviews : e.by \in Principals \cup {Nobody} /\ e.blocking \in BOOLEAN

\* Finitely many requests run at a time; none is named like the other lock owners.
ASSUME ReadersAssumption == IsFiniteSet(Readers) /\ Readers \cap {"free", "op"} = {}

VARIABLES
  job,       \* the Worker Job records, in order of their index
  head,      \* snapshot at the head of the target line
  child,     \* the directory of managed files of each job
  published, \* the reviews published with each bound job
  exec,      \* PreparedCiState.executions
  selected,  \* PreparedCiState.selected: the job that stands for a hash, 0 for none
  passes,    \* PreparedCiState.next_success_order
  readers,   \* PackageDownloads.readers of each job
  requested, \* PackageDownloads.cleanup_requested of each job
  lease,     \* whether a lease entry exists for the job
  runner,    \* what the runner of the job's attempt really does
  op,        \* the package operation under way
  queue,     \* who holds the queue lock
  reader,    \* the download requests
  request,   \* the evidence request under way
  reset,     \* preformal_reset_jobs: unbound jobs found when the server started
  ended,     \* preformal_stopped_attempts
  faults, restarts

durable == <<job, head, child, published>>
memory == <<exec, selected, passes>>
downloads == <<readers, requested>>
boot == <<reset, ended, restarts>>
vars == <<job, head, child, published, exec, selected, passes, readers, requested, lease,
          runner, op, queue, reader, request, reset, ended, faults, restarts>>

Jobs == 1 .. MaxJobs
Known == 1 .. Len(job)
NoExec == [pkg |-> "none"]
Free == "free"
OpThread == "op"
Idle == [kind |-> "idle", job |-> 0, pc |-> "idle"]
IdleReader == [job |-> 0, pc |-> "idle"]
NoRequest == [job |-> 0]

Record == [pkg : Packages, state : {"queued", "running", "succeeded", "failed"},
           error : {"none", "terminal", "expired"}, claimed : BOOLEAN, bound : BOOLEAN]

Execution == [pkg : Packages, evidence : {"none", "pass", "fail"}, order : Nat,
              released : BOOLEAN, actions : Seq(Reviews),
              abandonment : {"none", "asked", "stopped", "cleaned"},
              committed : BOOLEAN, result : BOOLEAN, complete : BOOLEAN,
              origins : SUBSET Jobs]

\* The records, the executions in memory and the threads have the shape that
\* ServerWorkerJobRecord, PreparedCiExecution and PackageDownloads give them.
TypeOK ==
  /\ job \in Seq(Record) /\ Len(job) <= MaxJobs
  /\ head \in Packages \cup {Trunk}
  /\ child \in [Jobs -> {"absent", "whole", "partial"}]
  /\ \A j \in Jobs : exec[j] = NoExec \/ exec[j] \in Execution
  /\ selected \in [Packages -> Known \cup {0}]
  /\ passes \in 0 .. MaxJobs
  /\ readers \in [Jobs -> 0 .. Cardinality(Readers)]
  /\ requested \in [Jobs -> BOOLEAN] /\ lease \in [Jobs -> BOOLEAN]
  /\ runner \in [Jobs -> {"none", "executing", "stopped"}]
  /\ op.job \in Known \cup {0}
  /\ queue \in Readers \cup {Free, OpThread}
  /\ \A r \in Readers : reader[r].job \in Known \cup {0}
  /\ request.job \in Known \cup {0}
  /\ reset \subseteq Known /\ ended \subseteq reset
  /\ faults \in 0 .. MaxFaults /\ restarts \in 0 .. MaxRestarts

Init ==
  /\ job = <<>> /\ head = Trunk
  /\ child = [j \in Jobs |-> "absent"]
  /\ published = [j \in Jobs |-> <<>>]
  /\ exec = [j \in Jobs |-> NoExec]
  /\ selected = [p \in Packages |-> 0]
  /\ passes = 0
  /\ readers = [j \in Jobs |-> 0]
  /\ requested = [j \in Jobs |-> FALSE]
  /\ lease = [j \in Jobs |-> FALSE]
  /\ runner = [j \in Jobs |-> "none"]
  /\ op = Idle /\ queue = Free
  /\ reader = [r \in Readers |-> IdleReader]
  /\ request = NoRequest
  /\ reset = {} /\ ended = {}
  /\ faults = 0 /\ restarts = 0

(***************************************************************************)
(* Helpers                                                                 *)
(***************************************************************************)
Held(j) == exec[j] # NoExec

\* with_finish_candidate keeps the state locked over the commit, and
\* cleanup_abandoned_source over the removal of the files.
StateHeld ==
  \/ op.kind = "finish" /\ op.pc = "commit"
  \/ op.kind = "abandon" /\ op.pc \in {"store", "load", "remove", "removed"}

Active == {j \in Known : job[j].state \in {"queued", "running"} /\ ~job[j].bound}

\* require_selected
Selected(j) == Held(j) /\ ~exec[j].released /\ selected[exec[j].pkg] = j

\* ManagedCiPackage::verify
Verified(j) == child[j] = "whole"

\* An execution that may publish: the filter of winner and with_finish_candidate.
Eligible(execs, j) ==
  /\ execs[j] # NoExec
  /\ ~execs[j].released /\ ~HasObjection(execs[j].actions)
  /\ execs[j].order > 0
  /\ selected[execs[j].pkg] = j

SameTarget(execs, i, j) == Base[execs[i].pkg] = Base[execs[j].pkg]

Winner(execs, j) ==
  /\ Eligible(execs, j)
  /\ \A i \in Known : Eligible(execs, i) /\ SameTarget(execs, i, j)
                        => execs[j].order <= execs[i].order

\* The operation ends, whether it succeeded or not.
EndOp == op' = Idle /\ queue' = IF queue = OpThread THEN Free ELSE queue
Step(pc) == op' = [op EXCEPT !.pc = pc] /\ UNCHANGED queue

At(kind, pc) == op.kind = kind /\ op.pc = pc

Fault == faults < MaxFaults /\ faults' = faults + 1

(***************************************************************************)
(* prepare: a new job for a package, unless one is active already          *)
(***************************************************************************)
Accepted(p) == \E j \in Known : job[j].bound /\ job[j].pkg = p

\* enqueue_with_source_factory admits a job for p: every active job still has its
\* source, and p's selected job is not active.
Admits(p) ==
  /\ Len(job) < MaxJobs
  /\ \A j \in Active : Held(j) /\ Verified(j)
  /\ \A i, j \in Active : exec[i].pkg = exec[j].pkg => i = j
  /\ selected[p] \notin Active

Registered(p, origins) ==
  [pkg |-> p, evidence |-> "none", order |-> 0, released |-> FALSE, actions |-> <<>>,
   abandonment |-> "none", committed |-> FALSE, result |-> FALSE, complete |-> FALSE,
   origins |-> origins]

\* The files are created, the record is appended, the execution is registered and
\* takes the place of the hash's former job.
Enqueue(p, origins) ==
  LET j == Len(job) + 1
  IN  /\ job' = Append(job, [pkg |-> p, state |-> "queued", error |-> "none",
                             claimed |-> FALSE, bound |-> FALSE])
      /\ child' = [child EXCEPT ![j] = "whole"]
      /\ exec' = [exec EXCEPT ![j] = Registered(p, origins)]
      /\ selected' = [selected EXCEPT ![p] = j]

Prepare(p) ==
  /\ op = Idle /\ queue = Free
  /\ ~Accepted(p) /\ Admits(p)
  /\ Enqueue(p, {})
  /\ UNCHANGED <<head, published, passes, downloads, lease, runner, op, queue, reader, request,
                 boot, faults>>

(***************************************************************************)
(* Runners                                                                 *)
(***************************************************************************)
\* claim_worker_job and claim_next_worker_job: the source has to be known, and under the
\* queue lock the job has to be queued.  Nothing looks at the files, and only claim_next
\* looks at the selection, before the queue lock is taken: a job that was released in the
\* meantime, and with claim_worker_job any released job that is still queued, is claimed.
Claim(j) ==
  /\ queue = Free
  /\ job[j].state = "queued" /\ Held(j)
  /\ job' = [job EXCEPT ![j].state = "running", ![j].claimed = TRUE]
  /\ lease' = [lease EXCEPT ![j] = TRUE]
  /\ runner' = [runner EXCEPT ![j] = "executing"]
  /\ UNCHANGED <<head, child, published, memory, downloads, op, queue, reader, request, boot, faults>>

\* valid_entry and require_running_attempt
Owns(j) == job[j].state = "running" /\ lease[j]

\* Mutant: a retried result is counted again.
RecordResultAgain(j, e) ==
  /\ Selected(j) /\ Verified(j)
  /\ exec[j].evidence \in {"none", e}
  /\ passes' = IF e = "pass" THEN passes + 1 ELSE passes
  /\ exec' = [exec EXCEPT ![j].evidence = e, ![j].order = IF e = "pass" THEN passes + 1 ELSE 0]

\* record_result: the first result is kept, a retry has to repeat it.
RecordResult(j, e) ==
  /\ Selected(j) /\ Verified(j)
  /\ exec[j].evidence \in {"none", e}
  /\ IF exec[j].evidence = "none" /\ e = "pass"
     THEN /\ passes' = passes + 1
          /\ exec' = [exec EXCEPT ![j].evidence = e, ![j].order = passes + 1]
     ELSE /\ exec' = [exec EXCEPT ![j].evidence = e]
          /\ UNCHANGED passes

\* complete_with_domain_commit: the result is recorded, then the job, then the lease goes.
Complete(j, e) ==
  /\ queue = Free /\ Owns(j) /\ runner[j] = "executing"
  /\ RecordResult(j, e)
  /\ \/ /\ job' = [job EXCEPT ![j].state = "succeeded"]
        /\ lease' = [lease EXCEPT ![j] = FALSE]
        /\ runner' = [runner EXCEPT ![j] = "stopped"]
        /\ UNCHANGED faults
     \/ /\ Fault                  \* the lease's replica cannot be written
        /\ job' = [job EXCEPT ![j].state = "succeeded"]
        /\ runner' = [runner EXCEPT ![j] = "stopped"]
        /\ UNCHANGED lease
     \/ /\ Fault                  \* the job cannot be written; the runner may try again
        /\ UNCHANGED <<job, lease, runner>>
  /\ UNCHANGED <<head, child, published, selected, downloads, op, queue, reader, request, boot>>

\* fail_worker_job: with its attempt used up the job fails for good.
Fail(j) ==
  /\ queue = Free /\ Owns(j) /\ runner[j] = "executing"
  /\ job' = [job EXCEPT ![j].state = "failed", ![j].error = "terminal"]
  /\ runner' = [runner EXCEPT ![j] = "stopped"]
  /\ \/ lease' = [lease EXCEPT ![j] = FALSE] /\ UNCHANGED faults
     \/ Fault /\ UNCHANGED lease      \* the lease's replica cannot be written
  /\ UNCHANGED <<head, child, published, memory, downloads, op, queue, reader, request, boot>>

\* The runner's process ends without a report.
RunnerDies(j) ==
  /\ runner[j] = "executing"
  /\ runner' = [runner EXCEPT ![j] = "stopped"]
  /\ UNCHANGED <<durable, memory, downloads, lease, op, queue, reader, request, boot, faults>>

\* reconcile: the leases of lost are expired; a running job without a lease fails.
Reconcile(lost) ==
  /\ lease' = [j \in Jobs |-> lease[j] /\ j \notin lost /\ job[j].state = "running"]
  /\ job' = [j \in Known |->
               IF job[j].state = "running" /\ ~lease'[j]
               THEN [job[j] EXCEPT !.state = "failed", !.error = "expired"]
               ELSE job[j]]

Leased == {j \in Known : lease[j]}

ReconcileRequest(lost) ==
  /\ queue = Free
  /\ Reconcile(lost)
  /\ UNCHANGED <<head, child, published, memory, downloads, runner, op, queue, reader, request,
                 boot, faults>>

(***************************************************************************)
(* download_prepared_ci_package: the source is pinned under the queue lock *)
(* and read without it                                                     *)
(***************************************************************************)
ToReader(r, pc) == reader' = [reader EXCEPT ![r].pc = pc]

PinSelect(r, j) ==
  /\ reader[r].pc = "idle" /\ queue = Free
  /\ Owns(j) /\ Selected(j)
  /\ reader' = [reader EXCEPT ![r] = [job |-> j, pc |-> "fence"]]
  /\ queue' = r
  /\ UNCHANGED <<durable, memory, downloads, lease, runner, op, request, boot, faults>>

\* pin_download looks at cleanup_requested,
PinFence(r) ==
  /\ reader[r].pc = "fence"
  /\ IF requested[reader[r].job]
     THEN reader' = [reader EXCEPT ![r] = IdleReader] /\ queue' = Free
     ELSE ToReader(r, "count") /\ UNCHANGED queue
  /\ UNCHANGED <<durable, memory, downloads, lease, runner, op, request, boot, faults>>

\* and counts the reader.
PinCount(r) ==
  /\ reader[r].pc = "count"
  /\ readers' = [readers EXCEPT ![reader[r].job] = @ + 1]
  /\ ToReader(r, "reading") /\ queue' = Free
  /\ UNCHANGED <<durable, memory, requested, lease, runner, op, request, boot, faults>>

\* Mutant: the count after the subtraction is compared, so nobody is the last reader.
UnpinOffByOne(r) ==
  LET j == reader[r].job
  IN  /\ reader[r].pc = "reading"
      /\ readers' = [readers EXCEPT ![j] = @ - 1]
      /\ reader' = [reader EXCEPT ![r] = IF readers'[j] = 1 THEN [@ EXCEPT !.pc = "last"]
                                                            ELSE IdleReader]
      /\ UNCHANGED <<durable, memory, requested, lease, runner, op, queue, request, boot, faults>>

\* The bytes are read; dropping the pin takes the reader off the count,
Unpin(r) ==
  LET j == reader[r].job
  IN  /\ reader[r].pc = "reading"
      /\ readers' = [readers EXCEPT ![j] = @ - 1]
      /\ reader' = [reader EXCEPT ![r] = IF readers[j] = 1 THEN [@ EXCEPT !.pc = "last"]
                                                           ELSE IdleReader]
      /\ UNCHANGED <<durable, memory, requested, lease, runner, op, queue, request, boot, faults>>

\* and the last one looks whether it has to clean up,
UnpinLast(r) ==
  /\ reader[r].pc = "last"
  /\ IF requested[reader[r].job] THEN ToReader(r, "load")
                                 ELSE reader' = [reader EXCEPT ![r] = IdleReader]
  /\ UNCHANGED <<durable, memory, downloads, lease, runner, op, queue, request, boot, faults>>

\* which request_cleanup does unless a reader came in between.
ReaderLoad(r) ==
  /\ reader[r].pc = "load"
  /\ IF readers[reader[r].job] # 0 THEN reader' = [reader EXCEPT ![r] = IdleReader]
                                   ELSE ToReader(r, "remove")
  /\ UNCHANGED <<durable, memory, downloads, lease, runner, op, queue, request, boot, faults>>

ReaderRemove(r) ==
  /\ reader[r].pc = "remove"
  /\ \/ child' = [child EXCEPT ![reader[r].job] = "absent"] /\ UNCHANGED faults
     \/ /\ Fault /\ child[reader[r].job] # "absent"
        /\ child' = [child EXCEPT ![reader[r].job] = "partial"]
  /\ reader' = [reader EXCEPT ![r] = IdleReader]
  /\ UNCHANGED <<job, head, published, memory, downloads, lease, runner, op, queue, request, boot>>

(***************************************************************************)
(* accept_workflow_package_evidence: the job is looked at first, the       *)
(* execution under the state lock after that                               *)
(***************************************************************************)
EvidenceCheck(j, review) ==
  /\ request = NoRequest
  /\ job[j].state = "succeeded" /\ ~job[j].bound
  /\ Held(j) /\ Verified(j) /\ ~StateHeld
  /\ request' = [job |-> j, review |-> review]
  /\ UNCHANGED <<durable, memory, downloads, lease, runner, op, queue, reader, boot, faults>>

\* The review is new: its key was not used and the package has room for it.
Fresh(actions, review) ==
  /\ \A i \in DOMAIN actions : actions[i].key # review.key
  /\ Len(actions) < Capacity

\* Mutant: the check made before the state was locked is relied upon.
EvidenceAcceptStale ==
  LET j == request.job
  IN  /\ request # NoRequest /\ ~StateHeld
      /\ exec' = IF Held(j) /\ Fresh(exec[j].actions, request.review)
                 THEN [exec EXCEPT ![j].actions = Append(@, request.review)]
                 ELSE exec
      /\ request' = NoRequest
      /\ UNCHANGED <<durable, selected, passes, downloads, lease, runner, op, queue, reader, boot,
                     faults>>

EvidenceAccept ==
  LET j == request.job
  IN  /\ request # NoRequest /\ ~StateHeld
      /\ exec' = IF /\ Selected(j) /\ exec[j].evidence = "pass" /\ Verified(j)
                    /\ Fresh(exec[j].actions, request.review)
                 THEN [exec EXCEPT ![j].actions = Append(@, request.review)]
                 ELSE exec
      /\ request' = NoRequest
      /\ UNCHANGED <<durable, selected, passes, downloads, lease, runner, op, queue, reader, boot,
                     faults>>

(***************************************************************************)
(* finish                                                                  *)
(***************************************************************************)
\* finish and abandon reconcile the leases before anything else.
Begin(kind, j, lost) ==
  /\ op = Idle /\ queue = Free
  /\ Reconcile(lost)
  /\ op' = [kind |-> kind, job |-> j, pc |-> "look"]
  /\ UNCHANGED <<head, child, published, memory, downloads, runner, queue, reader, request, boot,
                 faults>>

\* observe_committed_package_cleanup: a read of a published job's state tries its cleanup.
Observe(j) ==
  /\ op = Idle /\ job[j].bound
  /\ op' = [kind |-> "observe", job |-> j, pc |-> "owner"]
  /\ UNCHANGED <<durable, memory, downloads, lease, runner, queue, reader, request, boot, faults>>

\* A published job only has to be cleaned up; otherwise the package is read and unpacked.
FinishLook ==
  LET j == op.job
  IN  /\ At("finish", "look")
      /\ IF job[j].bound THEN Step("owner")
         ELSE IF /\ job[j].state = "succeeded" /\ Selected(j) /\ Verified(j)
                 /\ exec[j].evidence = "pass"
         THEN Step("stage")
         ELSE EndOp
      /\ UNCHANGED <<durable, memory, downloads, lease, runner, reader, request, boot, faults>>

\* Mutant: a failed job keeps its place.
WithFailed == exec

\* The executions whose jobs failed lose their priority.
WithoutFailed ==
  [j \in Jobs |-> IF j \in Known /\ Held(j) /\ job[j].state = "failed"
                  THEN [exec[j] EXCEPT !.released = TRUE] ELSE exec[j]]

\* Mutant: the head of the target line is not compared with the tested base.
FinishStageAnyHead ==
  LET j == op.job
  IN  /\ At("finish", "stage") /\ queue = Free
      /\ exec' = WithoutFailed
      /\ IF /\ job[j].state = "succeeded" /\ ~job[j].bound
            /\ Winner(exec', j) /\ Verified(j)
            /\ RequireComplete(exec[j].actions, RequireHuman)
         THEN op' = [op EXCEPT !.pc = "commit"] /\ queue' = OpThread
         ELSE EndOp
      /\ UNCHANGED <<durable, selected, passes, downloads, lease, runner, reader, request, boot,
                     faults>>

\* finish_prepared_ci up to the commit, under the queue lock.
FinishStage ==
  LET j == op.job
  IN  /\ At("finish", "stage") /\ queue = Free
      /\ exec' = WithoutFailed
      /\ IF /\ job[j].state = "succeeded" /\ ~job[j].bound
            /\ Winner(exec', j) /\ Verified(j)
            /\ head = Base[exec[j].pkg]
            /\ RequireComplete(exec[j].actions, RequireHuman)
         THEN op' = [op EXCEPT !.pc = "commit"] /\ queue' = OpThread
         ELSE EndOp
      /\ UNCHANGED <<durable, selected, passes, downloads, lease, runner, reader, request, boot,
                     faults>>

\* Peers on the same base are released, the hash is free.
Committed(j) ==
  [i \in Jobs |-> IF i \in Known /\ Held(i) /\ SameTarget(exec, i, j)
                  THEN [exec[i] EXCEPT !.released = TRUE, !.committed = @ \/ i = j]
                  ELSE exec[i]]

FinishCommit ==
  LET j == op.job
  IN  /\ At("finish", "commit")
      /\ \/ /\ job' = [job EXCEPT ![j].bound = TRUE]
            /\ head' = exec[j].pkg
            /\ published' = [published EXCEPT ![j] = exec[j].actions]
            /\ exec' = Committed(j)
            /\ selected' = [selected EXCEPT ![exec[j].pkg] = 0]
            /\ op' = [op EXCEPT !.pc = "retain"] /\ queue' = Free
            /\ UNCHANGED faults
         \/ /\ Fault /\ EndOp      \* the transaction was rolled back
            /\ UNCHANGED <<job, head, published, exec, selected>>
      /\ UNCHANGED <<child, passes, downloads, lease, runner, reader, request, boot>>

FinishRetain ==
  /\ At("finish", "retain")
  /\ exec' = [exec EXCEPT ![op.job].result = TRUE]
  /\ Step("owner")
  /\ UNCHANGED <<durable, selected, passes, downloads, lease, runner, reader, request, boot, faults>>

\* complete_committed_package_cleanup: only the execution that published may remove the
\* files; files without it are left alone and reported.
CleanupOwner ==
  LET j == op.job
  IN  /\ op.pc = "owner"
      /\ IF lease[j] THEN EndOp
         ELSE IF Held(j) /\ exec[j].committed /\ ~exec[j].complete THEN Step("store")
         ELSE IF child[j] = "absent" /\ op.kind = "finish" THEN Step("release")
         ELSE EndOp
      /\ UNCHANGED <<durable, memory, downloads, lease, runner, reader, request, boot, faults>>

\* release_completed_result
FinishRelease ==
  LET j == op.job
  IN  /\ At("finish", "release")
      /\ exec' = IF Held(j) /\ exec[j].committed /\ exec[j].complete
                 THEN [exec EXCEPT ![j] = NoExec] ELSE exec
      /\ EndOp
      /\ UNCHANGED <<durable, selected, passes, downloads, lease, runner, reader, request, boot,
                     faults>>

(***************************************************************************)
(* request_cleanup by the operation: cleanup_requested is set before the   *)
(* readers are looked at                                                   *)
(***************************************************************************)
CleanupStore ==
  /\ op.pc = "store"
  /\ requested' = [requested EXCEPT ![op.job] = TRUE]
  /\ Step("load")
  /\ UNCHANGED <<durable, memory, readers, lease, runner, reader, request, boot, faults>>

\* Mutant: the readers are not looked at.
CleanupLoadBlind ==
  /\ op.pc = "load"
  /\ Step("remove")
  /\ UNCHANGED <<durable, memory, downloads, lease, runner, reader, request, boot, faults>>

CleanupLoad ==
  /\ op.pc = "load"
  /\ IF readers[op.job] # 0 THEN EndOp ELSE Step("remove")
  /\ UNCHANGED <<durable, memory, downloads, lease, runner, reader, request, boot, faults>>

CleanupRemove ==
  LET j == op.job
  IN  /\ op.pc = "remove"
      /\ \/ child' = [child EXCEPT ![j] = "absent"] /\ Step("removed") /\ UNCHANGED faults
         \/ /\ Fault /\ EndOp /\ child[j] # "absent"
            /\ child' = [child EXCEPT ![j] = "partial"]
         \/ /\ Fault /\ EndOp      \* the directory of the hash cannot be removed
            /\ child' = [child EXCEPT ![j] = "absent"]
      /\ UNCHANGED <<job, head, published, memory, downloads, lease, runner, reader, request, boot>>

\* What each operation notes once the files are gone.
CleanupRemoved ==
  LET j == op.job
  IN  /\ op.pc = "removed"
      /\ CASE op.kind \in {"finish", "observe"} ->
                /\ exec' = [exec EXCEPT ![j] = IF @.result THEN [@ EXCEPT !.complete = TRUE]
                                                           ELSE NoExec]
                /\ IF op.kind = "finish" THEN Step("release") ELSE EndOp
           [] op.kind = "abandon" ->
                exec' = [exec EXCEPT ![j].abandonment = "cleaned"] /\ EndOp
           [] op.kind = "reprepare" -> UNCHANGED exec /\ EndOp
      /\ UNCHANGED <<durable, selected, passes, downloads, lease, runner, reader, request, boot,
                     faults>>

(***************************************************************************)
(* abandon_prepared_ci, under the queue lock throughout                    *)
(***************************************************************************)
\* request_abandonment takes the request, or has taken it before.
Abandonable(j) ==
  /\ ~job[j].bound /\ Held(j) /\ exec[j].abandonment # "cleaned"
  /\ exec[j].abandonment = "none" => selected[exec[j].pkg] = j /\ Verified(j)

\* The owner of the attempt has reported its end.  An expired lease reports nothing.
OwnerReported(j) ==
  \/ job[j].state = "failed" /\ job[j].error = "terminal"
  \/ job[j].state = "succeeded" /\ exec[j].evidence # "none"

Abandon ==
  LET j == op.job
      Asked(how) == exec' = [exec EXCEPT ![j].released = TRUE, ![j].abandonment = how]
      Clean == op' = [op EXCEPT !.pc = "store"] /\ queue' = OpThread
      before == IF exec[j].abandonment = "none" THEN "asked" ELSE exec[j].abandonment
  IN  /\ At("abandon", "look") /\ queue = Free
      /\ IF ~Abandonable(j) THEN EndOp /\ UNCHANGED <<exec, job>>
         ELSE \/ /\ job[j].state = "queued" /\ ~lease[j] /\ ~job[j].claimed
                 /\ job' = [job EXCEPT ![j].state = "failed", ![j].error = "terminal"]
                 /\ Asked("stopped") /\ Clean
              \/ /\ OwnerReported(j) /\ ~lease[j]
                 /\ Asked("stopped") /\ Clean
                 /\ UNCHANGED job
              \/ /\ ~lease[j] => job[j].state # "queued" /\ ~OwnerReported(j)
                 /\ Asked(before)
                 /\ IF job[j].error # "expired" /\ before = "stopped" THEN Clean ELSE EndOp
                 /\ UNCHANGED job
      /\ UNCHANGED <<head, child, published, selected, passes, downloads, lease, runner, reader,
                     request, boot, faults>>

(***************************************************************************)
(* reprepare: an unbound job that an earlier server left is replaced by a  *)
(* new one made from its files, which are then removed                     *)
(***************************************************************************)
\* reset_execution_stopped
ResetStopped(j) ==
  \/ job[j].state \in {"succeeded", "failed"} /\ j \in ended
  \/ job[j].state = "failed" /\ ~job[j].claimed

Reprepare(j) ==
  LET p == job[j].pkg
      k == selected[p]
  IN  /\ op = Idle /\ queue = Free
      /\ ~Accepted(p)
      /\ j \in reset /\ ~Held(j) /\ ResetStopped(j) /\ ~lease[j]
      /\ IF k # 0
         THEN /\ k \notin reset /\ Selected(k) /\ Verified(k)
              /\ j \in exec[k].origins \/ child[j] = "whole"
              /\ exec' = [exec EXCEPT ![k].origins = @ \cup {j}]
              /\ UNCHANGED <<job, child, selected>>
         ELSE /\ child[j] = "whole" /\ Admits(p)
              /\ Enqueue(p, {j})
      /\ IF child[j] = "whole" THEN op' = [kind |-> "reprepare", job |-> j, pc |-> "store"]
                               ELSE UNCHANGED op
      /\ UNCHANGED <<head, published, passes, downloads, lease, runner, queue, reader, request,
                     boot, faults>>

(***************************************************************************)
(* The server stops and starts again                                       *)
(***************************************************************************)
\* Mutant: a job that a runner may still execute is failed like one that never ran.
InvalidatedTerminal(j) ==
  IF j \in Active THEN [job[j] EXCEPT !.state = "failed", !.error = "terminal"] ELSE job[j]

\* invalidate_prepared_ci_after_restart
Invalidated(j) ==
  IF j \in Active
  THEN [job[j] EXCEPT !.state = "failed", !.error = IF job[j].claimed THEN "expired" ELSE "terminal"]
  ELSE job[j]

\* What the server finds is noted before the active jobs are invalidated; the leases
\* of jobs that do not run are discarded.
Restart ==
  /\ restarts < MaxRestarts
  /\ restarts' = restarts + 1
  /\ reset' = {j \in Known : ~job[j].bound}
  /\ ended' = {j \in reset' : \/ job[j].state = "succeeded"
                              \/ job[j].state = "failed" /\ job[j].error = "terminal"}
  /\ job' = [j \in Known |-> Invalidated(j)]
  /\ lease' = [j \in Jobs |-> FALSE]
  /\ exec' = [j \in Jobs |-> NoExec]
  /\ selected' = [p \in Packages |-> 0]
  /\ passes' = 0
  /\ readers' = [j \in Jobs |-> 0]
  /\ requested' = [j \in Jobs |-> FALSE]
  /\ op' = Idle /\ queue' = Free
  /\ reader' = [r \in Readers |-> IdleReader]
  /\ request' = NoRequest
  /\ UNCHANGED <<head, child, published, runner, faults>>

-----------------------------------------------------------------------------
OpStep ==
  \/ FinishLook \/ FinishStage \/ FinishCommit \/ FinishRetain \/ CleanupOwner \/ FinishRelease
  \/ CleanupStore \/ CleanupLoad \/ CleanupRemove \/ CleanupRemoved
  \/ Abandon

ReaderStep(r) ==
  \/ PinFence(r) \/ PinCount(r) \/ Unpin(r) \/ UnpinLast(r) \/ ReaderLoad(r) \/ ReaderRemove(r)

Next ==
  \/ \E p \in Packages : Prepare(p)
  \/ \E j \in Known :
       \/ Claim(j) \/ Fail(j) \/ RunnerDies(j) \/ Reprepare(j) \/ Observe(j)
       \/ \E e \in {"pass", "fail"} : Complete(j, e)
       \/ \E review \in Reviews : EvidenceCheck(j, review)
       \/ \E kind \in {"finish", "abandon"}, lost \in SUBSET Leased : Begin(kind, j, lost)
  \/ \E lost \in SUBSET Leased : ReconcileRequest(lost)
  \/ EvidenceAccept
  \/ OpStep
  \/ \E r \in Readers : ReaderStep(r) \/ \E j \in Known : PinSelect(r, j)
  \/ Restart

Spec == Init /\ [][Next]_vars

(***************************************************************************)
(* Properties                                                              *)
(***************************************************************************)
\* The files of a job are whole for as long as a download reads them: neither finish nor
\* abandon nor a new preparation removes them under a pin (pin_download,
\* request_cleanup, ManagedPackageDownload::drop).
ReaderKeepsFiles ==
  \A r \in Readers : reader[r].pc = "reading" => child[reader[r].job] = "whole"

\* The files of a job are whole for as long as its runner works with them, also when its
\* lease expired and the server was restarted since (abandon_prepared_ci_with_cleanup,
\* reset_execution_stopped).
RunnerKeepsFiles ==
  \A j \in Known : runner[j] = "executing" => child[j] = "whole"

Sweeping(j) ==
  \/ op.job = j /\ op.pc \in {"load", "remove"}
  \/ \E r \in Readers : reader[r].job = j /\ reader[r].pc \in {"last", "load", "remove"}

\* A requested cleanup is not lost between the operation that asked and the last reader
\* that left: once both are through the files are gone.  A behaviour in which some write
\* or removal failed is excused, whichever job it was for.
CleanupIsNotLost ==
  \A j \in Known : requested[j] /\ readers[j] = 0 /\ ~Sweeping(j)
                     => child[j] = "absent" \/ faults > 0

\* A job is published with all the reviews accepted for it: no objection stands among
\* them, and a summary, a task approval and, where a human is required, a human's approval
\* are newer than the last objection of their author (with_finish_candidate,
\* require_complete).
PublishedAsReviewed ==
  \A j \in Known : job[j].bound =>
    /\ ~Standing(published[j])
    /\ Current(published[j], "code_review_summary", Principals)
    /\ Current(published[j], "task_approve", Principals)
    /\ RequireHuman => Current(published[j], "approve", Humans)
    /\ Held(j) => exec[j].actions = published[j]

\* No two published jobs were tested on the same base: each publication was tested on
\* what the line's head was when it was published (finish_prepared_ci).
TestedOnHead ==
  \A i, j \in Known : job[i].bound /\ job[j].bound /\ i # j => Base[job[i].pkg] # Base[job[j].pkg]

Publishable(j) ==
  /\ Eligible(exec, j) /\ RequireComplete(exec[j].actions, RequireHuman)
  /\ job[j].state = "succeeded" /\ ~job[j].bound
  /\ Verified(j) /\ head = Base[exec[j].pkg]

\* A package that passed earlier on the same base goes first, unless its job failed.
Behind(j) ==
  \E i \in Known : /\ Eligible(exec, i) /\ SameTarget(exec, i, j)
                   /\ exec[i].order < exec[j].order /\ job[i].state # "failed"

\* A package that has all it needs is not held up by one that never can be published: a
\* result that was recorded for a job which then failed gives up its place, and a finish
\* that nobody is ahead of goes on to its commit (finish_prepared_ci, release_priority).
FinishIsNotHeldUp ==
  [][/\ At("finish", "stage") /\ op' # op /\ restarts' = restarts
     /\ Publishable(op.job) /\ ~Behind(op.job)
     => op'.pc = "commit"]_vars
=============================================================================
