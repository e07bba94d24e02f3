-------------------------- MODULE WorkerJobRecords --------------------------
(***************************************************************************)
(* Worker Job records (operational_binary_v0.rs) and what the operations   *)
(* of the store (server_operational_worker_jobs.rs) make of them.          *)
(*                                                                         *)
(* A record keeps what the store's guards and indexes read.  A package job *)
(* is a patchset.ci job that names no Patchset until finish binds it.      *)
(***************************************************************************)
EXTENDS Naturals, Sequences

CONSTANTS
  MaxJobs,      \* bound: records of the table
  MaxAttempts   \* max_attempts of every job

ASSUME TableAssumption == MaxJobs \in Nat \ {0} /\ MaxAttempts \in Nat \ {0}

JobStates == {"queued", "running", "succeeded", "failed"}
Record == [state : JobStates, attempts : 0 .. MaxAttempts, package : BOOLEAN,
           bound : BOOLEAN, tomb : BOOLEAN]
Table == UNION {[1 .. n -> Record] : n \in 0 .. MaxJobs}

(* The record an enqueue appends: queued, or finished at once when the     *)
(* request is attached to, skipped for or superseded by another job.       *)
Fresh(package, disposition) ==
  [state |-> disposition, attempts |-> 0, package |-> package, bound |-> FALSE, tomb |-> FALSE]
FreshRecords == {Fresh(TRUE, "queued"), Fresh(FALSE, "queued"), Fresh(FALSE, "succeeded")}

Live(r) == ~r.tomb
Active(r) == Live(r) /\ r.state \in {"queued", "running"}
Running(r) == Live(r) /\ r.state = "running"

Replacements == {"begin_attempt", "requeue", "complete", "fail", "invalidate"}

(* Mutant of AttemptsLeft: one attempt too many.                           *)
AttemptsLeftOffByOne(r) == r.attempts <= MaxAttempts
AttemptsLeft(r) == r.attempts < MaxAttempts

(* Whether a replacement applies to a record, and what it makes of it.     *)
Admits(name, r) ==
  CASE name = "begin_attempt" -> Live(r) /\ r.state = "queued" /\ AttemptsLeft(r)
    [] name = "requeue" -> Running(r) /\ AttemptsLeft(r)
    [] name \in {"complete", "fail"} -> Running(r)
    [] name = "invalidate" -> Active(r) /\ r.package /\ ~r.bound

Replaced(name, r) ==
  CASE name = "begin_attempt" -> [r EXCEPT !.state = "running", !.attempts = @ + 1]
    [] name = "requeue" -> [r EXCEPT !.state = "queued"]
    [] name = "complete" -> [r EXCEPT !.state = "succeeded"]
    [] name \in {"fail", "invalidate"} -> [r EXCEPT !.state = "failed"]

(* finish_prepared_ci binds the successful package job to its Patchset.    *)
Finishable(r) == Live(r) /\ r.package /\ ~r.bound /\ r.state = "succeeded"
Bound(r) == [r EXCEPT !.bound = TRUE]

Tombstoned(t) == [j \in DOMAIN t |-> [t[j] EXCEPT !.tomb = TRUE]]
=============================================================================
