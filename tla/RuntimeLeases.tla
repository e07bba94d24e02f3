---------------------------- MODULE RuntimeLeases ----------------------------
(***************************************************************************)
(* Leases on Worker Jobs (server_operational_runtime_leases.rs) as the     *)
(* server's requests use them (operational_binary_runtime.rs): a runner    *)
(* claims a queued job, keeps its lease alive with heartbeats and reports  *)
(* completion or failure; every claim first reconciles the lease table     *)
(* with the jobs and takes jobs away from runners whose lease is gone.     *)
(*                                                                         *)
(* Every request reads the clock once, before it waits for a lock.  Job    *)
(* records change under the queue lock; the lease table has a mutex of its *)
(* own, which reconcile takes without the queue lock.  The lease table is  *)
(* mirrored in a replica file from which a restarted server starts.        *)
(*                                                                         *)
(* The jobs are bound patchset.ci jobs of one repository.                  *)
(***************************************************************************)
EXTENDS Integers, FiniteSets

CONSTANTS
  Runners, Boot,  \* the runners, and the start of the server
  Jobs,           \* worker job indexes
  MaxAttempts,    \* max_attempts of every job
  LeaseDuration, RetryDelay,
  Tokens,         \* lease tokens
  MaxClock,       \* bound: seconds that pass
  Faults,         \* the faults that may happen
  MaxFaults       \* bound: faults of a behaviour

ASSUME ThreadsAssumption == Boot \notin Runners /\ Jobs \subseteq Nat
ASSUME LimitsAssumption ==
  /\ MaxAttempts \in Nat \ {0}
  /\ LeaseDuration \in Nat \ {0}
  /\ RetryDelay \in Nat
  /\ MaxClock \in Nat \ {0}
  /\ MaxFaults \in Nat
ASSUME TokensAssumption == Tokens \subseteq Nat \ {0}
ASSUME FaultsAssumption == Faults \subseteq {"crash", "torn", "io"}

Threads == Runners \cup {Boot}
Time == 1 .. MaxClock

Job == [state : {"queued", "running", "succeeded", "failed"}, attempt : 0 .. MaxAttempts,
        available : 0 .. (MaxClock + RetryDelay), updated : Time]
Lease == [attempt : 1 .. MaxAttempts, token : Tokens, heartbeat : Time,
          expires : 1 .. (MaxClock + LeaseDuration)]
NoLease == [attempt |-> 0, token |-> 0, heartbeat |-> 0, expires |-> 0]
Leases == [Jobs -> Lease \cup {NoLease}]
Empty == [j \in Jobs |-> NoLease]

(* What a runner presents: the job, the attempt and the token it was given. *)
Grant == [job : Jobs, attempt : 1 .. MaxAttempts, token : Tokens]
NoGrant == [job |-> -1, attempt |-> 0, token |-> 0]

(* A request at work in the server: the clock it read, the job it changes, *)
(* the token a claim made, and for reconcile the attempts it saw running   *)
(* (0: none), the leases it found invalid and the jobs to take away.       *)
QueuePcs == {"run", "beaten", "succeed", "release", "drop"}
Pcs == QueuePcs \cup {"idle", "scan", "look", "sweep", "lost", "claim", "beat", "complete", "fail"}
Thread == [pc : Pcs, now : Time \cup {0}, job : Jobs \cup {-1}, token : Tokens \cup {0},
           snap : [Jobs -> 0 .. MaxAttempts], stale : Leases, todo : SUBSET Jobs]
Idle == [pc |-> "idle", now |-> 0, job |-> -1, token |-> 0, snap |-> [j \in Jobs |-> 0],
         stale |-> Empty, todo |-> {}]

VARIABLES
  clock,    \* seconds
  job,      \* the worker job records
  entries,  \* the lease table in memory
  replica,  \* the lease table in the replica file
  evidence, \* job -> completion time of its committed CI evidence, or 0
  th,       \* thread -> the request it works on
  grant,    \* runner -> the grant it holds
  faults    \* faults so far

vars == <<clock, job, entries, replica, evidence, th, grant, faults>>

\* Jobs, leases, the replica file and the requests under way have the shape that the
\* Worker Job records and RuntimeLeaseEntry give them; the bounds are never exceeded.
TypeOK ==
  /\ clock \in Time
  /\ job \in [Jobs -> Job]
  /\ entries \in Leases /\ replica \in Leases
  /\ evidence \in [Jobs -> Time \cup {0}]
  /\ th \in [Threads -> Thread]
  /\ grant \in [Runners -> Grant \cup {NoGrant}]
  /\ faults \in 0 .. MaxFaults

Init ==
  /\ clock = 1
  /\ job = [j \in Jobs |-> [state |-> "queued", attempt |-> 0, available |-> 1, updated |-> 1]]
  /\ entries = Empty /\ replica = Empty
  /\ evidence = [j \in Jobs |-> 0]
  /\ th = [t \in Threads |-> Idle]
  /\ grant = [r \in Runners |-> NoGrant]
  /\ faults = 0

(***************************************************************************)
(* Helpers                                                                 *)
(***************************************************************************)
QueueFree == \A t \in Threads : th[t].pc \notin QueuePcs
Booting == th[Boot].pc # "idle"

LeaseIsLive(e, now) == e # NoLease /\ e.heartbeat <= now /\ now < e.expires

RunningAttempt(j, a) == job[j].state = "running" /\ job[j].attempt = a
HasLiveEntry(j, a, now) == entries[j].attempt = a /\ LeaseIsLive(entries[j], now)

(* The lease a request presents is the one of the running attempt, and the *)
(* request does not turn the job's time back.                              *)
ValidEntry(g, now) == entries[g.job].token = g.token /\ HasLiveEntry(g.job, g.attempt, now)
Presents(g, now) ==
  /\ RunningAttempt(g.job, g.attempt)
  /\ job[g.job].updated <= now
  /\ ValidEntry(g, now)

(* Random tokens differ from every token that is still around.             *)
FreshTokens ==
  Tokens \ ({entries[j].token : j \in Jobs} \cup {replica[j].token : j \in Jobs}
            \cup {grant[r].token : r \in Runners} \cup {th[t].token : t \in Threads}
            \cup {th[t].stale[j].token : t \in Threads, j \in Jobs})

MayFail(kind) == kind \in Faults /\ faults < MaxFaults /\ faults' = faults + 1
Goes(t, next) == th' = [th EXCEPT ![t] = next]
At(t, pc) == th[t].pc = pc
To(t, pc) == [th[t] EXCEPT !.pc = pc]

(* A request that ends in an error answers it; a server whose start fails  *)
(* is started again.                                                       *)
Fails(t) == Goes(t, IF t = Boot THEN [Idle EXCEPT !.pc = "scan", !.now = clock] ELSE Idle)

(* mutate_entries: the table changes with its replica, or is put back when *)
(* the replica cannot be written, which may be after its rename.  A server *)
(* that starts again loads the replica again.                              *)
MutateEntries(t, new, next) ==
  \/ entries' = new /\ replica' = new /\ Goes(t, next) /\ UNCHANGED faults
  \/ /\ MayFail("io") /\ Fails(t)
     /\ replica' \in {replica, new}
     /\ entries' = IF t = Boot THEN replica' ELSE entries

(* queue.replace: the record changes, or is rolled back from its journal.  *)
Replace(t, j, new, next) ==
  \/ job' = [job EXCEPT ![j] = new] /\ Goes(t, next) /\ UNCHANGED faults
  \/ MayFail("io") /\ UNCHANGED job /\ Fails(t)

(***************************************************************************)
(* Runners and the clock                                                   *)
(***************************************************************************)
Tick == clock < MaxClock /\ clock' = clock + 1
        /\ UNCHANGED <<job, entries, replica, evidence, th, grant, faults>>

Asks(r, pc) ==
  /\ At(r, "idle") /\ ~Booting
  /\ Goes(r, [Idle EXCEPT !.pc = pc, !.now = clock])
  /\ UNCHANGED <<clock, job, entries, replica, evidence, grant, faults>>

Poll(r) == grant[r] = NoGrant /\ Asks(r, "scan")
Report(r) == grant[r] # NoGrant /\ \E pc \in {"beat", "complete", "fail"} : Asks(r, pc)

(* A runner dies, loses the answer to its claim, or gives its job up.      *)
GiveUp(r) ==
  /\ grant[r] # NoGrant /\ At(r, "idle")
  /\ grant' = [grant EXCEPT ![r] = NoGrant]
  /\ UNCHANGED <<clock, job, entries, replica, evidence, th, faults>>

(***************************************************************************)
(* reconcile                                                               *)
(***************************************************************************)
Scan(t) ==
  /\ At(t, "scan") /\ QueueFree
  /\ Goes(t, [To(t, "look") EXCEPT
       !.snap = [j \in Jobs |-> IF job[j].state = "running" THEN job[j].attempt ELSE 0]])
  /\ UNCHANGED <<clock, job, entries, replica, evidence, grant, faults>>

(* Mutant of ValidInSnapshot: an expired lease passes for valid.           *)
ValidThoughExpired(t, j) == entries[j] # NoLease /\ entries[j].attempt = th[t].snap[j]

(* A lease is valid for the attempt the snapshot shows running.            *)
ValidInSnapshot(t, j) ==
  entries[j].attempt = th[t].snap[j] /\ LeaseIsLive(entries[j], th[t].now)

Look(t) ==
  /\ At(t, "look")
  /\ Goes(t, [To(t, "sweep") EXCEPT
       !.stale = [j \in Jobs |-> IF ValidInSnapshot(t, j) THEN NoLease ELSE entries[j]],
       !.todo = {j \in Jobs : th[t].snap[j] # 0 /\ ~ValidInSnapshot(t, j)}])
  /\ UNCHANGED <<clock, job, entries, replica, evidence, grant, faults>>

(* The rest of reconcile, then the claim that asked for it.                *)
Reconciling(t, rest) ==
  IF rest # {} THEN [To(t, "lost") EXCEPT !.todo = rest, !.stale = Empty, !.job = -1]
  ELSE IF t = Boot THEN Idle
  ELSE [Idle EXCEPT !.pc = "claim", !.now = th[t].now]

(* An invalid lease goes unless it changed since the look.                 *)
Unswept(t) == [j \in Jobs |-> IF entries[j] = th[t].stale[j] THEN NoLease ELSE entries[j]]

Sweep(t) ==
  /\ At(t, "sweep")
  /\ \/ th[t].stale = Empty /\ Goes(t, Reconciling(t, th[t].todo))
        /\ UNCHANGED <<entries, replica, faults>>
     \/ th[t].stale # Empty /\ MutateEntries(t, Unswept(t), Reconciling(t, th[t].todo))
  /\ UNCHANGED <<clock, job, evidence, grant>>

Later(x, y) == IF x >= y THEN x ELSE y

(* Mutant of StillLost: the job record is not looked at again.             *)
LostUnchecked(t, j) == ~HasLiveEntry(j, th[t].snap[j], th[t].now)

(* reconcile_lease_lost looks again under the queue lock.                  *)
StillLost(t, j) ==
  RunningAttempt(j, th[t].snap[j]) /\ ~HasLiveEntry(j, th[t].snap[j], th[t].now)

(* The lost attempt is queued again after a delay, or was the last one.    *)
TakenAway(t, j) ==
  LET at == Later(th[t].now, job[j].updated)
  IN  IF job[j].attempt < MaxAttempts
      THEN [job[j] EXCEPT !.state = "queued", !.available = at + RetryDelay, !.updated = at]
      ELSE [job[j] EXCEPT !.state = "failed", !.updated = at]

Lost(t) ==
  /\ At(t, "lost") /\ QueueFree
  /\ \E j \in th[t].todo :
       /\ \A k \in th[t].todo : j <= k
       /\ \/ StillLost(t, j) /\ Replace(t, j, TakenAway(t, j), [To(t, "drop") EXCEPT !.job = j])
          \/ ~StillLost(t, j) /\ Goes(t, Reconciling(t, th[t].todo \ {j})) /\ UNCHANGED <<job, faults>>
  /\ UNCHANGED <<clock, entries, replica, evidence, grant>>

Drop(t) ==
  /\ At(t, "drop")
  /\ LET j == th[t].job
     IN MutateEntries(t, [entries EXCEPT ![j] = NoLease], Reconciling(t, th[t].todo \ {j}))
  /\ UNCHANGED <<clock, job, evidence, grant>>

(***************************************************************************)
(* claim, heartbeat, completion and failure                                *)
(***************************************************************************)
Claimable(j, now) ==
  /\ job[j].state = "queued"
  /\ job[j].updated <= now /\ job[j].available <= now
  /\ job[j].attempt < MaxAttempts

(* Mutant of NewLease: the lease names the attempt before.                 *)
LeaseOfLastAttempt(t, j, token) ==
  [attempt |-> job[j].attempt, token |-> token, heartbeat |-> th[t].now,
   expires |-> th[t].now + LeaseDuration]

NewLease(t, j, token) ==
  [attempt |-> job[j].attempt + 1, token |-> token, heartbeat |-> th[t].now,
   expires |-> th[t].now + LeaseDuration]

(* Mutant of ReplaceJobLease: a lease of the same attempt is kept.         *)
KeepsSameAttempt(j, lease) ==
  IF entries[j].attempt = lease.attempt THEN entries ELSE [entries EXCEPT ![j] = lease]

(* The lease of the coming attempt replaces every lease of the job, before *)
(* the job is running.                                                     *)
ReplaceJobLease(j, lease) == [entries EXCEPT ![j] = lease]

ClaimLease(t) ==
  /\ At(t, "claim") /\ QueueFree
  /\ \E j \in Jobs, token \in FreshTokens :
       /\ Claimable(j, th[t].now)
       /\ \A other \in FreshTokens : token <= other
       /\ MutateEntries(t, ReplaceJobLease(j, NewLease(t, j, token)),
                        [To(t, "run") EXCEPT !.job = j, !.token = token])
  /\ UNCHANGED <<clock, job, evidence, grant>>

Started(t, j) ==
  [job[j] EXCEPT !.state = "running", !.attempt = @ + 1, !.updated = th[t].now]

ClaimRun(t) ==
  /\ At(t, "run")
  /\ LET j == th[t].job
     IN  \/ /\ job' = [job EXCEPT ![j] = Started(t, j)]
            /\ grant' = [grant EXCEPT ![t] =
                 [job |-> j, attempt |-> job[j].attempt + 1, token |-> th[t].token]]
            /\ Goes(t, Idle) /\ UNCHANGED faults
         \/ MayFail("io") /\ Fails(t) /\ UNCHANGED <<job, grant>>
  /\ UNCHANGED <<clock, entries, replica, evidence>>

NothingReady(t) ==
  /\ At(t, "claim") /\ QueueFree
  /\ \A j \in Jobs : ~Claimable(j, th[t].now)
  /\ Goes(t, Idle)
  /\ UNCHANGED <<clock, job, entries, replica, evidence, grant, faults>>

(* A heartbeat prolongs the lease, then the job's lock.                    *)
Beat(t) ==
  /\ At(t, "beat") /\ QueueFree
  /\ Presents(grant[t], th[t].now)
  /\ LET j == grant[t].job
     IN MutateEntries(t, [entries EXCEPT ![j].heartbeat = th[t].now,
                                         ![j].expires = th[t].now + LeaseDuration],
                      To(t, "beaten"))
  /\ UNCHANGED <<clock, job, evidence, grant>>

Beaten(t) ==
  /\ At(t, "beaten")
  /\ LET j == grant[t].job
     IN Replace(t, j, [job[j] EXCEPT !.updated = th[t].now], Idle)
  /\ UNCHANGED <<clock, entries, replica, evidence, grant>>

(* Mutant of CommitPatchsetCiEvidence: nothing is written.                 *)
CommitForgotten(j, now) == evidence[j] \in {0, now} /\ UNCHANGED evidence

(* The evidence is stamped with the time of the request.  Evidence that is *)
(* already there is accepted when it is the same.                          *)
CommitPatchsetCiEvidence(j, now) ==
  /\ evidence[j] \in {0, now}
  /\ evidence' = [evidence EXCEPT ![j] = now]

(* Completion: domain commit, then the job, then the lease.                *)
Complete(t) ==
  /\ At(t, "complete") /\ QueueFree
  /\ Presents(grant[t], th[t].now)
  /\ \/ CommitPatchsetCiEvidence(grant[t].job, th[t].now) /\ Goes(t, To(t, "succeed"))
        /\ UNCHANGED faults
     \/ Fails(t) /\ UNCHANGED <<evidence, faults>>  \* the workflow database is busy
  /\ UNCHANGED <<clock, job, entries, replica, grant>>

Succeed(t) ==
  /\ At(t, "succeed")
  /\ LET j == grant[t].job
     IN Replace(t, j, [job[j] EXCEPT !.state = "succeeded", !.updated = th[t].now],
                To(t, "release"))
  /\ UNCHANGED <<clock, entries, replica, evidence, grant>>

FailedAttempt(t, j, retryable) ==
  IF retryable /\ job[j].attempt < MaxAttempts
  THEN [job[j] EXCEPT !.state = "queued", !.available = th[t].now + RetryDelay,
                      !.updated = th[t].now]
  ELSE [job[j] EXCEPT !.state = "failed", !.updated = th[t].now]

Fail(t) ==
  /\ At(t, "fail") /\ QueueFree
  /\ Presents(grant[t], th[t].now)
  /\ \E retryable \in BOOLEAN :
       Replace(t, grant[t].job, FailedAttempt(t, grant[t].job, retryable), To(t, "release"))
  /\ UNCHANGED <<clock, entries, replica, evidence, grant>>

(* remove_exact_lease, and the answer that ends the runner's attempt.      *)
Released(g) ==
  IF entries[g.job].attempt = g.attempt /\ entries[g.job].token = g.token
  THEN [entries EXCEPT ![g.job] = NoLease] ELSE entries

Release(t) ==
  /\ At(t, "release")
  /\ MutateEntries(t, Released(grant[t]), Idle)
  /\ grant' = [grant EXCEPT ![t] = IF faults' = faults THEN NoGrant ELSE @]
  /\ UNCHANGED <<clock, job, evidence>>

(* A report that is not from the owner of the running attempt, or whose    *)
(* evidence contradicts the committed one, changes nothing.                *)
Refuse(t) ==
  /\ th[t].pc \in {"beat", "complete", "fail"} /\ QueueFree
  /\ \/ ~Presents(grant[t], th[t].now)
     \/ At(t, "complete") /\ evidence[grant[t].job] \notin {0, th[t].now}
  /\ Goes(t, Idle)
  /\ UNCHANGED <<clock, job, entries, replica, evidence, grant, faults>>

(***************************************************************************)
(* The server dies and starts again from the replica, some of whose        *)
(* entries may be damaged; it reconciles before it serves.                 *)
(***************************************************************************)
Restart(damaged) ==
  /\ entries' = [j \in Jobs |-> IF j \in damaged THEN NoLease ELSE replica[j]]
  /\ replica' = entries'
  /\ th' = [t \in Threads |-> IF t = Boot THEN [Idle EXCEPT !.pc = "scan", !.now = clock] ELSE Idle]
  /\ UNCHANGED <<clock, job, evidence, grant>>

Crash == MayFail("crash") /\ Restart({})
Torn == MayFail("torn") /\ \E damaged \in SUBSET Jobs : damaged # {} /\ Restart(damaged)

Reconcile(t) == Scan(t) \/ Look(t) \/ Sweep(t) \/ Lost(t) \/ Drop(t)
Serve(r) ==
  \/ ClaimLease(r) \/ ClaimRun(r) \/ NothingReady(r)
  \/ Beat(r) \/ Beaten(r)
  \/ Complete(r) \/ Succeed(r) \/ Fail(r) \/ Release(r) \/ Refuse(r)
Step(t) == Reconcile(t) \/ (t \in Runners /\ Serve(t))

Next ==
  \/ Tick \/ Crash \/ Torn
  \/ \E r \in Runners : Poll(r) \/ Report(r) \/ GiveUp(r)
  \/ \E t \in Threads : Step(t)

Spec == Init /\ [][Next]_vars

(* Requests that started are worked on, idle runners poll, and every       *)
(* execution ends.                                                         *)
FairSpec ==
  /\ Spec
  /\ \A t \in Threads : WF_vars(Step(t))
  /\ \A r \in Runners : WF_vars(Poll(r)) /\ SF_vars(GiveUp(r))

(***************************************************************************)
(* Properties                                                              *)
(***************************************************************************)
(* The lease of a running attempt, in memory or in the replica a restart   *)
(* would load, is the one its runner was given: leases left by claims that *)
(* crashed or failed half way never stand in for it.                       *)
GrantBacked ==
  \A r \in Runners :
    LET g == grant[r] IN
    g # NoGrant /\ RunningAttempt(g.job, g.attempt) =>
      \A table \in {entries, replica} :
        table[g.job].attempt = g.attempt => table[g.job].token = g.token

(* A finished job stays as it is: neither a runner that lost its lease nor *)
(* a reconcile that works from an old snapshot revives it, and a runner    *)
(* never gets a new attempt of it.                                         *)
Finished(j) == job[j].state \in {"succeeded", "failed"}
FinishedStays == [][\A j \in Jobs : Finished(j) => job'[j] = job[j]]_vars

(* A job is marked succeeded only after its evidence is committed,         *)
(* whatever dies or fails between the two.                                 *)
SuccessHasEvidence == \A j \in Jobs : job[j].state = "succeeded" => evidence[j] # 0

(* A running job without a live lease does not stay so: it is taken away   *)
(* from its runner, or finished, or a late heartbeat saves it.             *)
Unleased(j, a) == RunningAttempt(j, a) /\ ~HasLiveEntry(j, a, clock)
LostLeaseIsResolved ==
  \A j \in Jobs, a \in 1 .. MaxAttempts : Unleased(j, a) ~> ~Unleased(j, a)

(* Reconcile never discards the live lease of a running attempt.           *)
LiveLeaseKept ==
  \A t \in Threads, j \in Jobs :
    At(t, "sweep") /\ entries[j] = th[t].stale[j] =>
      ~(RunningAttempt(j, entries[j].attempt) /\ LeaseIsLive(entries[j], clock))

(* The owner of a running attempt can repeat the domain commit that a      *)
(* crash separated from the job's success.                                 *)
CommitIsIdempotent ==
  \A r \in Runners :
    At(r, "complete") /\ QueueFree /\ Presents(grant[r], th[r].now) =>
      evidence[grant[r].job] \in {0, th[r].now}
=============================================================================
