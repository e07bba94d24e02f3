------------------------- MODULE RuntimeLeasesProofs -------------------------
(***************************************************************************)
(* Proofs about RuntimeLeases, for every number of runners, jobs, attempts *)
(* and faults.                                                             *)
(***************************************************************************)
EXTENDS RuntimeLeases, TLAPS

Reporting == {"beat", "beaten", "complete", "succeed", "fail", "release"}
BootPcs == {"idle", "scan", "look", "sweep", "lost", "drop"}
Backed(table, j, a, token) == table[j].attempt = a => table[j].token = token

(* What thread t may rely on.  The queue lock it holds keeps the job it    *)
(* found queued, or running under its grant, the way it found it; the      *)
(* tables have no lease of the coming attempt but the one of the claim.    *)
Works(t) ==
  /\ th[t].pc # "idle" => th[t].now \in Time
  /\ t = Boot => th[t].pc \in BootPcs
  /\ th[t].pc \in {"run", "drop"} => th[t].job \in Jobs
  /\ th[t].pc \in Reporting => grant[t] # NoGrant
  /\ th[t].pc = "run" =>
       /\ th[t].token \in Tokens
       /\ job[th[t].job].state = "queued" /\ job[th[t].job].attempt < MaxAttempts
       /\ Backed(entries, th[t].job, job[th[t].job].attempt + 1, th[t].token)
       /\ Backed(replica, th[t].job, job[th[t].job].attempt + 1, th[t].token)
  /\ th[t].pc \in {"beaten", "succeed"} => RunningAttempt(grant[t].job, grant[t].attempt)
  /\ th[t].pc = "succeed" => evidence[grant[t].job] # 0

Locked == \A t, u \in Threads : th[t].pc \in QueuePcs /\ th[u].pc \in QueuePcs => t = u

(* No grant is of an attempt that has not begun.                           *)
GrantsBegan == \A r \in Runners : grant[r] # NoGrant => grant[r].attempt <= job[grant[r].job].attempt

LeaseInv ==
  TypeOK /\ Locked /\ (\A t \in Threads : Works(t)) /\ GrantsBegan /\ GrantBacked /\ SuccessHasEvidence

-----------------------------------------------------------------------------
(* The states of a thread.                                                 *)
LEMMA EmptyIs == Empty \in Leases /\ \A j \in Jobs : Empty[j] = NoLease
BY DEF Empty, Leases

LEMMA LeaseIs ==
  /\ NoLease.attempt = 0 /\ NoLease.token = 0
  /\ \A e \in Lease : e.attempt \in 1 .. MaxAttempts /\ e.token \in Tokens /\ e # NoLease
BY LimitsAssumption DEF NoLease, Lease

LEMMA IdleIs == Idle \in Thread /\ Idle.pc = "idle"
<1>1. [j \in Jobs |-> 0] \in [Jobs -> 0 .. MaxAttempts]
  BY LimitsAssumption
<1>. QED BY <1>1, EmptyIs DEF Idle, Thread, Pcs, QueuePcs

LEMMA ToIs ==
  ASSUME NEW r \in Thread, NEW pc \in Pcs, NEW next, next = [r EXCEPT !.pc = pc]
  PROVE  /\ next \in Thread /\ next.pc = pc /\ next.now = r.now /\ next.job = r.job
         /\ next.token = r.token /\ next.snap = r.snap /\ next.stale = r.stale /\ next.todo = r.todo
BY DEF Thread

LEMMA GoesIs ==
  ASSUME TypeOK, NEW t \in Threads, NEW next \in Thread, Goes(t, next)
  PROVE  /\ th' \in [Threads -> Thread] /\ th'[t] = next
         /\ \A u \in Threads : u # t => th'[u] = th[u]
BY DEF TypeOK, Goes

LEMMA FailsIs ==
  ASSUME TypeOK, NEW t \in Threads, Fails(t)
  PROVE  \E next \in Thread :
           /\ Goes(t, next) /\ next.pc \in {"idle", "scan"} /\ (next.pc = "scan" => next.now \in Time)
<1>1. clock \in Time /\ "scan" \in Pcs
  BY DEF TypeOK, Pcs
<1>2. CASE t = Boot
  <2>1. PICK next : next = [Idle EXCEPT !.pc = "scan", !.now = clock]
    OBVIOUS
  <2>2. Goes(t, next)
    BY <1>2, <2>1 DEF Fails, Goes
  <2>3. next \in Thread /\ next.pc = "scan" /\ next.now = clock
    BY <1>1, <2>1, IdleIs DEF Thread
  <2>. QED BY <1>1, <2>2, <2>3
<1>3. CASE t # Boot
  BY <1>3, IdleIs DEF Fails
<1>. QED BY <1>2, <1>3

(* What a state says of its parts.                                         *)
LEMMA StateIs ==
  ASSUME LeaseInv
  PROVE  /\ TypeOK /\ Locked /\ (\A t \in Threads : Works(t)) /\ GrantsBegan /\ GrantBacked
         /\ SuccessHasEvidence /\ clock \in Time
         /\ \A j \in Jobs : job[j] \in Job /\ entries[j] \in Lease \cup {NoLease}
                            /\ replica[j] \in Lease \cup {NoLease} /\ evidence[j] \in Time \cup {0}
         /\ \A t \in Threads : th[t] \in Thread
         /\ \A r \in Runners : r \in Threads /\ r # Boot /\ grant[r] \in Grant \cup {NoGrant}
BY ThreadsAssumption DEF LeaseInv, TypeOK, Leases, Threads

-----------------------------------------------------------------------------
(* A step of one thread and the others.                                    *)

(* The leases in the two tables after a step are among those before it,    *)
(* but for their times.                                                    *)
SameLease(e, o) == e.attempt = o.attempt /\ e.token = o.token
TablesFrom ==
  \A j \in Jobs :
    /\ entries'[j].attempt = 0 \/ SameLease(entries'[j], entries[j]) \/ SameLease(entries'[j], replica[j])
    /\ replica'[j].attempt = 0 \/ SameLease(replica'[j], entries[j]) \/ SameLease(replica'[j], replica[j])
TablesOK == entries' \in Leases /\ replica' \in Leases

(* Nobody but t holds the queue lock.                                      *)
Alone(t) == \A u \in Threads : u # t => th[u].pc \notin QueuePcs
Others(t) ==
  /\ \A u \in Threads : u # t => th'[u] = th[u]
  /\ \A r \in Runners : r # t => grant'[r] = grant[r]
  /\ \A j \in Jobs : evidence[j] # 0 => evidence'[j] # 0

LEMMA FreeIsAlone ==
  ASSUME LeaseInv, NEW t \in Threads, QueueFree \/ th[t].pc \in QueuePcs
  PROVE  Alone(t)
BY DEF LeaseInv, Locked, QueueFree, Alone

LEMMA OthersWork ==
  ASSUME LeaseInv, NEW t \in Threads, Others(t),
         TablesFrom \/ Alone(t), UNCHANGED job \/ Alone(t),
         NEW u \in Threads, u # t
  PROVE  Works(u)'
<1>1. Works(u) /\ TypeOK
  BY StateIs
<1>2. th'[u] = th[u]
  BY DEF Others
<1>3. th[u].pc \in Reporting => u \in Runners
  BY <1>1 DEF Works, Reporting, BootPcs, Threads
<1>4. th[u].pc \in Reporting => grant'[u] = grant[u]
  BY <1>3 DEF Others
<1>5. CASE Alone(t)
  <2>1. th[u].pc \notin QueuePcs
    BY <1>5 DEF Alone
  <2>2. th[u].pc \notin {"run", "drop", "beaten", "succeed"}
    BY <2>1 DEF QueuePcs
  <2>. QED BY <1>1, <1>2, <1>4, <2>2 DEF Works
<1>6. CASE TablesFrom /\ UNCHANGED job
  <2>1. /\ th[u].pc # "idle" => th[u].now \in Time
        /\ u = Boot => th[u].pc \in BootPcs
        /\ th[u].pc \in {"run", "drop"} => th[u].job \in Jobs
        /\ th[u].pc \in Reporting => grant'[u] # NoGrant
    BY <1>1, <1>4 DEF Works
  <2>2. ASSUME th[u].pc = "run"
        PROVE  /\ th[u].token \in Tokens
               /\ job[th[u].job].state = "queued" /\ job[th[u].job].attempt < MaxAttempts
               /\ Backed(entries', th[u].job, job[th[u].job].attempt + 1, th[u].token)
               /\ Backed(replica', th[u].job, job[th[u].job].attempt + 1, th[u].token)
    <3>1. PICK j \in Jobs : j = th[u].job
      BY <1>1, <2>2 DEF Works
    <3>2. PICK a : a = job[j].attempt + 1
      OBVIOUS
    <3>3. a # 0
      BY <1>1, <3>1, <3>2, LimitsAssumption DEF TypeOK, Job
    <3>4. /\ th[u].token \in Tokens /\ job[j].state = "queued" /\ job[j].attempt < MaxAttempts
          /\ entries[j].attempt = a => entries[j].token = th[u].token
          /\ replica[j].attempt = a => replica[j].token = th[u].token
      BY <1>1, <2>2, <3>1, <3>2 DEF Works, Backed
    <3>5. /\ entries'[j].attempt = a => entries'[j].token = th[u].token
          /\ replica'[j].attempt = a => replica'[j].token = th[u].token
      BY <1>6, <3>3, <3>4 DEF TablesFrom, SameLease
    <3>. QED BY <3>1, <3>2, <3>4, <3>5 DEF Backed
  <2>3. th[u].pc \in {"beaten", "succeed"} =>
          job[grant[u].job].state = "running" /\ job[grant[u].job].attempt = grant[u].attempt
    BY <1>1 DEF Works, RunningAttempt
  <2>4. th[u].pc = "succeed" => evidence'[grant[u].job] # 0
    <3>1. th[u].pc = "succeed" => u \in Runners /\ grant[u] # NoGrant /\ evidence[grant[u].job] # 0
      BY <1>1, <1>3 DEF Works, Reporting
    <3>2. th[u].pc = "succeed" => grant[u].job \in Jobs
      BY <1>1, <3>1 DEF TypeOK, Grant
    <3>. QED BY <3>1, <3>2 DEF Others
  <2>. QED BY <1>2, <1>4, <1>6, <2>1, <2>2, <2>3, <2>4 DEF Works, Reporting, RunningAttempt, Backed
<1>. QED BY <1>5, <1>6

LEMMA LockedKept ==
  ASSUME LeaseInv, NEW t \in Threads, \A u \in Threads : u # t => th'[u] = th[u],
         th'[t].pc \in QueuePcs => Alone(t)
  PROVE  Locked'
BY DEF LeaseInv, Locked, Alone

LEMMA GrantsKept ==
  ASSUME LeaseInv, TablesFrom, UNCHANGED <<job, grant>>
  PROVE  GrantsBegan' /\ GrantBacked'
<1>1. GrantsBegan'
  BY DEF LeaseInv, GrantsBegan
<1>2. ASSUME NEW r \in Runners, grant[r] # NoGrant, RunningAttempt(grant[r].job, grant[r].attempt)
      PROVE  /\ entries'[grant[r].job].attempt = grant[r].attempt => entries'[grant[r].job].token = grant[r].token
             /\ replica'[grant[r].job].attempt = grant[r].attempt => replica'[grant[r].job].token = grant[r].token
  <2>1. PICK g \in Grant : g = grant[r]
    BY <1>2, StateIs
  <2>2. /\ entries[g.job].attempt = g.attempt => entries[g.job].token = g.token
        /\ replica[g.job].attempt = g.attempt => replica[g.job].token = g.token
    BY <1>2, <2>1 DEF LeaseInv, GrantBacked
  <2>3. g.job \in Jobs /\ g.attempt # 0
    BY LimitsAssumption DEF Grant
  <2>. QED BY <2>1, <2>2, <2>3 DEF TablesFrom, SameLease
<1>3. GrantBacked'
  BY <1>2 DEF GrantBacked, RunningAttempt
<1>. QED BY <1>1, <1>3

(* A step that leaves jobs, grants and evidence alone.                     *)
LEMMA MoveKeeps ==
  ASSUME LeaseInv, NEW t \in Threads, NEW next \in Thread, Goes(t, next),
         TablesOK, TablesFrom, UNCHANGED <<clock, job, evidence, grant>>, faults' \in 0 .. MaxFaults,
         next.pc \in QueuePcs => Alone(t), Works(t)'
  PROVE  LeaseInv'
<1>1. TypeOK /\ SuccessHasEvidence
  BY StateIs
<1>2. th' \in [Threads -> Thread] /\ th'[t] = next /\ \A u \in Threads : u # t => th'[u] = th[u]
  BY <1>1, GoesIs
<1>3. TypeOK'
  BY <1>1, <1>2 DEF TypeOK, TablesOK
<1>4. Others(t)
  BY <1>2 DEF Others
<1>5. \A u \in Threads : Works(u)'
  BY <1>4, OthersWork
<1>6. Locked'
  BY <1>2, LockedKept
<1>7. GrantsBegan' /\ GrantBacked'
  BY GrantsKept
<1>8. SuccessHasEvidence'
  BY <1>1 DEF SuccessHasEvidence
<1>. QED BY <1>3, <1>5, <1>6, <1>7, <1>8 DEF LeaseInv

(* A thread that does not hold the queue lock relies on little.            *)
Plain(t, next) ==
  /\ next.pc \notin QueuePcs
  /\ next.pc # "idle" => next.now \in Time
  /\ t = Boot => next.pc \in BootPcs
  /\ next.pc \in Reporting => grant[t] # NoGrant

LEMMA PlainWorks ==
  ASSUME NEW t, NEW next, th'[t] = next, Plain(t, next), grant' = grant
  PROVE  Works(t)'
BY DEF Plain, Works, QueuePcs

LEMMA PlainKeeps ==
  ASSUME LeaseInv, NEW t \in Threads, NEW next \in Thread, Goes(t, next), Plain(t, next),
         TablesOK, TablesFrom, UNCHANGED <<clock, job, evidence, grant>>, faults' \in 0 .. MaxFaults
  PROVE  LeaseInv'
<1>1. th'[t] = next
  BY GoesIs, StateIs
<1>2. Works(t)'
  BY <1>1, PlainWorks
<1>. QED BY <1>2, MoveKeeps DEF Plain

LEMMA TablesStay ==
  ASSUME LeaseInv, UNCHANGED <<entries, replica>>
  PROVE  TablesOK /\ TablesFrom
BY StateIs DEF TablesOK, TablesFrom, SameLease, TypeOK

LEMMA FaultCounted ==
  ASSUME LeaseInv, faults' = faults \/ (\E kind : MayFail(kind))
  PROVE  faults' \in 0 .. MaxFaults
BY StateIs, LimitsAssumption DEF TypeOK, MayFail

(* mutate_entries with a table whose leases are all in the old one.        *)
NewFrom(new) == \A j \in Jobs : new[j].attempt = 0 \/ SameLease(new[j], entries[j])

LEMMA MutateKeeps ==
  ASSUME LeaseInv, NEW t \in Threads, NEW new \in Leases, NewFrom(new), NEW next \in Thread,
         MutateEntries(t, new, next), UNCHANGED <<clock, job, evidence, grant>>,
         next.pc \in QueuePcs => Alone(t), th'[t] = next => Works(t)'
  PROVE  LeaseInv'
<1>1. TypeOK
  BY StateIs
<1>2. CASE entries' = new /\ replica' = new /\ Goes(t, next) /\ UNCHANGED faults
  <2>1. TablesOK /\ TablesFrom
    BY <1>2 DEF TablesOK, TablesFrom, NewFrom
  <2>2. th'[t] = next
    BY <1>1, <1>2, GoesIs
  <2>3. faults' \in 0 .. MaxFaults
    BY <1>2, FaultCounted
  <2>. QED BY <1>2, <2>1, <2>2, <2>3, MoveKeeps
<1>3. CASE /\ MayFail("io") /\ Fails(t) /\ replica' \in {replica, new}
           /\ entries' = IF t = Boot THEN replica' ELSE entries
  <2>1. PICK n \in Thread :
          Goes(t, n) /\ n.pc \in {"idle", "scan"} /\ (n.pc = "scan" => n.now \in Time)
    BY <1>1, <1>3, FailsIs
  <2>2. Plain(t, n)
    BY <2>1 DEF Plain, BootPcs, Reporting, QueuePcs
  <2>3. TablesOK
    BY <1>1, <1>3 DEF TablesOK, TypeOK
  <2>4. TablesFrom
    BY <1>3 DEF TablesFrom, NewFrom, SameLease
  <2>5. faults' \in 0 .. MaxFaults
    BY <1>3, FaultCounted
  <2>. QED BY <2>1, <2>2, <2>3, <2>4, <2>5, PlainKeeps
<1>. QED BY <1>2, <1>3 DEF MutateEntries

(* An error outside the tables.                                            *)
LEMMA ErrorKeeps ==
  ASSUME LeaseInv, NEW t \in Threads, Fails(t), faults' = faults \/ (\E kind : MayFail(kind)),
         UNCHANGED <<clock, job, entries, replica, evidence, grant>>
  PROVE  LeaseInv'
<1>1. PICK n \in Thread :
        Goes(t, n) /\ n.pc \in {"idle", "scan"} /\ (n.pc = "scan" => n.now \in Time)
  BY StateIs, FailsIs
<1>2. Plain(t, n)
  BY <1>1 DEF Plain, BootPcs, Reporting, QueuePcs
<1>3. TablesOK /\ TablesFrom /\ faults' \in 0 .. MaxFaults
  BY TablesStay, FaultCounted
<1>. QED BY <1>1, <1>2, <1>3, PlainKeeps

(* The same for a step that ends in a state of its own.                    *)
LEMMA QuietKeeps ==
  ASSUME LeaseInv, NEW t \in Threads, NEW next \in Thread, Goes(t, next), Plain(t, next),
         UNCHANGED <<clock, job, entries, replica, evidence, grant, faults>>
  PROVE  LeaseInv'
<1>1. TablesOK /\ TablesFrom /\ faults' \in 0 .. MaxFaults
  BY TablesStay, FaultCounted
<1>. QED BY <1>1, PlainKeeps

-----------------------------------------------------------------------------
(* The actions.                                                            *)
LEMMA AskKeeps ==
  ASSUME LeaseInv, NEW r \in Runners, Poll(r) \/ Report(r)
  PROVE  LeaseInv'
<1>1. PICK pc \in {"scan", "beat", "complete", "fail"} :
        Asks(r, pc) /\ (pc \in {"beat", "complete", "fail"} => grant[r] # NoGrant)
  BY DEF Poll, Report
<1>2. PICK next : next = [Idle EXCEPT !.pc = pc, !.now = clock]
  OBVIOUS
<1>3. clock \in Time /\ pc \in Pcs /\ r \in Threads /\ r # Boot
  BY StateIs DEF Pcs
<1>4. next \in Thread /\ next.pc = pc /\ next.now = clock
  BY <1>2, <1>3, IdleIs DEF Thread
<1>5. Goes(r, next) /\ UNCHANGED <<clock, job, entries, replica, evidence, grant, faults>>
  BY <1>1, <1>2 DEF Asks, Goes
<1>6. Plain(r, next)
  BY <1>1, <1>3, <1>4 DEF Plain, Reporting, QueuePcs
<1>. QED BY <1>3, <1>4, <1>5, <1>6, QuietKeeps

LEMMA ScanKeeps ==
  ASSUME LeaseInv, NEW t \in Threads, Scan(t)
  PROVE  LeaseInv'
<1>1. /\ TypeOK /\ th[t] \in Thread /\ th[t].pc = "scan" /\ th[t].now \in Time
      /\ t = Boot => th[t].pc \in BootPcs
  BY StateIs DEF Scan, At, Works
<1>2. PICK snap : snap = [j \in Jobs |-> IF job[j].state = "running" THEN job[j].attempt ELSE 0]
  OBVIOUS
<1>3. snap \in [Jobs -> 0 .. MaxAttempts]
  BY <1>1, <1>2, LimitsAssumption DEF TypeOK, Job
<1>4. PICK next : next = [[th[t] EXCEPT !.pc = "look"] EXCEPT !.snap = snap]
  OBVIOUS
<1>5. next \in Thread /\ next.pc = "look" /\ next.now = th[t].now
  BY <1>1, <1>3, <1>4 DEF Thread, Pcs
<1>6. Goes(t, next) /\ UNCHANGED <<clock, job, entries, replica, evidence, grant, faults>>
  BY <1>2, <1>4 DEF Scan, Goes, To
<1>7. Plain(t, next)
  BY <1>1, <1>5 DEF Plain, Reporting, QueuePcs, BootPcs
<1>. QED BY <1>5, <1>6, <1>7, QuietKeeps

LEMMA LookKeeps ==
  ASSUME LeaseInv, NEW t \in Threads, Look(t)
  PROVE  LeaseInv'
<1>1. /\ TypeOK /\ th[t] \in Thread /\ th[t].pc = "look" /\ th[t].now \in Time
  BY StateIs DEF Look, At, Works
<1>2. PICK stale : stale = [j \in Jobs |-> IF ValidInSnapshot(t, j) THEN NoLease ELSE entries[j]]
  OBVIOUS
<1>3. PICK todo : todo = {j \in Jobs : th[t].snap[j] # 0 /\ ~ValidInSnapshot(t, j)}
  OBVIOUS
<1>4. stale \in Leases /\ todo \in SUBSET Jobs
  BY <1>1, <1>2, <1>3 DEF TypeOK, Leases
<1>5. PICK next : next = [[th[t] EXCEPT !.pc = "sweep"] EXCEPT !.stale = stale, !.todo = todo]
  OBVIOUS
<1>6. next \in Thread /\ next.pc = "sweep" /\ next.now = th[t].now
  BY <1>1, <1>4, <1>5 DEF Thread, Pcs
<1>7. Goes(t, next) /\ UNCHANGED <<clock, job, entries, replica, evidence, grant, faults>>
  BY <1>2, <1>3, <1>5 DEF Look, Goes, To
<1>8. Plain(t, next)
  BY <1>1, <1>6 DEF Plain, Reporting, QueuePcs, BootPcs
<1>. QED BY <1>6, <1>7, <1>8, QuietKeeps

(* Where reconcile goes on.                                                *)
LEMMA ReconcilingIs ==
  ASSUME LeaseInv, NEW t \in Threads, th[t].pc # "idle", NEW rest \in SUBSET Jobs,
         NEW next, next = Reconciling(t, rest)
  PROVE  next \in Thread /\ Plain(t, next)
<1>1. th[t] \in Thread /\ th[t].now \in Time
  BY StateIs DEF Works
<1>2. CASE rest # {}
  <2>1. next = [[th[t] EXCEPT !.pc = "lost"] EXCEPT !.todo = rest, !.stale = Empty, !.job = -1]
    BY <1>2 DEF Reconciling, To
  <2>2. next \in Thread /\ next.pc = "lost" /\ next.now = th[t].now
    BY <1>1, <2>1, EmptyIs DEF Thread, Pcs
  <2>. QED BY <1>1, <2>2 DEF Plain, Reporting, QueuePcs, BootPcs
<1>3. CASE rest = {} /\ t = Boot
  BY <1>3, IdleIs DEF Reconciling, Plain, Reporting, QueuePcs, BootPcs
<1>4. CASE rest = {} /\ t # Boot
  <2>1. next = [Idle EXCEPT !.pc = "claim", !.now = th[t].now]
    BY <1>4 DEF Reconciling
  <2>2. next \in Thread /\ next.pc = "claim" /\ next.now = th[t].now
    BY <1>1, <2>1, IdleIs DEF Thread, Pcs
  <2>. QED BY <1>1, <1>4, <2>2 DEF Plain, Reporting, QueuePcs, BootPcs
<1>. QED BY <1>2, <1>3, <1>4

LEMMA SweepKeeps ==
  ASSUME LeaseInv, NEW t \in Threads, Sweep(t)
  PROVE  LeaseInv'
<1>1. /\ TypeOK /\ th[t] \in Thread /\ th[t].pc = "sweep" /\ th[t].todo \in SUBSET Jobs
      /\ UNCHANGED <<clock, job, evidence, grant>>
  BY StateIs DEF Sweep, At, Thread
<1>2. PICK next : next = Reconciling(t, th[t].todo)
  OBVIOUS
<1>3. next \in Thread /\ Plain(t, next)
  <2>1. PICK rest : rest = th[t].todo
    OBVIOUS
  <2>2. next = Reconciling(t, rest)
    BY <1>2, <2>1
  <2>. QED BY <1>1, <2>1, <2>2, ReconcilingIs
<1>4. CASE Goes(t, next) /\ UNCHANGED <<entries, replica, faults>>
  BY <1>1, <1>3, <1>4, QuietKeeps
<1>5. CASE MutateEntries(t, Unswept(t), next)
  <2>1. PICK new : new = Unswept(t)
    OBVIOUS
  <2>2. new \in Leases
    BY <1>1, <2>1 DEF Unswept, Leases, TypeOK
  <2>3. NewFrom(new)
    BY <2>1, LeaseIs DEF Unswept, NewFrom, SameLease
  <2>4. MutateEntries(t, new, next)
    BY <1>5, <2>1 DEF MutateEntries
  <2>5. th'[t] = next => Works(t)'
    BY <1>1, <1>3, PlainWorks
  <2>. QED BY <1>1, <1>3, <2>2, <2>3, <2>4, <2>5, MutateKeeps DEF Plain
<1>. QED BY <1>2, <1>4, <1>5 DEF Sweep, MutateEntries, Goes

(* A job record is replaced by who holds, or has just taken, the queue     *)
(* lock: the attempt stays, and no job starts to run.                      *)
LEMMA ReplaceKeeps ==
  ASSUME LeaseInv, NEW t \in Threads, Alone(t), NEW j \in Jobs, NEW new \in Job, NEW next \in Thread,
         new.attempt = job[j].attempt, new.state = "running" => job[j].state = "running",
         new.state = "succeeded" => evidence[j] # 0,
         next.pc \notin {"run", "beaten", "succeed"},
         next.pc # "idle" => next.now \in Time,
         t = Boot => next.pc \in BootPcs,
         next.pc = "drop" => next.job \in Jobs,
         next.pc \in Reporting => grant[t] # NoGrant,
         Replace(t, j, new, next), UNCHANGED <<clock, entries, replica, evidence, grant>>
  PROVE  LeaseInv'
<1>1. TypeOK /\ GrantsBegan /\ GrantBacked /\ SuccessHasEvidence
  BY StateIs
<1>2. CASE job' = [job EXCEPT ![j] = new] /\ Goes(t, next) /\ UNCHANGED faults
  <2>1. th' \in [Threads -> Thread] /\ th'[t] = next /\ \A u \in Threads : u # t => th'[u] = th[u]
    BY <1>1, <1>2, GoesIs
  <2>2. /\ job' \in [Jobs -> Job] /\ job'[j] = new /\ \A k \in Jobs : k # j => job'[k] = job[k]
    BY <1>1, <1>2 DEF TypeOK
  <2>3. TypeOK'
    BY <1>1, <1>2, <2>1, <2>2 DEF TypeOK
  <2>4. Others(t)
    BY <2>1 DEF Others
  <2>5. Works(t)'
    BY <2>1 DEF Works
  <2>6. \A u \in Threads : Works(u)'
    BY <2>4, <2>5, OthersWork
  <2>7. Locked'
    BY <2>1, LockedKept
  <2>8. /\ \A k \in Jobs : job'[k].attempt = job[k].attempt
        /\ \A k \in Jobs : job'[k].state = "running" => job[k].state = "running"
        /\ \A k \in Jobs : job'[k].state = "succeeded" => job[k].state = "succeeded" \/ evidence[k] # 0
    BY <2>2
  <2>9. \A r \in Runners : grant[r] # NoGrant => grant[r].job \in Jobs
    BY <1>1 DEF TypeOK, Grant
  <2>10. GrantsBegan'
    BY <1>1, <2>8, <2>9 DEF GrantsBegan
  <2>11. GrantBacked'
    BY <1>1, <2>8, <2>9 DEF GrantBacked, RunningAttempt
  <2>12. SuccessHasEvidence'
    BY <1>1, <2>8 DEF SuccessHasEvidence
  <2>. QED BY <2>3, <2>6, <2>7, <2>10, <2>11, <2>12 DEF LeaseInv
<1>3. CASE MayFail("io") /\ UNCHANGED job /\ Fails(t)
  BY <1>3, ErrorKeeps
<1>. QED BY <1>2, <1>3 DEF Replace

LEMMA TakenAwayIs ==
  ASSUME LeaseInv, NEW t \in Threads, NEW j \in Jobs, th[t].now \in Time, NEW new, new = TakenAway(t, j)
  PROVE  new \in Job /\ new.attempt = job[j].attempt /\ new.state \in {"queued", "failed"}
<1>1. job[j] \in Job
  BY StateIs
<1>2. PICK at : at = Later(th[t].now, job[j].updated)
  OBVIOUS
<1>3. at \in Time /\ at + RetryDelay \in 0 .. MaxClock + RetryDelay
  BY <1>1, <1>2, LimitsAssumption DEF Later, Job, Time
<1>4. CASE job[j].attempt < MaxAttempts
  <2>1. new = [job[j] EXCEPT !.state = "queued", !.available = at + RetryDelay, !.updated = at]
    BY <1>2, <1>4 DEF TakenAway
  <2>. QED BY <1>1, <1>3, <2>1 DEF Job
<1>5. CASE ~(job[j].attempt < MaxAttempts)
  <2>1. new = [job[j] EXCEPT !.state = "failed", !.updated = at]
    BY <1>2, <1>5 DEF TakenAway
  <2>. QED BY <1>1, <1>3, <2>1 DEF Job
<1>. QED BY <1>4, <1>5

LEMMA LostKeeps ==
  ASSUME LeaseInv, NEW t \in Threads, Lost(t)
  PROVE  LeaseInv'
<1>1. /\ TypeOK /\ th[t] \in Thread /\ th[t].pc = "lost" /\ th[t].todo \in SUBSET Jobs /\ th[t].now \in Time
      /\ QueueFree /\ UNCHANGED <<clock, entries, replica, evidence, grant>>
  BY StateIs DEF Lost, At, Thread, Works
<1>2. PICK j \in th[t].todo :
        \/ StillLost(t, j) /\ Replace(t, j, TakenAway(t, j), [To(t, "drop") EXCEPT !.job = j])
        \/ ~StillLost(t, j) /\ Goes(t, Reconciling(t, th[t].todo \ {j})) /\ UNCHANGED <<job, faults>>
  BY DEF Lost
<1>3. j \in Jobs
  BY <1>1
<1>4. CASE Replace(t, j, TakenAway(t, j), [To(t, "drop") EXCEPT !.job = j])
  <2>1. PICK new : new = TakenAway(t, j)
    OBVIOUS
  <2>2. PICK next : next = [[th[t] EXCEPT !.pc = "drop"] EXCEPT !.job = j]
    OBVIOUS
  <2>3. next \in Thread /\ next.pc = "drop" /\ next.now = th[t].now /\ next.job = j
    BY <1>1, <1>3, <2>2 DEF Thread, Pcs, QueuePcs
  <2>4. new \in Job /\ new.attempt = job[j].attempt /\ new.state \in {"queued", "failed"}
    BY <1>1, <1>3, <2>1, TakenAwayIs
  <2>5. Replace(t, j, new, next)
    BY <1>4, <2>1, <2>2 DEF Replace, Goes, To
  <2>6. Alone(t)
    BY <1>1, FreeIsAlone
  <2>. QED BY <1>1, <1>3, <2>3, <2>4, <2>5, <2>6, ReplaceKeeps DEF BootPcs, Reporting
<1>5. CASE Goes(t, Reconciling(t, th[t].todo \ {j})) /\ UNCHANGED <<job, faults>>
  <2>1. PICK rest \in SUBSET Jobs : rest = th[t].todo \ {j}
    BY <1>1
  <2>2. PICK next : next = Reconciling(t, rest)
    OBVIOUS
  <2>3. next \in Thread /\ Plain(t, next)
    BY <1>1, <2>2, ReconcilingIs
  <2>4. Goes(t, next)
    BY <1>5, <2>1, <2>2 DEF Goes
  <2>. QED BY <1>1, <1>5, <2>3, <2>4, QuietKeeps
<1>. QED BY <1>2, <1>4, <1>5

LEMMA DropKeeps ==
  ASSUME LeaseInv, NEW t \in Threads, Drop(t)
  PROVE  LeaseInv'
<1>1. /\ TypeOK /\ th[t] \in Thread /\ th[t].pc = "drop" /\ th[t].todo \in SUBSET Jobs /\ th[t].job \in Jobs
      /\ UNCHANGED <<clock, job, evidence, grant>>
  BY StateIs DEF Drop, At, Thread, Works
<1>2. PICK j \in Jobs : j = th[t].job
  BY <1>1
<1>3. PICK rest \in SUBSET Jobs : rest = th[t].todo \ {j}
  BY <1>1
<1>4. PICK next : next = Reconciling(t, rest)
  OBVIOUS
<1>5. next \in Thread /\ Plain(t, next)
  BY <1>1, <1>4, ReconcilingIs
<1>6. PICK new : new = [entries EXCEPT ![j] = NoLease]
  OBVIOUS
<1>7. new \in Leases
  BY <1>1, <1>6 DEF Leases, TypeOK
<1>8. NewFrom(new)
  BY <1>1, <1>6, LeaseIs DEF NewFrom, SameLease, TypeOK, Leases
<1>9. MutateEntries(t, new, next)
  BY <1>2, <1>3, <1>4, <1>6 DEF Drop, MutateEntries, Goes
<1>10. th'[t] = next => Works(t)'
  BY <1>1, <1>5, PlainWorks
<1>. QED BY <1>1, <1>5, <1>7, <1>8, <1>9, <1>10, MutateKeeps DEF Plain

(* The new lease is of a job that nobody runs.                             *)
LEMMA ClaimGrants ==
  ASSUME LeaseInv, NEW j \in Jobs, job[j].state # "running", UNCHANGED <<job, grant>>,
         \A k \in Jobs : k # j => entries'[k] = entries[k] /\ replica'[k] \in {entries[k], replica[k]}
  PROVE  GrantsBegan' /\ GrantBacked'
<1>1. GrantsBegan'
  BY DEF LeaseInv, GrantsBegan
<1>2. ASSUME NEW r \in Runners, grant[r] # NoGrant, RunningAttempt(grant[r].job, grant[r].attempt)
      PROVE  /\ entries'[grant[r].job].attempt = grant[r].attempt => entries'[grant[r].job].token = grant[r].token
             /\ replica'[grant[r].job].attempt = grant[r].attempt => replica'[grant[r].job].token = grant[r].token
  <2>1. PICK g \in Grant : g = grant[r]
    BY <1>2, StateIs
  <2>2. /\ entries[g.job].attempt = g.attempt => entries[g.job].token = g.token
        /\ replica[g.job].attempt = g.attempt => replica[g.job].token = g.token
    BY <1>2, <2>1 DEF LeaseInv, GrantBacked
  <2>3. g.job \in Jobs /\ g.job # j
    BY <1>2, <2>1 DEF Grant, RunningAttempt
  <2>. QED BY <2>1, <2>2, <2>3
<1>3. GrantBacked'
  BY <1>2 DEF GrantBacked, RunningAttempt
<1>. QED BY <1>1, <1>3

LEMMA ClaimLeaseKeeps ==
  ASSUME LeaseInv, NEW t \in Runners, ClaimLease(t)
  PROVE  LeaseInv'
<1>1. /\ TypeOK /\ th[t] \in Thread /\ th[t].pc = "claim" /\ th[t].now \in Time /\ t \in Threads /\ t # Boot
      /\ QueueFree /\ UNCHANGED <<clock, job, evidence, grant>> /\ SuccessHasEvidence
  BY StateIs DEF ClaimLease, At, Thread, Works
<1>2. PICK j \in Jobs, token \in FreshTokens :
        /\ Claimable(j, th[t].now)
        /\ MutateEntries(t, ReplaceJobLease(j, NewLease(t, j, token)),
                         [To(t, "run") EXCEPT !.job = j, !.token = token])
  BY DEF ClaimLease
<1>3. token \in Tokens /\ job[j] \in Job /\ job[j].state = "queued" /\ job[j].attempt < MaxAttempts
  BY <1>2, StateIs DEF FreshTokens, Claimable
<1>4. PICK lease : lease = NewLease(t, j, token)
  OBVIOUS
<1>5. lease \in Lease /\ lease.attempt = job[j].attempt + 1 /\ lease.token = token
  BY <1>1, <1>3, <1>4, LimitsAssumption DEF NewLease, Lease, Job, Time
<1>6. PICK new : new = [entries EXCEPT ![j] = lease]
  OBVIOUS
<1>7. new \in Leases /\ new[j] = lease /\ \A k \in Jobs : k # j => new[k] = entries[k]
  BY <1>1, <1>5, <1>6 DEF TypeOK, Leases
<1>8. PICK next : next = [[th[t] EXCEPT !.pc = "run"] EXCEPT !.job = j, !.token = token]
  OBVIOUS
<1>9. next \in Thread /\ next.pc = "run" /\ next.now = th[t].now /\ next.job = j /\ next.token = token
  BY <1>1, <1>3, <1>8 DEF Thread, Pcs, QueuePcs
<1>10. MutateEntries(t, new, next)
  BY <1>2, <1>4, <1>6, <1>8 DEF MutateEntries, ReplaceJobLease, Goes, To
<1>11. Alone(t)
  BY <1>1, FreeIsAlone
<1>12. CASE entries' = new /\ replica' = new /\ Goes(t, next) /\ UNCHANGED faults
  <2>1. th' \in [Threads -> Thread] /\ th'[t] = next /\ \A u \in Threads : u # t => th'[u] = th[u]
    BY <1>1, <1>9, <1>12, GoesIs
  <2>2. TypeOK'
    BY <1>1, <1>7, <1>12, <2>1 DEF TypeOK
  <2>3. Others(t)
    BY <1>1, <2>1 DEF Others
  <2>4. Works(t)'
    BY <1>1, <1>3, <1>5, <1>7, <1>9, <1>12, <2>1 DEF Works, Backed, Reporting
  <2>5. \A u \in Threads : Works(u)'
    BY <1>1, <1>11, <2>3, <2>4, OthersWork
  <2>6. Locked'
    BY <1>1, <1>11, <2>1, LockedKept
  <2>7. GrantsBegan' /\ GrantBacked'
    BY <1>1, <1>3, <1>7, <1>12, ClaimGrants
  <2>8. SuccessHasEvidence'
    BY <1>1 DEF SuccessHasEvidence
  <2>. QED BY <2>2, <2>5, <2>6, <2>7, <2>8 DEF LeaseInv
<1>13. CASE /\ MayFail("io") /\ Fails(t) /\ replica' \in {replica, new}
            /\ entries' = IF t = Boot THEN replica' ELSE entries
  <2>1. PICK n \in Thread :
          Goes(t, n) /\ n.pc \in {"idle", "scan"} /\ (n.pc = "scan" => n.now \in Time)
    BY <1>1, <1>13, FailsIs
  <2>2. th' \in [Threads -> Thread] /\ th'[t] = n /\ \A u \in Threads : u # t => th'[u] = th[u]
    BY <1>1, <2>1, GoesIs
  <2>3. entries' = entries /\ faults' \in 0 .. MaxFaults
    BY <1>1, <1>13, FaultCounted
  <2>4. TypeOK'
    BY <1>1, <1>7, <1>13, <2>2, <2>3 DEF TypeOK
  <2>5. Others(t)
    BY <1>1, <2>2 DEF Others
  <2>6. Works(t)'
    BY <1>1, <2>1, <2>2 DEF Works, Reporting
  <2>7. \A u \in Threads : Works(u)'
    BY <1>1, <1>11, <2>5, <2>6, OthersWork
  <2>8. Locked'
    BY <1>1, <1>11, <2>2, LockedKept
  <2>9. \A k \in Jobs : k # j => entries'[k] = entries[k] /\ replica'[k] \in {entries[k], replica[k]}
    BY <1>7, <1>13, <2>3
  <2>10. GrantsBegan' /\ GrantBacked'
    BY <1>1, <1>3, <2>9, ClaimGrants
  <2>11. SuccessHasEvidence'
    BY <1>1 DEF SuccessHasEvidence
  <2>. QED BY <2>4, <2>7, <2>8, <2>10, <2>11 DEF LeaseInv
<1>. QED BY <1>10, <1>12, <1>13 DEF MutateEntries

LEMMA ClaimRunKeeps ==
  ASSUME LeaseInv, NEW t \in Runners, ClaimRun(t)
  PROVE  LeaseInv'
<1>1. /\ TypeOK /\ th[t] \in Thread /\ th[t].pc = "run" /\ th[t].now \in Time /\ t \in Threads
      /\ UNCHANGED <<clock, entries, replica, evidence>> /\ SuccessHasEvidence /\ GrantsBegan /\ GrantBacked
      /\ Works(t)
  BY StateIs DEF ClaimRun, At, Thread, Works
<1>2. PICK j \in Jobs : j = th[t].job
  BY <1>1 DEF Works
<1>3. PICK token : token = th[t].token
  OBVIOUS
<1>4. PICK a : a = job[j].attempt + 1
  OBVIOUS
<1>5. /\ token \in Tokens /\ job[j] \in Job /\ job[j].state = "queued" /\ job[j].attempt < MaxAttempts
      /\ entries[j].attempt = a => entries[j].token = token
      /\ replica[j].attempt = a => replica[j].token = token
  BY <1>1, <1>2, <1>3, <1>4, StateIs DEF Works, Backed
<1>6. a \in 1 .. MaxAttempts /\ job[j].attempt \in Nat /\ job[j].attempt < a
  BY <1>4, <1>5, LimitsAssumption DEF Job
<1>7. Alone(t)
  BY <1>1, FreeIsAlone DEF QueuePcs
<1>8. CASE /\ job' = [job EXCEPT ![j] = Started(t, j)]
           /\ grant' = [grant EXCEPT ![t] = [job |-> j, attempt |-> a, token |-> token]]
           /\ Goes(t, Idle) /\ UNCHANGED faults
  <2>1. PICK new : new = Started(t, j)
    OBVIOUS
  <2>2. new = [job[j] EXCEPT !.state = "running", !.attempt = a, !.updated = th[t].now]
    BY <1>4, <2>1 DEF Started
  <2>3. new \in Job /\ new.state = "running" /\ new.attempt = a
    <3>1. a \in 0 .. MaxAttempts /\ th[t].now \in Time /\ job[j] \in Job
      BY <1>1, <1>5, <1>6, LimitsAssumption
    <3>. QED BY <2>2, <3>1 DEF Job
  <2>4. job' \in [Jobs -> Job] /\ job'[j] = new /\ \A k \in Jobs : k # j => job'[k] = job[k]
    BY <1>1, <1>8, <2>1, <2>3 DEF TypeOK
  <2>5. PICK g : g = [job |-> j, attempt |-> a, token |-> token]
    OBVIOUS
  <2>6. g \in Grant /\ g.job = j /\ g.attempt = a /\ g.token = token
    BY <1>5, <1>6, <2>5 DEF Grant
  <2>7. /\ grant' \in [Runners -> Grant \cup {NoGrant}] /\ grant'[t] = g
        /\ \A r \in Runners : r # t => grant'[r] = grant[r]
    BY <1>1, <1>8, <2>5, <2>6 DEF TypeOK
  <2>8. th' \in [Threads -> Thread] /\ th'[t] = Idle /\ \A u \in Threads : u # t => th'[u] = th[u]
    BY <1>1, <1>8, IdleIs, GoesIs
  <2>9. TypeOK'
    BY <1>1, <1>8, <2>4, <2>7, <2>8 DEF TypeOK
  <2>10. Others(t)
    BY <1>1, <2>7, <2>8 DEF Others
  <2>11. Works(t)'
    BY <2>8, IdleIs DEF Works, Reporting, BootPcs
  <2>12. \A u \in Threads : Works(u)'
    BY <1>1, <1>7, <2>10, <2>11, OthersWork
  <2>13. Locked'
    BY <1>1, <1>7, <2>8, LockedKept
  <2>14. \A r \in Runners : grant[r] # NoGrant =>
           grant[r].job \in Jobs /\ grant[r].attempt \in Nat /\ grant[r].attempt <= job[grant[r].job].attempt
    BY <1>1 DEF TypeOK, Grant, GrantsBegan
  <2>15. \A k \in Jobs : job[k].attempt \in Nat /\ job'[k].attempt \in Nat /\ job[k].attempt <= job'[k].attempt
    BY <1>1, <1>6, <2>3, <2>4, LimitsAssumption DEF TypeOK, Job
  <2>16. GrantsBegan'
    <3>1. \A r \in Runners : r # t /\ grant[r] # NoGrant => grant[r].attempt <= job'[grant[r].job].attempt
      BY <2>14, <2>15
    <3>2. a <= a
      BY <1>6
    <3>. QED BY <2>3, <2>4, <2>6, <2>7, <3>1, <3>2 DEF GrantsBegan
  <2>17. GrantBacked'
    <3> SUFFICES ASSUME NEW r \in Runners, grant'[r] # NoGrant,
                        job'[grant'[r].job].state = "running",
                        job'[grant'[r].job].attempt = grant'[r].attempt
                 PROVE  /\ entries[grant'[r].job].attempt = grant'[r].attempt
                             => entries[grant'[r].job].token = grant'[r].token
                        /\ replica[grant'[r].job].attempt = grant'[r].attempt
                             => replica[grant'[r].job].token = grant'[r].token
      BY <1>1 DEF GrantBacked, RunningAttempt
    <3>1. CASE r = t
      BY <1>5, <2>6, <2>7, <3>1
    <3>2. CASE r # t
      <4>1. grant'[r] = grant[r] /\ grant[r].job # j
        BY <1>6, <2>3, <2>4, <2>7, <2>14, <3>2
      <4>2. job'[grant[r].job] = job[grant[r].job]
        BY <2>4, <2>14, <4>1
      <4>. QED BY <1>1, <4>1, <4>2 DEF GrantBacked, RunningAttempt
    <3>. QED BY <3>1, <3>2
  <2>18. SuccessHasEvidence'
    BY <1>1, <2>3, <2>4 DEF SuccessHasEvidence
  <2>. QED BY <2>9, <2>12, <2>13, <2>16, <2>17, <2>18 DEF LeaseInv
<1>9. CASE MayFail("io") /\ Fails(t) /\ UNCHANGED <<job, grant>>
  BY <1>1, <1>9, ErrorKeeps
<1>. QED BY <1>2, <1>3, <1>4, <1>8, <1>9 DEF ClaimRun

LEMMA NothingReadyKeeps ==
  ASSUME LeaseInv, NEW t \in Runners, NothingReady(t) \/ Refuse(t)
  PROVE  LeaseInv'
<1>1. Goes(t, Idle) /\ UNCHANGED <<clock, job, entries, replica, evidence, grant, faults>> /\ t \in Threads
  BY StateIs DEF NothingReady, Refuse
<1>2. Plain(t, Idle)
  BY IdleIs DEF Plain, QueuePcs, Reporting, BootPcs
<1>. QED BY <1>1, <1>2, IdleIs, QuietKeeps

(* Who reports has a grant; what it presents is the running attempt.       *)
LEMMA PresentsIs ==
  ASSUME LeaseInv, NEW t \in Runners, th[t].pc \in Reporting
  PROVE  /\ grant[t] \in Grant /\ grant[t].job \in Jobs /\ job[grant[t].job] \in Job
         /\ th[t].now \in Time /\ th[t] \in Thread
         /\ Presents(grant[t], th[t].now) =>
              /\ RunningAttempt(grant[t].job, grant[t].attempt) /\ entries[grant[t].job] \in Lease
<1>1. th[t] \in Thread /\ Works(t) /\ grant[t] \in Grant \cup {NoGrant}
  BY StateIs
<1>2. grant[t] \in Grant /\ th[t].now \in Time
  BY <1>1 DEF Works, Reporting
<1>3. grant[t].job \in Jobs
  BY <1>2 DEF Grant
<1>. QED BY <1>1, <1>2, <1>3, StateIs DEF Presents, ValidEntry, HasLiveEntry, LeaseIsLive

LEMMA BeatKeeps ==
  ASSUME LeaseInv, NEW t \in Runners, Beat(t)
  PROVE  LeaseInv'
<1>1. /\ th[t].pc = "beat" /\ Presents(grant[t], th[t].now) /\ QueueFree
      /\ UNCHANGED <<clock, job, evidence, grant>>
  BY DEF Beat, At
<1>2. TypeOK /\ t \in Threads /\ t # Boot
  BY StateIs
<1>3. /\ grant[t] \in Grant /\ grant[t].job \in Jobs /\ th[t].now \in Time /\ th[t] \in Thread
      /\ RunningAttempt(grant[t].job, grant[t].attempt) /\ entries[grant[t].job] \in Lease
  BY <1>1, PresentsIs DEF Reporting
<1>4. PICK j \in Jobs : j = grant[t].job
  BY <1>3
<1>5. PICK lease : lease = [entries[j] EXCEPT !.heartbeat = th[t].now, !.expires = th[t].now + LeaseDuration]
  OBVIOUS
<1>6. lease \in Lease /\ lease.attempt = entries[j].attempt /\ lease.token = entries[j].token
  <2>1. th[t].now + LeaseDuration \in 1 .. MaxClock + LeaseDuration
    BY <1>3, LimitsAssumption DEF Time
  <2>. QED BY <1>3, <1>4, <1>5, <2>1 DEF Lease
<1>7. PICK new : new = [entries EXCEPT ![j] = lease]
  OBVIOUS
<1>8. new \in Leases /\ NewFrom(new)
  BY <1>2, <1>6, <1>7 DEF TypeOK, Leases, NewFrom, SameLease
<1>9. new = [entries EXCEPT ![j].heartbeat = th[t].now, ![j].expires = th[t].now + LeaseDuration]
  BY <1>2, <1>3, <1>4, <1>5, <1>7 DEF TypeOK, Leases, Lease
<1>10. PICK next : next = [th[t] EXCEPT !.pc = "beaten"]
  OBVIOUS
<1>11. next \in Thread /\ next.pc = "beaten" /\ next.now = th[t].now
  BY <1>3, <1>10 DEF Thread, Pcs, QueuePcs
<1>12. MutateEntries(t, new, next)
  BY <1>4, <1>9, <1>10 DEF Beat, MutateEntries, Goes, To
<1>13. ASSUME th'[t] = next PROVE Works(t)'
  <2>1. grant[t] # NoGrant
    BY <1>1, <1>2, StateIs DEF Works, Reporting
  <2>. QED BY <1>1, <1>2, <1>3, <1>11, <1>13, <2>1 DEF Works, RunningAttempt
<1>14. Alone(t)
  BY <1>1, <1>2, FreeIsAlone
<1>. QED BY <1>1, <1>2, <1>8, <1>11, <1>12, <1>13, <1>14, MutateKeeps

LEMMA BeatenKeeps ==
  ASSUME LeaseInv, NEW t \in Runners, Beaten(t)
  PROVE  LeaseInv'
<1>1. th[t].pc = "beaten" /\ t \in Threads /\ t # Boot /\ UNCHANGED <<clock, entries, replica, evidence, grant>>
  BY StateIs DEF Beaten, At
<1>2. PICK j \in Jobs : j = grant[t].job
  BY <1>1, PresentsIs DEF Reporting
<1>3. job[j] \in Job /\ th[t].now \in Time /\ job[j].state = "running"
  BY <1>1, <1>2, PresentsIs, StateIs DEF Reporting, Works, RunningAttempt
<1>4. PICK new : new = [job[j] EXCEPT !.updated = th[t].now]
  OBVIOUS
<1>5. new \in Job /\ new.attempt = job[j].attempt /\ new.state = "running"
  BY <1>3, <1>4 DEF Job
<1>6. Replace(t, j, new, Idle)
  BY <1>2, <1>4 DEF Beaten, Replace
<1>7. Alone(t)
  BY <1>1, FreeIsAlone DEF QueuePcs
<1>. QED BY <1>1, <1>3, <1>5, <1>6, <1>7, IdleIs, ReplaceKeeps DEF Reporting

LEMMA SucceedKeeps ==
  ASSUME LeaseInv, NEW t \in Runners, Succeed(t)
  PROVE  LeaseInv'
<1>1. /\ th[t].pc = "succeed" /\ t \in Threads /\ t # Boot /\ UNCHANGED <<clock, entries, replica, evidence, grant>>
      /\ Works(t) /\ th[t] \in Thread
  BY StateIs DEF Succeed, At
<1>2. PICK j \in Jobs : j = grant[t].job
  BY <1>1, PresentsIs DEF Reporting
<1>3. job[j] \in Job /\ th[t].now \in Time /\ evidence[j] # 0 /\ grant[t] # NoGrant
  BY <1>1, <1>2, StateIs DEF Reporting, Works
<1>4. PICK new : new = [job[j] EXCEPT !.state = "succeeded", !.updated = th[t].now]
  OBVIOUS
<1>5. new \in Job /\ new.attempt = job[j].attempt /\ new.state = "succeeded"
  BY <1>3, <1>4 DEF Job
<1>6. PICK next : next = [th[t] EXCEPT !.pc = "release"]
  OBVIOUS
<1>7. next \in Thread /\ next.pc = "release" /\ next.now = th[t].now
  BY <1>1, <1>6 DEF Thread, Pcs, QueuePcs
<1>8. Replace(t, j, new, next)
  BY <1>2, <1>4, <1>6 DEF Succeed, Replace, Goes, To
<1>9. Alone(t)
  BY <1>1, FreeIsAlone DEF QueuePcs
<1>. QED BY <1>1, <1>3, <1>5, <1>7, <1>8, <1>9, ReplaceKeeps

LEMMA FailKeeps ==
  ASSUME LeaseInv, NEW t \in Runners, Fail(t)
  PROVE  LeaseInv'
<1>1. /\ th[t].pc = "fail" /\ t \in Threads /\ t # Boot /\ UNCHANGED <<clock, entries, replica, evidence, grant>>
      /\ Works(t) /\ th[t] \in Thread /\ QueueFree
  BY StateIs DEF Fail, At
<1>2. PICK j \in Jobs : j = grant[t].job
  BY <1>1, PresentsIs DEF Reporting
<1>3. job[j] \in Job /\ th[t].now \in Time /\ grant[t] # NoGrant
  BY <1>1, <1>2, StateIs DEF Reporting, Works
<1>4. PICK retryable \in BOOLEAN : Replace(t, grant[t].job, FailedAttempt(t, grant[t].job, retryable), To(t, "release"))
  BY DEF Fail
<1>5. PICK new : new = FailedAttempt(t, j, retryable)
  OBVIOUS
<1>6. new \in Job /\ new.attempt = job[j].attempt /\ new.state \in {"queued", "failed"}
  <2>1. th[t].now + RetryDelay \in 0 .. MaxClock + RetryDelay
    BY <1>3, LimitsAssumption DEF Time
  <2>2. CASE new = [job[j] EXCEPT !.state = "queued", !.available = th[t].now + RetryDelay, !.updated = th[t].now]
    BY <1>3, <2>1, <2>2 DEF Job
  <2>3. CASE new = [job[j] EXCEPT !.state = "failed", !.updated = th[t].now]
    BY <1>3, <2>3 DEF Job
  <2>. QED BY <1>5, <2>2, <2>3 DEF FailedAttempt
<1>7. PICK next : next = [th[t] EXCEPT !.pc = "release"]
  OBVIOUS
<1>8. next \in Thread /\ next.pc = "release" /\ next.now = th[t].now
  BY <1>1, <1>7 DEF Thread, Pcs, QueuePcs
<1>9. Replace(t, j, new, next)
  BY <1>2, <1>4, <1>5, <1>7 DEF Replace, Goes, To
<1>10. Alone(t)
  BY <1>1, FreeIsAlone
<1>. QED BY <1>1, <1>3, <1>6, <1>8, <1>9, <1>10, ReplaceKeeps

LEMMA CompleteKeeps ==
  ASSUME LeaseInv, NEW t \in Runners, Complete(t)
  PROVE  LeaseInv'
<1>1. /\ th[t].pc = "complete" /\ t \in Threads /\ t # Boot /\ UNCHANGED <<clock, job, entries, replica, grant>>
      /\ Works(t) /\ th[t] \in Thread /\ QueueFree /\ Presents(grant[t], th[t].now)
      /\ TypeOK /\ SuccessHasEvidence
  BY StateIs DEF Complete, At
<1>2. PICK j \in Jobs : j = grant[t].job
  BY <1>1, PresentsIs DEF Reporting
<1>3. RunningAttempt(grant[t].job, grant[t].attempt) /\ th[t].now \in Time /\ grant[t] # NoGrant
  BY <1>1, PresentsIs DEF Reporting, Works
<1>4. CASE CommitPatchsetCiEvidence(grant[t].job, th[t].now) /\ Goes(t, To(t, "succeed")) /\ UNCHANGED faults
  <2>1. PICK next : next = [th[t] EXCEPT !.pc = "succeed"]
    OBVIOUS
  <2>2. next \in Thread /\ next.pc = "succeed" /\ next.now = th[t].now
    BY <1>1, <2>1 DEF Thread, Pcs, QueuePcs
  <2>3. Goes(t, next)
    BY <1>4, <2>1 DEF Goes, To
  <2>4. th' \in [Threads -> Thread] /\ th'[t] = next /\ \A u \in Threads : u # t => th'[u] = th[u]
    BY <1>1, <2>2, <2>3, GoesIs
  <2>5. evidence' = [evidence EXCEPT ![j] = th[t].now] /\ th[t].now # 0
    BY <1>2, <1>3, <1>4, LimitsAssumption DEF CommitPatchsetCiEvidence, Time
  <2>6. /\ evidence' \in [Jobs -> Time \cup {0}] /\ evidence'[j] # 0
        /\ \A k \in Jobs : evidence[k] # 0 => evidence'[k] # 0
    BY <1>1, <1>3, <2>5 DEF TypeOK
  <2>7. TypeOK'
    BY <1>1, <1>4, <2>4, <2>6 DEF TypeOK
  <2>8. Others(t)
    BY <1>1, <2>4, <2>6 DEF Others
  <2>9. Works(t)'
    BY <1>1, <1>2, <1>3, <2>2, <2>4, <2>6 DEF Works, RunningAttempt
  <2>10. Alone(t)
    BY <1>1, FreeIsAlone
  <2>11. \A u \in Threads : Works(u)'
    BY <1>1, <2>8, <2>9, <2>10, OthersWork
  <2>12. Locked'
    BY <1>1, <2>4, <2>10, LockedKept
  <2>13. GrantsBegan' /\ GrantBacked'
    BY <1>1, GrantsKept, TablesStay
  <2>14. SuccessHasEvidence'
    BY <1>1, <2>6 DEF SuccessHasEvidence
  <2>. QED BY <2>7, <2>11, <2>12, <2>13, <2>14 DEF LeaseInv
<1>5. CASE Fails(t) /\ UNCHANGED <<evidence, faults>>
  BY <1>1, <1>5, ErrorKeeps
<1>. QED BY <1>4, <1>5 DEF Complete

(* A runner that gives its grant up relies on nothing any more.            *)
LEMMA ForgetKeeps ==
  ASSUME LeaseInv, NEW t \in Runners, NEW next \in Thread, next.pc = "idle",
         th' \in [Threads -> Thread], th'[t] = next, \A u \in Threads : u # t => th'[u] = th[u],
         grant' = [grant EXCEPT ![t] = NoGrant],
         TablesOK, TablesFrom, UNCHANGED <<clock, job, evidence, faults>>
  PROVE  LeaseInv'
<1>1. TypeOK /\ SuccessHasEvidence /\ GrantsBegan /\ GrantBacked /\ t \in Threads /\ t # Boot
  BY StateIs
<1>2. /\ grant' \in [Runners -> Grant \cup {NoGrant}] /\ grant'[t] = NoGrant
      /\ \A r \in Runners : r # t => grant'[r] = grant[r]
  BY <1>1 DEF TypeOK
<1>3. TypeOK'
  BY <1>1, <1>2 DEF TypeOK, TablesOK
<1>4. Others(t)
  BY <1>2 DEF Others
<1>5. Works(t)'
  BY <1>1 DEF Works, Reporting
<1>6. \A u \in Threads : Works(u)'
  BY <1>1, <1>4, <1>5, OthersWork
<1>7. Locked'
  BY <1>1, LockedKept DEF QueuePcs
<1>8. GrantsBegan'
  BY <1>1, <1>2 DEF GrantsBegan
<1>9. GrantBacked'
  <2> SUFFICES ASSUME NEW r \in Runners, grant'[r] # NoGrant,
                      job[grant'[r].job].state = "running", job[grant'[r].job].attempt = grant'[r].attempt
               PROVE  /\ entries'[grant'[r].job].attempt = grant'[r].attempt
                           => entries'[grant'[r].job].token = grant'[r].token
                      /\ replica'[grant'[r].job].attempt = grant'[r].attempt
                           => replica'[grant'[r].job].token = grant'[r].token
    BY DEF GrantBacked, RunningAttempt
  <2>1. PICK g \in Grant : g = grant[r] /\ g = grant'[r]
    BY <1>2, StateIs
  <2>2. /\ entries[g.job].attempt = g.attempt => entries[g.job].token = g.token
        /\ replica[g.job].attempt = g.attempt => replica[g.job].token = g.token
    BY <1>1, <2>1 DEF GrantBacked, RunningAttempt
  <2>3. g.job \in Jobs /\ g.attempt # 0
    BY LimitsAssumption DEF Grant
  <2>. QED BY <2>1, <2>2, <2>3 DEF TablesFrom, SameLease
<1>10. SuccessHasEvidence'
  BY <1>1 DEF SuccessHasEvidence
<1>. QED BY <1>3, <1>6, <1>7, <1>8, <1>9, <1>10 DEF LeaseInv

LEMMA ReleaseKeeps ==
  ASSUME LeaseInv, NEW t \in Runners, Release(t)
  PROVE  LeaseInv'
<1>1. /\ th[t].pc = "release" /\ t \in Threads /\ t # Boot /\ UNCHANGED <<clock, job, evidence>> /\ TypeOK
  BY StateIs DEF Release, At
<1>2. PICK g \in Grant : g = grant[t]
  BY <1>1, PresentsIs DEF Reporting
<1>3. PICK new : new = Released(g)
  OBVIOUS
<1>4. new \in Leases /\ NewFrom(new)
  <2>1. new \in {entries, [entries EXCEPT ![g.job] = NoLease]}
    BY <1>3 DEF Released
  <2>. QED BY <1>1, <2>1, LeaseIs DEF TypeOK, Leases, NewFrom, SameLease
<1>5. MutateEntries(t, new, Idle)
  BY <1>2, <1>3 DEF Release, MutateEntries
<1>6. grant' = [grant EXCEPT ![t] = IF faults' = faults THEN NoGrant ELSE @]
  BY DEF Release
<1>7. CASE entries' = new /\ replica' = new /\ Goes(t, Idle) /\ UNCHANGED faults
  <2>1. TablesOK /\ TablesFrom
    BY <1>4, <1>7 DEF TablesOK, TablesFrom, NewFrom
  <2>2. th' \in [Threads -> Thread] /\ th'[t] = Idle /\ \A u \in Threads : u # t => th'[u] = th[u]
    BY <1>1, <1>7, IdleIs, GoesIs
  <2>3. grant' = [grant EXCEPT ![t] = NoGrant]
    BY <1>6, <1>7
  <2>. QED BY <1>1, <1>7, <2>1, <2>2, <2>3, IdleIs, ForgetKeeps
<1>8. CASE MayFail("io") /\ Fails(t)
  <2>1. faults' # faults
    BY <1>1, <1>8, LimitsAssumption DEF MayFail, TypeOK
  <2>2. grant' = grant
    BY <1>1, <1>6, <2>1 DEF TypeOK
  <2>3. Plain(t, Idle) /\ Idle \in Thread
    BY IdleIs DEF Plain, QueuePcs, Reporting, BootPcs
  <2>4. th'[t] = Idle => Works(t)'
    BY <2>2, <2>3, PlainWorks
  <2>. QED BY <1>1, <1>4, <1>5, <2>2, <2>3, <2>4, MutateKeeps DEF Plain
<1>. QED BY <1>5, <1>7, <1>8 DEF MutateEntries

LEMMA GiveUpKeeps ==
  ASSUME LeaseInv, NEW r \in Runners, GiveUp(r)
  PROVE  LeaseInv'
<1>1. /\ th[r].pc = "idle" /\ grant' = [grant EXCEPT ![r] = NoGrant]
      /\ UNCHANGED <<clock, job, entries, replica, evidence, th, faults>>
  BY DEF GiveUp, At
<1>2. PICK next : next = th[r]
  OBVIOUS
<1>3. TypeOK /\ next \in Thread
  BY <1>2, StateIs
<1>4. TablesOK /\ TablesFrom
  BY <1>1, TablesStay
<1>. QED BY <1>1, <1>2, <1>3, <1>4, ForgetKeeps DEF TypeOK

LEMMA TickKeeps ==
  ASSUME LeaseInv, Tick
  PROVE  LeaseInv'
<1>1. /\ UNCHANGED <<job, entries, replica, evidence, th, grant, faults>> /\ clock < MaxClock /\ clock' = clock + 1
  BY DEF Tick
<1>2. TypeOK'
  BY <1>1, LimitsAssumption DEF LeaseInv, TypeOK, Time
<1>. QED BY <1>1, <1>2 DEF LeaseInv, Locked, Works, GrantsBegan, GrantBacked, SuccessHasEvidence,
        RunningAttempt, Backed

LEMMA RestartKeeps ==
  ASSUME LeaseInv, NEW damaged \in SUBSET Jobs, Restart(damaged), \E kind : MayFail(kind)
  PROVE  LeaseInv'
<1>1. /\ TypeOK /\ SuccessHasEvidence /\ clock \in Time
      /\ UNCHANGED <<clock, job, evidence, grant>>
      /\ entries' = [j \in Jobs |-> IF j \in damaged THEN NoLease ELSE replica[j]] /\ replica' = entries'
      /\ th' = [t \in Threads |-> IF t = Boot THEN [Idle EXCEPT !.pc = "scan", !.now = clock] ELSE Idle]
  BY StateIs DEF Restart
<1>2. TablesOK
  BY <1>1 DEF TablesOK, TypeOK, Leases
<1>3. TablesFrom
  BY <1>1, LeaseIs DEF TablesFrom, SameLease
<1>4. PICK start : start = [Idle EXCEPT !.pc = "scan", !.now = clock]
  OBVIOUS
<1>5. start \in Thread /\ start.pc = "scan" /\ start.now = clock
  BY <1>1, <1>4, IdleIs DEF Thread, Pcs
<1>6. /\ th' \in [Threads -> Thread]
      /\ \A t \in Threads : (t = Boot /\ th'[t] = start) \/ (t # Boot /\ th'[t] = Idle)
  BY <1>1, <1>4, <1>5, IdleIs
<1>7. faults' \in 0 .. MaxFaults
  BY FaultCounted
<1>8. TypeOK'
  BY <1>1, <1>2, <1>6, <1>7 DEF TypeOK, TablesOK
<1>9. \A t \in Threads : Works(t)'
  <2> SUFFICES ASSUME NEW t \in Threads PROVE Works(t)'
    OBVIOUS
  <2>1. th'[t].pc \in {"idle", "scan"} /\ (th'[t].pc = "scan" => th'[t].now \in Time)
    BY <1>1, <1>5, <1>6, IdleIs
  <2>. QED BY <2>1 DEF Works, Reporting, BootPcs
<1>10. Locked'
  BY <1>5, <1>6, IdleIs DEF Locked, QueuePcs
<1>11. GrantsBegan' /\ GrantBacked'
  BY <1>1, <1>3, GrantsKept
<1>12. SuccessHasEvidence'
  BY <1>1 DEF SuccessHasEvidence
<1>. QED BY <1>8, <1>9, <1>10, <1>11, <1>12 DEF LeaseInv

LEMMA StutterKeeps ==
  ASSUME LeaseInv, UNCHANGED vars
  PROVE  LeaseInv'
<1>1. UNCHANGED <<clock, job, entries, replica, evidence, th, grant, faults>>
  BY DEF vars
<1>. QED BY <1>1 DEF LeaseInv, TypeOK, Locked, Works, GrantsBegan, GrantBacked, SuccessHasEvidence,
        RunningAttempt, Backed

LEMMA InitLeases == Init => LeaseInv
<1> SUFFICES ASSUME Init PROVE LeaseInv
  OBVIOUS
<1>1. clock \in Time /\ faults \in 0 .. MaxFaults
  BY LimitsAssumption DEF Init, Time
<1>2. PICK first : first = [state |-> "queued", attempt |-> 0, available |-> 1, updated |-> 1]
  OBVIOUS
<1>3. first \in Job /\ first.state = "queued" /\ first.attempt = 0
  BY <1>2, LimitsAssumption DEF Job, Time
<1>4. job \in [Jobs -> Job] /\ \A j \in Jobs : job[j].state = "queued"
  BY <1>2, <1>3 DEF Init
<1>5. th \in [Threads -> Thread] /\ \A t \in Threads : th[t].pc = "idle"
  BY IdleIs DEF Init
<1>6. TypeOK
  BY <1>1, <1>4, <1>5, EmptyIs DEF Init, TypeOK
<1>7. \A t \in Threads : Works(t)
  BY <1>5 DEF Works, Reporting, BootPcs
<1>8. Locked
  BY <1>5 DEF Locked, QueuePcs
<1>9. GrantsBegan /\ GrantBacked
  BY DEF Init, GrantsBegan, GrantBacked
<1>10. SuccessHasEvidence
  BY <1>4 DEF SuccessHasEvidence
<1>. QED BY <1>6, <1>7, <1>8, <1>9, <1>10 DEF LeaseInv

LEMMA NextKeeps ==
  ASSUME LeaseInv, [Next]_vars
  PROVE  LeaseInv'
<1>1. CASE Tick
  BY <1>1, TickKeeps
<1>2. CASE Crash \/ Torn
  <2>1. PICK damaged \in SUBSET Jobs : Restart(damaged) /\ \E kind : MayFail(kind)
    BY <1>2 DEF Crash, Torn
  <2>. QED BY <2>1, RestartKeeps
<1>3. CASE \E r \in Runners : Poll(r) \/ Report(r) \/ GiveUp(r)
  BY <1>3, AskKeeps, GiveUpKeeps
<1>4. ASSUME NEW t \in Threads, Reconcile(t) PROVE LeaseInv'
  BY <1>4, ScanKeeps, LookKeeps, SweepKeeps, LostKeeps, DropKeeps DEF Reconcile
<1>5. ASSUME NEW t \in Runners, Serve(t) PROVE LeaseInv'
  BY <1>5, ClaimLeaseKeeps, ClaimRunKeeps, NothingReadyKeeps, BeatKeeps, BeatenKeeps, CompleteKeeps,
     SucceedKeeps, FailKeeps, ReleaseKeeps DEF Serve
<1>6. CASE UNCHANGED vars
  BY <1>6, StutterKeeps
<1>. QED BY <1>1, <1>2, <1>3, <1>4, <1>5, <1>6 DEF Next, Step

-----------------------------------------------------------------------------
(* Every attempt at a Worker Job runs under the lease that its claim wrote *)
(* and under the queue lock while its record changes; the types hold.      *)
THEOREM LeasesAndJobs == Spec => []LeaseInv
BY InitLeases, NextKeeps, PTL DEF Spec

(* Records, leases and requests have the shape that the Worker Job records *)
(* and RuntimeLeaseEntry give them, and no attempt exceeds max_attempts.   *)
THEOREM LeaseTypes == Spec => []TypeOK
<1>1. LeaseInv => TypeOK
  BY DEF LeaseInv
<1>. QED BY <1>1, LeasesAndJobs, PTL

(* The lease of a running attempt, in memory or in the replica, carries    *)
(* the token of the runner that was given the attempt: a lease left behind *)
(* by a claim that failed half way never stands in for it.                 *)
THEOREM GrantsAreBacked == Spec => []GrantBacked
<1>1. LeaseInv => GrantBacked
  BY DEF LeaseInv
<1>. QED BY <1>1, LeasesAndJobs, PTL

(* A job is marked succeeded only after its CI evidence is committed.      *)
THEOREM SuccessIsEvidenced == Spec => []SuccessHasEvidence
<1>1. LeaseInv => SuccessHasEvidence
  BY DEF LeaseInv
<1>. QED BY <1>1, LeasesAndJobs, PTL

LEMMA ReplaceSpares ==
  ASSUME TypeOK, NEW t \in Threads, NEW j \in Jobs, NEW new, NEW next, Replace(t, j, new, next), ~Finished(j)
  PROVE  \A k \in Jobs : Finished(k) => job'[k] = job[k]
BY DEF TypeOK, Replace

(* No step changes a job that succeeded or failed: neither a late report,  *)
(* nor a reconcile that works from an old snapshot, nor a new claim.       *)
THEOREM FinishedJobsStay == Spec => FinishedStays
<1>1. LeaseInv /\ [Next]_vars => [\A j \in Jobs : Finished(j) => job'[j] = job[j]]_vars
  <2> SUFFICES ASSUME LeaseInv, Next PROVE \A j \in Jobs : Finished(j) => job'[j] = job[j]
    OBVIOUS
  <2>0. TypeOK
    BY StateIs
  <2>1. CASE Tick \/ Crash \/ Torn \/ \E r \in Runners : Poll(r) \/ Report(r) \/ GiveUp(r)
    BY <2>1 DEF Tick, Crash, Torn, Restart, Poll, Report, Asks, GiveUp
  <2>2. ASSUME NEW t \in Threads, Scan(t) \/ Look(t) \/ Sweep(t) \/ Drop(t)
        PROVE  \A j \in Jobs : Finished(j) => job'[j] = job[j]
    BY <2>2 DEF Scan, Look, Sweep, Drop
  <2>3. ASSUME NEW t \in Threads, Lost(t)
        PROVE  \A j \in Jobs : Finished(j) => job'[j] = job[j]
    <3>1. PICK j \in th[t].todo :
            \/ StillLost(t, j) /\ Replace(t, j, TakenAway(t, j), [To(t, "drop") EXCEPT !.job = j])
            \/ UNCHANGED job
      BY <2>3 DEF Lost
    <3>2. j \in Jobs
      BY <3>1, StateIs DEF Thread
    <3>3. StillLost(t, j) => ~Finished(j)
      BY DEF StillLost, RunningAttempt, Finished
    <3>4. PICK new, next : new = TakenAway(t, j) /\ next = [To(t, "drop") EXCEPT !.job = j]
      OBVIOUS
    <3>5. Replace(t, j, TakenAway(t, j), [To(t, "drop") EXCEPT !.job = j]) => Replace(t, j, new, next)
      BY <3>4 DEF Replace, Goes
    <3>. QED BY <2>0, <3>1, <3>2, <3>3, <3>5, ReplaceSpares
  <2>4. ASSUME NEW t \in Runners, ClaimLease(t) \/ NothingReady(t) \/ Beat(t) \/ Complete(t) \/ Release(t) \/ Refuse(t)
        PROVE  \A j \in Jobs : Finished(j) => job'[j] = job[j]
    BY <2>4 DEF ClaimLease, NothingReady, Beat, Complete, Release, Refuse
  <2>5. ASSUME NEW t \in Runners, ClaimRun(t)
        PROVE  \A j \in Jobs : Finished(j) => job'[j] = job[j]
    <3>1. t \in Threads /\ th[t].pc = "run" /\ Works(t)
      BY <2>5, StateIs DEF ClaimRun, At
    <3>2. th[t].job \in Jobs /\ ~Finished(th[t].job)
      BY <3>1 DEF Works, Finished
    <3>3. UNCHANGED job \/ job' = [job EXCEPT ![th[t].job] = Started(t, th[t].job)]
      BY <2>5 DEF ClaimRun
    <3>. QED BY <2>0, <3>2, <3>3 DEF TypeOK
  <2>6. ASSUME NEW t \in Runners, Beaten(t) \/ Succeed(t) \/ Fail(t)
        PROVE  \A j \in Jobs : Finished(j) => job'[j] = job[j]
    <3>1. t \in Threads /\ th[t].pc \in {"beaten", "succeed", "fail"} /\ Works(t)
      BY <2>6, StateIs DEF Beaten, Succeed, Fail, At
    <3>2. PICK k \in Jobs : k = grant[t].job
      BY <3>1, PresentsIs DEF Reporting
    <3>3. ~Finished(k)
      <4>1. th[t].pc = "fail" => Presents(grant[t], th[t].now)
        BY <2>6 DEF Beaten, Succeed, Fail, At
      <4>. QED BY <3>1, <3>2, <4>1 DEF Works, RunningAttempt, Finished, Presents
    <3>4. PICK new, next : Replace(t, k, new, next)
      <4>1. CASE Beaten(t)
        BY <3>2, <4>1 DEF Beaten, Replace, Goes
      <4>2. CASE Succeed(t)
        BY <3>2, <4>2 DEF Succeed, Replace, Goes
      <4>3. CASE Fail(t)
        BY <3>2, <4>3 DEF Fail, Replace, Goes
      <4>. QED BY <2>6, <4>1, <4>2, <4>3
    <3>. QED BY <2>0, <3>1, <3>2, <3>3, <3>4, ReplaceSpares
  <2>. QED BY <2>1, <2>2, <2>3, <2>4, <2>5, <2>6 DEF Next, Step, Reconcile, Serve
<1>. QED BY <1>1, LeasesAndJobs, PTL DEF Spec, FinishedStays
=============================================================================
