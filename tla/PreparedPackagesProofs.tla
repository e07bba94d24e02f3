----------------------- MODULE PreparedPackagesProofs -----------------------
(***************************************************************************)
(* Theorems about PreparedPackages, for every number of packages, jobs,    *)
(* downloads, reviews, failing writes and restarts: the types, and that    *)
(* files stay while somebody works with them, that a requested cleanup is  *)
(* not lost, and what is published.                                        *)
(*                                                                         *)
(* None of the properties is inductive.  What carries them is that a job   *)
(* whose files may be removed is quiet: its record is settled, so nobody   *)
(* can claim or pin it again, and its runner has stopped.                  *)
(***************************************************************************)
EXTENDS PreparedPackages, FiniteSetTheorems, SequenceTheorems, NaturalsInduction,
        WellFoundedInduction, TLAPS

(***************************************************************************)
(* The inductive invariant                                                 *)
(***************************************************************************)
PCs == {"idle", "look", "stage", "commit", "retain", "owner", "release",
        "store", "load", "remove", "removed"}
Cleaning == {"store", "load", "remove", "removed"}
Operation == [kind : {"idle", "finish", "observe", "abandon", "reprepare"},
              job : Jobs \cup {0}, pc : PCs]
Download == [job : Jobs \cup {0},
             pc : {"idle", "fence", "count", "reading", "last", "load", "remove"}]
Unsettled == {"queued", "running"}

\* Nobody works with the files of job j, and nobody will.
Quiet(j) == job[j].state \notin Unsettled /\ runner[j] # "executing"

\* The downloads that read the files of job j.
Reading(j) == {r \in Readers : reader[r].pc = "reading" /\ reader[r].job = j}

\* The jobs that account for the successes counted since the start of the server.
Passed == {j \in Known : job[j].state = "succeeded" \/ (Held(j) /\ exec[j].evidence = "pass")}

Shape ==
  /\ job \in Seq(Record) /\ Len(job) <= MaxJobs
  /\ head \in Packages \cup {Trunk}
  /\ child \in [Jobs -> {"absent", "whole", "partial"}]
  /\ exec \in [Jobs -> Execution \cup {NoExec}]
  /\ selected \in [Packages -> Known \cup {0}]
  /\ passes \in Nat
  /\ readers \in [Jobs -> Nat]
  /\ requested \in [Jobs -> BOOLEAN] /\ lease \in [Jobs -> BOOLEAN]
  /\ runner \in [Jobs -> {"none", "executing", "stopped"}]
  /\ op \in Operation /\ op.job \in Known \cup {0}
  /\ queue \in Readers \cup {Free, OpThread}
  /\ reader \in [Readers -> Download] /\ \A r \in Readers : reader[r].job \in Known \cup {0}
  /\ request = NoRequest \/ request \in [job : Known, review : Reviews]
  /\ reset \subseteq Known /\ ended \subseteq reset
  /\ faults \in 0 .. MaxFaults /\ restarts \in 0 .. MaxRestarts
  /\ DOMAIN published = Jobs

\* What the execution of job j, kept in memory, has to do with its record.
ExecOK(j) == Held(j) =>
  /\ exec[j].pkg = job[j].pkg
  /\ exec[j].abandonment \in {"stopped", "cleaned"} => Quiet(j)
  /\ exec[j].committed => job[j].bound
  /\ job[j].bound => exec[j].released /\ exec[j].actions = published[j]

JobOK(j) ==
  /\ job[j].state \in Unsettled => child[j] = "whole" /\ job[j].error = "none"
  /\ runner[j] = "executing" => /\ child[j] = "whole"
                                /\ job[j].claimed
                                /\ job[j].state # "succeeded"
                                /\ job[j].error # "terminal"
  /\ requested[j] \/ j \in ended => Quiet(j)
  /\ job[j].bound => job[j].state = "succeeded"
  /\ job[j].bound => RequireComplete(published[j], RequireHuman)
  /\ ExecOK(j)

\* An index that no record has yet.
UnknownOK(j) ==
  /\ exec[j] = NoExec /\ runner[j] = "none" /\ ~requested[j] /\ ~lease[j]

\* What the operation under way relies on.
OpOK ==
  /\ op.pc = "idle" => op = Idle
  /\ op.pc # "idle" => op.job \in Known /\ op.kind # "idle"
  /\ op.pc = "owner" => op.kind \in {"finish", "observe"}
  /\ op.pc \in Cleaning => Quiet(op.job)
  /\ op.pc \in {"load", "remove", "removed"} => requested[op.job]
  /\ op.pc = "remove" => readers[op.job] = 0
  /\ op.pc = "retain" => op.kind = "finish"
  /\ op.pc \in Cleaning \cup {"retain"} /\ op.kind # "reprepare" => Held(op.job)
  /\ op.pc \in Cleaning \cup {"retain"} /\ op.kind \in {"finish", "observe"}
       => exec[op.job].committed
  /\ op.pc = "commit" => /\ op.kind = "finish" /\ queue = OpThread
                         /\ Held(op.job)
                         /\ job[op.job].state = "succeeded" /\ ~job[op.job].bound
                         /\ head = Base[exec[op.job].pkg]
                         /\ RequireComplete(exec[op.job].actions, RequireHuman)

\* What a download relies on.
DownloadOK(r) ==
  LET j == reader[r].job
  IN  /\ reader[r].pc # "idle" => j \in Known
      /\ reader[r].pc \in {"fence", "count"} => queue = r /\ job[j].state = "running"
      /\ reader[r].pc = "reading" => child[j] = "whole"
      /\ reader[r].pc \in {"load", "remove"} => requested[j]
      /\ reader[r].pc = "remove" => readers[j] = 0

Landed(p) == p = Trunk \/ \E i \in Known : job[i].bound /\ job[i].pkg = p

\* The line grew by one published package at a time.
LineOK ==
  /\ Landed(head)
  /\ \A i \in Known : job[i].bound => Landed(Base[job[i].pkg]) /\ Base[job[i].pkg] # head

PackageInv ==
  /\ Shape
  /\ \A j \in Known : JobOK(j)
  /\ \A j \in Jobs \ Known : UnknownOK(j)
  /\ OpOK
  /\ \A r \in Readers : DownloadOK(r)
  /\ \A j \in Jobs : readers[j] = Cardinality(Reading(j))
  /\ CleanupIsNotLost
  /\ LineOK /\ TestedOnHead
  /\ passes <= Cardinality(Passed)

(***************************************************************************)
(* Sequences of records, and records                                       *)
(***************************************************************************)
LEMMA SequenceIsFunction ==
  ASSUME NEW S, NEW s \in Seq(S)
  PROVE  Len(s) \in Nat /\ s \in [1 .. Len(s) -> S]
OBVIOUS

LEMMA FunctionIsSequence ==
  ASSUME NEW S, NEW n \in Nat, NEW s \in [1 .. n -> S]
  PROVE  s \in Seq(S) /\ Len(s) = n
OBVIOUS

LEMMA ExecutionsDiffer ==
  ASSUME NEW e \in Execution
  PROVE  e # NoExec
<1>1. DOMAIN e # DOMAIN NoExec
  BY DEF Execution, NoExec
<1>. QED BY <1>1

\* The record of job j is replaced, apart from its package.
Moved(j, s, e, c, b) ==
  /\ job' \in Seq(Record) /\ Len(job') = Len(job) /\ Known' = Known
  /\ job'[j] = [pkg |-> job[j].pkg, state |-> s, error |-> e, claimed |-> c, bound |-> b]
  /\ \A i \in Known \ {j} : job'[i] = job[i]

LEMMA RecordMoves ==
  ASSUME job \in Seq(Record), NEW j \in Known, NEW rec \in Record, rec.pkg = job[j].pkg,
         job' = [job EXCEPT ![j] = rec]
  PROVE  Moved(j, rec.state, rec.error, rec.claimed, rec.bound)
<1>1. Len(job) \in Nat /\ job \in [1 .. Len(job) -> Record]
  BY SequenceIsFunction
<1>2. job' \in [1 .. Len(job) -> Record]
  BY <1>1 DEF Known
<1>3. job' \in Seq(Record) /\ Len(job') = Len(job)
  BY <1>1, <1>2, FunctionIsSequence
<1>4. job'[j] = rec /\ \A i \in Known \ {j} : job'[i] = job[i]
  BY <1>1 DEF Known
<1>5. rec = [pkg |-> rec.pkg, state |-> rec.state, error |-> rec.error,
             claimed |-> rec.claimed, bound |-> rec.bound]
  BY DEF Record
<1>. QED BY <1>3, <1>4, <1>5 DEF Moved, Known

LEMMA ClaimMoves ==
  ASSUME job \in Seq(Record), NEW j \in Known,
         job' = [job EXCEPT ![j].state = "running", ![j].claimed = TRUE]
  PROVE  Moved(j, "running", job[j].error, TRUE, job[j].bound)
<1>1. job \in [Known -> Record]
  BY SequenceIsFunction DEF Known
<1>2. PICK rec : rec = [job[j] EXCEPT !.state = "running", !.claimed = TRUE]
  OBVIOUS
<1>3. /\ rec \in Record /\ rec.pkg = job[j].pkg /\ rec.state = "running"
      /\ rec.error = job[j].error /\ rec.claimed = TRUE /\ rec.bound = job[j].bound
  BY <1>1, <1>2 DEF Record
<1>4. job' = [job EXCEPT ![j] = rec]
  BY <1>1, <1>2
<1>. QED BY <1>3, <1>4, RecordMoves

LEMMA JobsSucceeds ==
  ASSUME job \in Seq(Record), NEW j \in Known, job' = [job EXCEPT ![j].state = "succeeded"]
  PROVE  Moved(j, "succeeded", job[j].error, job[j].claimed, job[j].bound)
<1>1. job \in [Known -> Record]
  BY SequenceIsFunction DEF Known
<1>2. PICK rec : rec = [job[j] EXCEPT !.state = "succeeded"]
  OBVIOUS
<1>3. /\ rec \in Record /\ rec.pkg = job[j].pkg /\ rec.state = "succeeded"
      /\ rec.error = job[j].error /\ rec.claimed = job[j].claimed /\ rec.bound = job[j].bound
  BY <1>1, <1>2 DEF Record
<1>4. job' = [job EXCEPT ![j] = rec]
  BY <1>1, <1>2
<1>. QED BY <1>3, <1>4, RecordMoves

LEMMA JobFails ==
  ASSUME job \in Seq(Record), NEW j \in Known,
         job' = [job EXCEPT ![j].state = "failed", ![j].error = "terminal"]
  PROVE  Moved(j, "failed", "terminal", job[j].claimed, job[j].bound)
<1>1. job \in [Known -> Record]
  BY SequenceIsFunction DEF Known
<1>2. PICK rec : rec = [job[j] EXCEPT !.state = "failed", !.error = "terminal"]
  OBVIOUS
<1>3. /\ rec \in Record /\ rec.pkg = job[j].pkg /\ rec.state = "failed"
      /\ rec.error = "terminal" /\ rec.claimed = job[j].claimed /\ rec.bound = job[j].bound
  BY <1>1, <1>2 DEF Record
<1>4. job' = [job EXCEPT ![j] = rec]
  BY <1>1, <1>2
<1>. QED BY <1>3, <1>4, RecordMoves

LEMMA JobIsBound ==
  ASSUME job \in Seq(Record), NEW j \in Known, job' = [job EXCEPT ![j].bound = TRUE]
  PROVE  Moved(j, job[j].state, job[j].error, job[j].claimed, TRUE)
<1>1. job \in [Known -> Record]
  BY SequenceIsFunction DEF Known
<1>2. PICK rec : rec = [job[j] EXCEPT !.bound = TRUE]
  OBVIOUS
<1>3. /\ rec \in Record /\ rec.pkg = job[j].pkg /\ rec.state = job[j].state
      /\ rec.error = job[j].error /\ rec.claimed = job[j].claimed /\ rec.bound = TRUE
  BY <1>1, <1>2 DEF Record
<1>4. job' = [job EXCEPT ![j] = rec]
  BY <1>1, <1>2
<1>. QED BY <1>3, <1>4, RecordMoves

\* Every record stays or fails; pkg, claimed and bound stay.
SomeFail ==
  /\ job' \in Seq(Record) /\ Len(job') = Len(job) /\ Known' = Known
  /\ \A i \in Known :
       \/ job'[i] = job[i]
       \/ /\ job[i].state \in Unsettled
          /\ job'[i].pkg = job[i].pkg /\ job'[i].claimed = job[i].claimed
          /\ job'[i].bound = job[i].bound /\ job'[i].state = "failed"
          /\ job'[i].error = "expired" \/ (job'[i].error = "terminal" /\ ~job[i].claimed)

LEMMA ReconcileFails ==
  ASSUME job \in Seq(Record), NEW lost, Reconcile(lost)
  PROVE  SomeFail /\ \A i \in Known : job[i].state = "queued" => job'[i] = job[i]
<1>1. Len(job) \in Nat /\ job \in [1 .. Len(job) -> Record] /\ Known = 1 .. Len(job)
  BY SequenceIsFunction DEF Known
<1>2. job' = [j \in Known |-> IF job[j].state = "running" /\ ~lease'[j]
               THEN [job[j] EXCEPT !.state = "failed", !.error = "expired"] ELSE job[j]]
  BY DEF Reconcile
<1>3. ASSUME NEW i \in Known
      PROVE  /\ job'[i] \in Record
             /\ \/ job'[i] = job[i]
                \/ /\ job[i].state = "running"
                   /\ job'[i].pkg = job[i].pkg /\ job'[i].claimed = job[i].claimed
                   /\ job'[i].bound = job[i].bound /\ job'[i].state = "failed"
                   /\ job'[i].error = "expired"
  <2>1. CASE job[i].state = "running" /\ ~lease'[i]
    <3>1. job'[i] = [job[i] EXCEPT !.state = "failed", !.error = "expired"]
      BY <1>2, <2>1
    <3>2. PICK rec \in Record : rec = job[i]
      BY <1>1
    <3>3. PICK new : new = [rec EXCEPT !.state = "failed", !.error = "expired"]
      OBVIOUS
    <3>4. new = job'[i]
      BY <3>1, <3>2, <3>3
    <3>5. /\ new \in Record /\ new.pkg = rec.pkg /\ new.claimed = rec.claimed
          /\ new.bound = rec.bound /\ new.state = "failed" /\ new.error = "expired"
      BY <3>3 DEF Record
    <3>. QED BY <2>1, <3>2, <3>4, <3>5
  <2>2. CASE ~(job[i].state = "running" /\ ~lease'[i])
    BY <1>1, <1>2, <2>2
  <2>. QED BY <2>1, <2>2
<1>4. job' \in [1 .. Len(job) -> Record]
  BY <1>1, <1>2, <1>3
<1>5. job' \in Seq(Record) /\ Len(job') = Len(job)
  BY <1>1, <1>4, FunctionIsSequence
<1>. QED BY <1>3, <1>5 DEF SomeFail, Known, Unsettled

LEMMA RestartFails ==
  ASSUME job \in Seq(Record), Restart
  PROVE  SomeFail /\ \A i \in Known : job'[i].state \in Unsettled => job[i].bound
<1>1. Len(job) \in Nat /\ job \in [1 .. Len(job) -> Record] /\ Known = 1 .. Len(job)
  BY SequenceIsFunction DEF Known
<1>2. job' = [j \in Known |-> Invalidated(j)]
  BY DEF Restart
<1>3. ASSUME NEW i \in Known
      PROVE  /\ job'[i] \in Record
             /\ \/ job'[i] = job[i] /\ (job'[i].state \in Unsettled => job[i].bound)
                \/ /\ job[i].state \in Unsettled
                   /\ job'[i].pkg = job[i].pkg /\ job'[i].claimed = job[i].claimed
                   /\ job'[i].bound = job[i].bound /\ job'[i].state = "failed"
                   /\ job'[i].error = "expired" \/ (job'[i].error = "terminal" /\ ~job[i].claimed)
  <2>1. CASE i \in Active
    <3>1. PICK e \in {"expired", "terminal"} : /\ e = "expired" \/ (e = "terminal" /\ ~job[i].claimed)
                                              /\ job'[i] = [job[i] EXCEPT !.state = "failed", !.error = e]
      <4>1. CASE job[i].claimed
        BY <1>2, <2>1, <4>1 DEF Invalidated
      <4>2. CASE ~job[i].claimed
        BY <1>2, <2>1, <4>2 DEF Invalidated
      <4>. QED BY <4>1, <4>2
    <3>2. job[i].state \in Unsettled
      BY <2>1 DEF Active, Unsettled
    <3>3. /\ job'[i] \in Record /\ job'[i].pkg = job[i].pkg /\ job'[i].claimed = job[i].claimed
          /\ job'[i].bound = job[i].bound /\ job'[i].state = "failed" /\ job'[i].error = e
      <4>2. PICK rec \in Record : rec = job[i]
        BY <1>1
      <4>3. PICK new : new = [rec EXCEPT !.state = "failed", !.error = e]
        OBVIOUS
      <4>4. new = job'[i]
        BY <3>1, <4>2, <4>3
      <4>5. /\ new \in Record /\ new.pkg = rec.pkg /\ new.claimed = rec.claimed
            /\ new.bound = rec.bound /\ new.state = "failed" /\ new.error = e
        BY <4>3 DEF Record
      <4>. QED BY <4>2, <4>4, <4>5
    <3>. QED BY <3>1, <3>2, <3>3
  <2>2. CASE i \notin Active
    BY <1>1, <1>2, <2>2 DEF Invalidated, Active, Unsettled
  <2>. QED BY <2>1, <2>2
<1>4. job' \in [1 .. Len(job) -> Record]
  BY <1>1, <1>2, <1>3
<1>5. job' \in Seq(Record) /\ Len(job') = Len(job)
  BY <1>1, <1>4, FunctionIsSequence
<1>6. \A i \in Known : job'[i].state = "failed" => job'[i].state \notin Unsettled
  BY DEF Unsettled
<1>. QED BY <1>3, <1>5, <1>6 DEF SomeFail, Known

LEMMA ReadingIsFinite ==
  ASSUME NEW j
  PROVE  IsFiniteSet(Reading(j)) /\ Cardinality(Reading(j)) \in Nat
<1>1. Reading(j) \subseteq Readers
  BY DEF Reading
<1>. QED BY <1>1, ReadersAssumption, FS_Subset, FS_CardinalityType

(***************************************************************************)
(* What a step has to do to keep the parts of the invariant                *)
(***************************************************************************)
LEMMA IndexSets ==
  ASSUME NEW n \in Nat, n <= MaxJobs, NEW P \in SUBSET (1 .. n)
  PROVE  P \subseteq Jobs /\ IsFiniteSet(P) /\ Cardinality(P) \in 0 .. MaxJobs
<1>1. IsFiniteSet(1 .. n) /\ Cardinality(1 .. n) = n
  BY FS_Interval
<1>2. IsFiniteSet(P) /\ Cardinality(P) <= n
  BY <1>1, FS_Subset
<1>3. Cardinality(P) \in Nat
  BY <1>2, FS_CardinalityType
<1>. QED BY <1>2, <1>3, BoundsAssumption DEF Jobs

LEMMA KnownJobs ==
  ASSUME Shape
  PROVE  Len(job) \in Nat /\ Known \subseteq Jobs /\ job \in [Known -> Record]
<1>1. Len(job) \in Nat /\ Len(job) <= MaxJobs /\ MaxJobs \in Nat /\ job \in [1 .. Len(job) -> Record]
  BY SequenceIsFunction, BoundsAssumption DEF Shape
<1>. QED BY <1>1 DEF Known, Jobs

LEMMA ReadersAreCounted ==
  ASSUME PackageInv, NEW r \in Readers, reader[r].pc = "reading"
  PROVE  reader[r].job \in Known /\ readers[reader[r].job] # 0
<1>1. PICK j : j = reader[r].job
  OBVIOUS
<1>2. j \in Known /\ j \in Jobs
  BY <1>1, KnownJobs DEF PackageInv, DownloadOK
<1>3. r \in Reading(j)
  BY <1>1 DEF Reading
<1>4. Cardinality(Reading(j)) # 0
  BY <1>3, ReadingIsFinite, FS_EmptySet
<1>. QED BY <1>1, <1>2, <1>4 DEF PackageInv

\* The records go on as any operation but a publication lets them.
JobsGo ==
  /\ Known \subseteq Known'
  /\ \A i \in Known : /\ job'[i].pkg = job[i].pkg
                      /\ job'[i].bound = job[i].bound
                      /\ job[i].state \notin Unsettled => job'[i].state = job[i].state
                      /\ Quiet(i) => runner'[i] # "executing"
  /\ \A i \in Known' \ Known : ~job'[i].bound

\* Downloads, requested cleanups and the queue lock of a download are left alone.
DownloadsGo ==
  /\ UNCHANGED <<reader, readers>>
  /\ \A r \in Readers : queue = r => queue' = r
  /\ \A i \in Known :
       /\ requested[i] => requested'[i]
       /\ queue \in Readers /\ job[i].state = "running" => job'[i].state = "running"
       /\ child[i] = "whole" /\ readers[i] # 0 => child'[i] = "whole"

LEMMA DownloadsStay ==
  ASSUME PackageInv, Known \subseteq Known', DownloadsGo
  PROVE  /\ \A r \in Readers : DownloadOK(r)'
         /\ \A j \in Jobs : readers'[j] = Cardinality(Reading(j)')
<1>1. ASSUME NEW r \in Readers PROVE DownloadOK(r)'
  <2>1. PICK j : j = reader[r].job
    OBVIOUS
  <2>2. reader'[r] = reader[r] /\ readers' = readers
    BY DEF DownloadsGo
  <2>3. DownloadOK(r)
    BY DEF PackageInv
  <2>4. CASE reader[r].pc = "idle"
    BY <2>2, <2>4 DEF DownloadOK
  <2>5. CASE reader[r].pc # "idle"
    <3>1. j \in Known
      BY <2>1, <2>3, <2>5 DEF DownloadOK
    <3>2. reader[r].pc \in {"fence", "count"} => queue' = r /\ job'[j].state = "running"
      BY <2>1, <2>3, <3>1 DEF DownloadOK, DownloadsGo
    <3>3. reader[r].pc = "reading" => child'[j] = "whole"
      BY <2>1, <2>3, <3>1, ReadersAreCounted DEF DownloadOK, DownloadsGo
    <3>4. reader[r].pc \in {"load", "remove"} => requested'[j]
      BY <2>1, <2>3, <3>1 DEF DownloadOK, DownloadsGo
    <3>5. reader[r].pc = "remove" => readers'[j] = 0
      BY <2>1, <2>2, <2>3 DEF DownloadOK
    <3>. QED BY <2>1, <2>2, <3>1, <3>2, <3>3, <3>4, <3>5 DEF DownloadOK
  <2>. QED BY <2>4, <2>5
<1>2. ASSUME NEW j \in Jobs PROVE readers'[j] = Cardinality(Reading(j)')
  <2>1. Reading(j)' = Reading(j) /\ readers'[j] = readers[j]
    BY DEF DownloadsGo, Reading
  <2>. QED BY <2>1 DEF PackageInv
<1>. QED BY <1>1, <1>2

LEMMA LineStays ==
  ASSUME PackageInv, JobsGo, head' = head
  PROVE  LineOK' /\ TestedOnHead'
<1>1. LineOK /\ TestedOnHead
  BY DEF PackageInv
<1>2. ASSUME NEW i \in Known', job'[i].bound
      PROVE  i \in Known /\ job[i].bound /\ job'[i].pkg = job[i].pkg
  BY <1>2 DEF JobsGo
<1>3. ASSUME NEW p, Landed(p) PROVE Landed(p)'
  BY <1>3 DEF Landed, JobsGo
<1>4. Landed(head)'
  <2>1. PICK h : h = head
    OBVIOUS
  <2>2. Landed(h)
    BY <1>1, <2>1 DEF LineOK
  <2>3. Landed(h)'
    BY <1>3, <2>2
  <2>. QED BY <2>1, <2>3 DEF Landed
<1>5. ASSUME NEW i \in Known', job'[i].bound
      PROVE  Landed(Base[job[i].pkg])' /\ Base[job'[i].pkg] # head'
  <2>1. PICK p : p = Base[job[i].pkg]
    OBVIOUS
  <2>2. Landed(p) /\ p # head /\ p = Base[job'[i].pkg]
    BY <1>1, <1>2, <1>5, <2>1 DEF LineOK
  <2>3. Landed(p)'
    BY <1>3, <2>2
  <2>. QED BY <2>2, <2>3 DEF Landed
<1>6. LineOK'
  BY <1>4, <1>5 DEF LineOK
<1>7. TestedOnHead'
  <2>. SUFFICES ASSUME NEW i \in Known', NEW j \in Known', job'[i].bound, job'[j].bound, i # j
                PROVE  Base[job'[i].pkg] # Base[job'[j].pkg]
    BY DEF TestedOnHead
  <2>. QED BY <1>1, <1>2 DEF TestedOnHead
<1>. QED BY <1>6, <1>7

LEMMA PassesStay ==
  ASSUME PackageInv, Shape', passes' = passes, JobsGo,
         \A i \in Known : exec[i] # NoExec /\ exec[i].evidence = "pass" =>
            \/ exec'[i] # NoExec /\ exec'[i].evidence = "pass"
            \/ job'[i].state = "succeeded"
  PROVE  passes' <= Cardinality(Passed')
<1>1. Passed \subseteq Passed'
  BY DEF Passed, JobsGo, Held, Unsettled
<1>2. Shape /\ passes <= Cardinality(Passed)
  BY DEF PackageInv
<1>3. Passed \in SUBSET Known /\ Passed' \in SUBSET Known'
  BY DEF Passed
<1>4. PICK n : n = Len(job')
  OBVIOUS
<1>5. n \in Nat /\ n <= MaxJobs /\ Known' = 1 .. n
  BY <1>4, SequenceIsFunction DEF Shape, Known
<1>6. PICK P, Q : P = Passed /\ Q = Passed'
  OBVIOUS
<1>7. P \subseteq Q /\ Q \in SUBSET (1 .. n)
  BY <1>1, <1>3, <1>5, <1>6
<1>8. IsFiniteSet(Q) /\ Cardinality(Q) \in 0 .. MaxJobs
  BY <1>5, <1>7, IndexSets
<1>9. IsFiniteSet(P) /\ Cardinality(P) <= Cardinality(Q)
  BY <1>7, <1>8, FS_Subset
<1>10. Cardinality(P) \in Nat /\ Cardinality(Q) \in Nat /\ passes \in Nat
  BY <1>2, <1>8, <1>9, FS_CardinalityType DEF Shape
<1>. QED BY <1>2, <1>6, <1>9, <1>10

\* Executions stay in memory; their reviews stay while the state is locked.
ExecsGo ==
  \A i \in Known : Held(i) =>
    /\ exec'[i] # NoExec
    /\ exec'[i].pkg = exec[i].pkg
    /\ exec[i].committed => exec'[i].committed
    /\ StateHeld => exec'[i].actions = exec[i].actions

\* Cleanups stay requested, and nobody begins to read where one is.
CleanupsGo ==
  \A i \in Known : requested[i] => requested'[i] /\ (readers[i] = 0 => readers'[i] = 0)

LEMMA OpStays ==
  ASSUME PackageInv, JobsGo, ExecsGo, CleanupsGo, op' = op, head' = head,
         queue = OpThread => queue' = OpThread
  PROVE  OpOK'
<1>1. PICK o : o = op
  OBVIOUS
<1>2. OpOK /\ o \in Operation
  BY <1>1 DEF PackageInv, Shape
<1>3. CASE o.pc = "idle"
  BY <1>1, <1>2, <1>3 DEF OpOK, Cleaning, Idle
<1>4. CASE o.pc # "idle"
  <2>1. PICK j \in Known : j = o.job
    BY <1>1, <1>2, <1>4 DEF OpOK
  <2>2. /\ job'[j].pkg = job[j].pkg /\ job'[j].bound = job[j].bound
        /\ job[j].state \notin Unsettled => job'[j].state = job[j].state
        /\ Quiet(j) => runner'[j] # "executing"
    BY DEF JobsGo
  <2>3. j \in Known'
    BY DEF JobsGo
  <2>4. o.pc \in Cleaning => Quiet(j)'
    BY <1>1, <1>2, <2>1, <2>2 DEF OpOK, Quiet
  <2>5. /\ o.pc \in {"load", "remove", "removed"} => requested'[j]
        /\ o.pc = "remove" => readers'[j] = 0
    BY <1>1, <1>2, <2>1 DEF OpOK, CleanupsGo
  <2>6. /\ o.pc \in Cleaning \cup {"retain"} /\ o.kind # "reprepare" => exec'[j] # NoExec
        /\ o.pc \in Cleaning \cup {"retain"} /\ o.kind \in {"finish", "observe"} => exec'[j].committed
    BY <1>1, <1>2, <2>1 DEF OpOK, ExecsGo, Held
  <2>7. ASSUME o.pc = "commit"
        PROVE  /\ o.kind = "finish" /\ queue' = OpThread /\ exec'[j] # NoExec
               /\ job'[j].state = "succeeded" /\ ~job'[j].bound
               /\ head' = Base[exec'[j].pkg]
               /\ exec'[j].actions = exec[j].actions
               /\ RequireComplete(exec[j].actions, RequireHuman)
    <3>1. /\ o.kind = "finish" /\ queue = OpThread /\ Held(j)
          /\ job[j].state = "succeeded" /\ ~job[j].bound
          /\ head = Base[exec[j].pkg]
          /\ RequireComplete(exec[j].actions, RequireHuman)
      BY <1>1, <1>2, <2>1, <2>7 DEF OpOK
    <3>2. StateHeld
      BY <1>1, <2>7, <3>1 DEF StateHeld
    <3>. QED BY <2>2, <3>1, <3>2 DEF ExecsGo, Unsettled
  <2>8. o.pc = "commit" => RequireComplete(exec'[j].actions, RequireHuman)
    <3>. SUFFICES ASSUME o.pc = "commit" PROVE RequireComplete(exec'[j].actions, RequireHuman)
      OBVIOUS
    <3>1. exec'[j].actions = exec[j].actions /\ RequireComplete(exec[j].actions, RequireHuman)
      BY <2>7
    <3>. QED BY <3>1
  <2>9. /\ o.pc = "owner" => o.kind \in {"finish", "observe"}
        /\ o.pc = "retain" => o.kind = "finish"
        /\ o.kind # "idle"
    BY <1>1, <1>2, <1>4 DEF OpOK
  <2>. QED BY <1>1, <1>4, <2>1, <2>3, <2>4, <2>5, <2>6, <2>7, <2>8, <2>9 DEF OpOK, Held
<1>. QED BY <1>3, <1>4

\* Nothing of job i changes that its part of the invariant looks at.
JobSame(i) ==
  /\ job'[i] = job[i] /\ exec'[i] = exec[i] /\ child'[i] = child[i] /\ runner'[i] = runner[i]
  /\ requested'[i] = requested[i] /\ published'[i] = published[i]
  /\ i \in ended' => i \in ended

LEMMA JobStays ==
  ASSUME NEW i, JobOK(i), JobSame(i)
  PROVE  JobOK(i)'
<1>1. Quiet(i)' <=> Quiet(i)
  BY DEF JobSame, Quiet
<1>2. ExecOK(i)'
  BY <1>1 DEF JobOK, JobSame, ExecOK, Held
<1>3. job'[i].bound => RequireComplete(published'[i], RequireHuman)
  BY DEF JobOK, JobSame
<1>. QED BY <1>1, <1>2, <1>3 DEF JobOK, JobSame

CleanupLeft ==
  /\ UNCHANGED <<reader, readers, requested>> /\ faults' \in Nat /\ faults' >= faults
  /\ \A i \in Known : child'[i] = child[i]
  /\ op.pc \in {"load", "remove"} => op' = op

LEMMA CleanupStays ==
  ASSUME PackageInv, Known \subseteq Known', Known' \subseteq Jobs, CleanupLeft
  PROVE  CleanupIsNotLost'
<1>. SUFFICES ASSUME NEW i \in Known', requested'[i], readers'[i] = 0, ~Sweeping(i)'
              PROVE  child'[i] = "absent" \/ faults' > 0
  BY DEF CleanupIsNotLost
<1>1. requested[i] /\ readers[i] = 0
  BY DEF CleanupLeft
<1>2. i \in Known
  BY <1>1 DEF PackageInv, UnknownOK
<1>3. ~Sweeping(i)
  BY DEF CleanupLeft, Sweeping
<1>4. child[i] = "absent" \/ faults > 0
  BY <1>1, <1>2, <1>3 DEF PackageInv, CleanupIsNotLost
<1>5. faults \in Nat
  BY BoundsAssumption DEF PackageInv, Shape
<1>. QED BY <1>2, <1>4, <1>5 DEF CleanupLeft

\* The successes that were counted stay on record.
PassesGo ==
  /\ passes' = passes
  /\ \A i \in Known : exec[i] # NoExec /\ exec[i].evidence = "pass" =>
       \/ exec'[i] # NoExec /\ exec'[i].evidence = "pass"
       \/ job'[i].state = "succeeded"

LEMMA QuietStep ==
  ASSUME PackageInv, Shape', JobsGo, DownloadsGo, CleanupLeft, head' = head, OpOK',
         \A i \in Known' : JobOK(i)', \A i \in Jobs \ Known' : UnknownOK(i)',
         passes' <= Cardinality(Passed')
  PROVE  PackageInv'
<1>1. Known \subseteq Known'
  BY DEF JobsGo
<1>2. Known' \subseteq Jobs
  BY SequenceIsFunction, BoundsAssumption DEF Shape, Known, Jobs
<1>3. /\ \A r \in Readers : DownloadOK(r)'
      /\ \A j \in Jobs : readers'[j] = Cardinality(Reading(j)')
  BY <1>1, DownloadsStay
<1>4. CleanupIsNotLost'
  BY <1>1, <1>2, CleanupStays
<1>5. LineOK' /\ TestedOnHead'
  BY LineStays
<1>. QED BY <1>3, <1>4, <1>5 DEF PackageInv

LEMMA OrdinaryStep ==
  ASSUME PackageInv, Shape', JobsGo, DownloadsGo, CleanupLeft, PassesGo, head' = head, OpOK',
         \A i \in Known' : JobOK(i)', \A i \in Jobs \ Known' : UnknownOK(i)'
  PROVE  PackageInv'
<1>1. passes' <= Cardinality(Passed')
  BY PassesStay DEF PassesGo
<1>. QED BY <1>1, QuietStep

(***************************************************************************)
(* Runners                                                                 *)
(***************************************************************************)
LEMMA ClaimKeeps ==
  ASSUME PackageInv, NEW j \in Known, Claim(j)
  PROVE  PackageInv'
<1>1. Shape /\ job \in [Known -> Record] /\ j \in Jobs /\ Known \subseteq Jobs
  BY KnownJobs DEF PackageInv
<1>2. Moved(j, "running", job[j].error, TRUE, job[j].bound)
  BY <1>1, ClaimMoves DEF Claim, Shape
<1>3. /\ queue = Free /\ job[j].state = "queued" /\ child[j] = "whole"
      /\ runner' = [runner EXCEPT ![j] = "executing"] /\ lease' = [lease EXCEPT ![j] = TRUE]
      /\ UNCHANGED <<head, child, published, memory, downloads, op, queue, reader, request, boot, faults>>
  BY DEF Claim, PackageInv, JobOK, Unsettled
<1>4. Shape'
  BY <1>1, <1>2, <1>3 DEF Shape, Moved, memory, downloads, boot
<1>5. Known' = Known /\ job'[j].state = "running" /\ job'[j].error = job[j].error
      /\ job'[j].claimed = TRUE /\ job'[j].pkg = job[j].pkg /\ job'[j].bound = job[j].bound
      /\ \A i \in Known \ {j} : job'[i] = job[i] /\ runner'[i] = runner[i]
  BY <1>1, <1>2, <1>3 DEF Moved, Shape
<1>6. JobsGo
  BY <1>3, <1>5 DEF JobsGo, Quiet, Unsettled
<1>7. DownloadsGo
  BY <1>3, <1>5, ReadersAssumption DEF DownloadsGo, downloads, Free
<1>8. CleanupLeft
  BY <1>1, <1>3, BoundsAssumption DEF CleanupLeft, downloads, Shape
<1>9. PassesGo
  BY <1>3 DEF PassesGo, memory
<1>10. OpOK'
  BY <1>3, <1>6, OpStays DEF ExecsGo, CleanupsGo, Held, memory, downloads
<1>11. ASSUME NEW i \in Known PROVE JobOK(i)'
  <2>1. JobOK(i)
    BY DEF PackageInv
  <2>2. CASE i # j
    BY <1>3, <1>5, <2>1, <2>2, JobStays DEF JobSame, memory, downloads, boot
  <2>3. CASE i = j
    <3>1. ~Quiet(j)
      BY <1>3 DEF Quiet, Unsettled
    <3>2. /\ ~requested[j] /\ j \notin ended /\ ~job[j].bound /\ job[j].error = "none"
          /\ Held(j) => /\ exec[j].pkg = job[j].pkg
                        /\ exec[j].abandonment \notin {"stopped", "cleaned"}
                        /\ ~exec[j].committed
      BY <1>3, <2>1, <2>3, <3>1 DEF JobOK, ExecOK, Unsettled
    <3>3. ExecOK(j)'
      BY <1>3, <1>5, <3>2 DEF ExecOK, Held, memory
    <3>. QED BY <1>3, <1>5, <2>3, <3>2, <3>3 DEF JobOK, memory, downloads, boot
  <2>. QED BY <2>2, <2>3
<1>12. ASSUME NEW i \in Jobs \ Known PROVE UnknownOK(i)'
  BY <1>1, <1>3 DEF PackageInv, UnknownOK, Shape, memory, downloads
<1>. QED BY <1>3, <1>4, <1>5, <1>6, <1>7, <1>8, <1>9, <1>10, <1>11, <1>12, OrdinaryStep

LEMMA FailKeeps ==
  ASSUME PackageInv, NEW j \in Known, Fail(j)
  PROVE  PackageInv'
<1>1. Shape /\ job \in [Known -> Record] /\ j \in Jobs /\ Known \subseteq Jobs
  BY KnownJobs DEF PackageInv
<1>2. Moved(j, "failed", "terminal", job[j].claimed, job[j].bound)
  BY <1>1, JobFails DEF Fail, Shape
<1>3. /\ queue = Free /\ job[j].state = "running"
      /\ runner' = [runner EXCEPT ![j] = "stopped"]
      /\ lease' = [lease EXCEPT ![j] = FALSE] \/ lease' = lease
      /\ faults' = faults \/ (faults < MaxFaults /\ faults' = faults + 1)
      /\ UNCHANGED <<head, child, published, memory, downloads, op, queue, reader, request, boot>>
  BY DEF Fail, Owns, Fault
<1>4. Shape'
  <2>1. lease' \in [Jobs -> BOOLEAN]
    BY <1>1, <1>3 DEF Shape
  <2>2. faults' \in 0 .. MaxFaults
    BY <1>1, <1>3, BoundsAssumption DEF Shape
  <2>. QED BY <1>1, <1>2, <1>3, <2>1, <2>2 DEF Shape, Moved, memory, downloads, boot
<1>5. Known' = Known /\ job'[j].state = "failed" /\ job'[j].error = "terminal"
      /\ job'[j].claimed = job[j].claimed /\ job'[j].pkg = job[j].pkg /\ job'[j].bound = job[j].bound
      /\ runner'[j] = "stopped"
      /\ \A i \in Known \ {j} : job'[i] = job[i] /\ runner'[i] = runner[i]
  BY <1>1, <1>2, <1>3 DEF Moved, Shape
<1>6. JobsGo
  BY <1>3, <1>5 DEF JobsGo, Quiet, Unsettled
<1>7. DownloadsGo
  BY <1>3, <1>5, ReadersAssumption DEF DownloadsGo, downloads, Free
<1>8. CleanupLeft
  BY <1>1, <1>3, BoundsAssumption DEF CleanupLeft, downloads, Shape
<1>9. PassesGo
  BY <1>3 DEF PassesGo, memory
<1>10. OpOK'
  BY <1>3, <1>6, OpStays DEF ExecsGo, CleanupsGo, Held, memory, downloads
<1>11. ASSUME NEW i \in Known PROVE JobOK(i)'
  <2>1. JobOK(i)
    BY DEF PackageInv
  <2>2. CASE i # j
    BY <1>3, <1>5, <2>1, <2>2, JobStays DEF JobSame, memory, downloads, boot
  <2>3. CASE i = j
    <3>1. Quiet(j)'
      BY <1>5 DEF Quiet, Unsettled
    <3>2. /\ ~job[j].bound
          /\ Held(j) => exec[j].pkg = job[j].pkg /\ ~exec[j].committed
      BY <1>3, <2>1, <2>3 DEF JobOK, ExecOK
    <3>3. ExecOK(j)'
      BY <1>3, <1>5, <3>1, <3>2 DEF ExecOK, Held, memory
    <3>. QED BY <1>3, <1>5, <2>3, <3>1, <3>2, <3>3 DEF JobOK, Unsettled
  <2>. QED BY <2>2, <2>3
<1>12. ASSUME NEW i \in Jobs \ Known PROVE UnknownOK(i)'
  BY <1>1, <1>3 DEF PackageInv, UnknownOK, Shape, memory, downloads
<1>. QED BY <1>3, <1>4, <1>5, <1>6, <1>7, <1>8, <1>9, <1>10, <1>11, <1>12, OrdinaryStep

LEMMA RunnerDiesKeeps ==
  ASSUME PackageInv, NEW j \in Known, RunnerDies(j)
  PROVE  PackageInv'
<1>1. Shape /\ job \in [Known -> Record] /\ j \in Jobs /\ Known \subseteq Jobs
  BY KnownJobs DEF PackageInv
<1>2. /\ runner' = [runner EXCEPT ![j] = "stopped"]
      /\ UNCHANGED <<durable, memory, downloads, lease, op, queue, reader, request, boot, faults>>
  BY DEF RunnerDies
<1>3. Known' = Known
  BY <1>2 DEF Known, durable
<1>4. Shape'
  BY <1>1, <1>2, <1>3 DEF Shape, durable, memory, downloads, boot
<1>5. runner'[j] = "stopped" /\ \A i \in Jobs \ {j} : runner'[i] = runner[i]
  BY <1>1, <1>2 DEF Shape
<1>6. JobsGo
  BY <1>1, <1>2, <1>3, <1>5 DEF JobsGo, Quiet, durable
<1>7. DownloadsGo
  BY <1>2 DEF DownloadsGo, downloads, durable
<1>8. CleanupLeft
  BY <1>1, <1>2, BoundsAssumption DEF CleanupLeft, downloads, durable, Shape
<1>9. PassesGo
  BY <1>2 DEF PassesGo, memory
<1>10. OpOK'
  BY <1>2, <1>6, OpStays DEF ExecsGo, CleanupsGo, Held, memory, downloads, durable
<1>11. ASSUME NEW i \in Known PROVE JobOK(i)'
  <2>1. JobOK(i)
    BY DEF PackageInv
  <2>2. CASE i # j
    BY <1>1, <1>2, <1>5, <2>1, <2>2, JobStays DEF JobSame, memory, downloads, boot, durable
  <2>3. CASE i = j
    <3>1. Quiet(j) => Quiet(j)'
      BY <1>2, <1>5 DEF Quiet, durable
    <3>2. ExecOK(j)'
      BY <1>2, <2>1, <2>3, <3>1 DEF JobOK, ExecOK, Held, memory, durable
    <3>. QED BY <1>2, <1>5, <2>1, <2>3, <3>1, <3>2 DEF JobOK, downloads, boot, durable
  <2>. QED BY <2>2, <2>3
<1>12. ASSUME NEW i \in Jobs \ Known PROVE UnknownOK(i)'
  BY <1>1, <1>2, <1>5 DEF PackageInv, UnknownOK, Shape, memory, downloads
<1>13. head' = head
  BY <1>2 DEF durable
<1>. QED BY <1>3, <1>4, <1>6, <1>7, <1>8, <1>9, <1>10, <1>11, <1>12, <1>13, OrdinaryStep

LEMMA ReconcileKeeps ==
  ASSUME PackageInv, NEW lost, Reconcile(lost), queue = Free, queue' = Free,
         UNCHANGED <<head, child, published, memory, downloads, runner, reader, request,
                     boot, faults>>,
         CleanupLeft, op' \in Operation, op'.job \in Known \cup {0}, OpOK'
  PROVE  PackageInv'
<1>1. Shape /\ job \in [Known -> Record] /\ Known \subseteq Jobs
  BY KnownJobs DEF PackageInv
<1>2. SomeFail
  BY <1>1, ReconcileFails DEF Shape
<1>3. Known' = Known /\ job' \in Seq(Record) /\ Len(job') = Len(job)
  BY <1>2 DEF SomeFail
<1>4. lease' = [j \in Jobs |-> lease[j] /\ j \notin lost /\ job[j].state = "running"]
  BY DEF Reconcile
<1>5. lease' \in [Jobs -> BOOLEAN]
  BY <1>4
<1>6. Shape'
  BY <1>1, <1>3, <1>5 DEF Shape, memory, downloads, boot
<1>7. JobsGo
  BY <1>2, <1>3 DEF SomeFail, JobsGo, Quiet
<1>8. DownloadsGo
  BY <1>2, <1>3, ReadersAssumption DEF DownloadsGo, downloads, Free
<1>10. PassesGo
  BY DEF PassesGo, memory
<1>11. ASSUME NEW i \in Known PROVE JobOK(i)'
  <2>1. JobOK(i)
    BY DEF PackageInv
  <2>2. CASE job'[i] = job[i]
    BY <2>1, <2>2, JobStays DEF JobSame, memory, downloads, boot
  <2>3. CASE /\ job[i].state \in Unsettled
             /\ job'[i].pkg = job[i].pkg /\ job'[i].claimed = job[i].claimed
             /\ job'[i].bound = job[i].bound /\ job'[i].state = "failed"
             /\ job'[i].error = "expired" \/ (job'[i].error = "terminal" /\ ~job[i].claimed)
    <3>1. ~Quiet(i)
      BY <2>3 DEF Quiet
    <3>2. /\ ~requested[i] /\ i \notin ended /\ ~job[i].bound
          /\ Held(i) => /\ exec[i].pkg = job[i].pkg
                        /\ exec[i].abandonment \notin {"stopped", "cleaned"}
                        /\ ~exec[i].committed
      BY <2>1, <2>3, <3>1 DEF JobOK, ExecOK, Unsettled
    <3>3. ExecOK(i)'
      BY <2>3, <3>2 DEF ExecOK, Held, memory
    <3>4. runner'[i] = "executing" => /\ child'[i] = "whole" /\ job'[i].claimed
                                      /\ job'[i].state # "succeeded" /\ job'[i].error # "terminal"
      BY <2>1, <2>3 DEF JobOK
    <3>. QED BY <2>3, <3>2, <3>3, <3>4 DEF JobOK, downloads, boot, Unsettled
  <2>. QED BY <1>2, <2>2, <2>3 DEF SomeFail
<1>12. ASSUME NEW i \in Jobs \ Known PROVE UnknownOK(i)'
  BY <1>1, <1>4 DEF PackageInv, UnknownOK, Shape, memory, downloads
<1>. QED BY <1>3, <1>6, <1>7, <1>8, <1>10, <1>11, <1>12, OrdinaryStep

\* The execution of job j is replaced by new.
Renewed(j, new) ==
  /\ exec' \in [Jobs -> Execution \cup {NoExec}] /\ exec'[j] = new /\ new # NoExec
  /\ \A i \in Jobs \ {j} : exec'[i] = exec[i]

LEMMA ExecutionRenewed ==
  ASSUME Shape, NEW j \in Jobs, NEW new \in Execution, exec' = [exec EXCEPT ![j] = new]
  PROVE  Renewed(j, new)
BY ExecutionsDiffer DEF Renewed, Shape

\* The fields of an execution that an operation other than its own leaves alone.
Alike(old, new) ==
  /\ new.pkg = old.pkg /\ new.abandonment = old.abandonment /\ new.committed = old.committed
  /\ new.released = old.released /\ new.actions = old.actions

LEMMA ResultRecorded ==
  ASSUME Shape, NEW j \in Jobs, NEW e \in {"pass", "fail"}, RecordResult(j, e)
  PROVE  /\ Held(j)
         /\ \E new : Renewed(j, new) /\ Alike(exec[j], new) /\ new.evidence = e
         /\ \/ passes' = passes /\ (exec[j].evidence = "pass" => e = "pass")
            \/ passes' = passes + 1 /\ exec[j].evidence = "none" /\ e = "pass"
<1>1. Held(j) /\ exec[j].evidence \in {"none", e} /\ child[j] = "whole"
  BY DEF RecordResult, Selected, Verified
<1>2. exec[j] \in Execution
  BY <1>1 DEF Shape, Held
<1>3. CASE exec[j].evidence = "none" /\ e = "pass"
  <2>1. passes' = passes + 1
        /\ exec' = [exec EXCEPT ![j].evidence = e, ![j].order = passes + 1]
    BY <1>3, Zenon DEF RecordResult
  <2>2. PICK n \in Nat : n = passes + 1
    BY DEF Shape
  <2>3. PICK old \in Execution : old = exec[j]
    BY <1>2
  <2>4. PICK new : new = [old EXCEPT !.evidence = e, !.order = n]
    OBVIOUS
  <2>5. new \in Execution /\ Alike(old, new) /\ new.evidence = e
    BY <2>1, <2>2, <2>4 DEF Execution, Alike
  <2>6. exec' = [exec EXCEPT ![j] = new]
    BY <2>1, <2>2, <2>3, <2>4 DEF Shape
  <2>. QED BY <1>1, <1>3, <2>1, <2>3, <2>5, <2>6, ExecutionRenewed
<1>4. CASE ~(exec[j].evidence = "none" /\ e = "pass")
  <2>1. passes' = passes /\ exec' = [exec EXCEPT ![j].evidence = e]
    BY <1>4 DEF RecordResult
  <2>3. PICK old \in Execution : old = exec[j]
    BY <1>2
  <2>4. PICK new : new = [old EXCEPT !.evidence = e]
    OBVIOUS
  <2>5. new \in Execution /\ Alike(old, new) /\ new.evidence = e
    BY <2>4 DEF Execution, Alike
  <2>6. exec' = [exec EXCEPT ![j] = new]
    BY <2>1, <2>3, <2>4 DEF Shape
  <2>. QED BY <1>1, <1>4, <2>1, <2>3, <2>5, <2>6, ExecutionRenewed
<1>. QED BY <1>3, <1>4

LEMMA CompleteKeeps ==
  ASSUME PackageInv, NEW j \in Known, NEW e \in {"pass", "fail"}, Complete(j, e)
  PROVE  PackageInv'
<1>1. Shape /\ job \in [Known -> Record] /\ j \in Jobs /\ Known \subseteq Jobs
  BY KnownJobs DEF PackageInv
<1>2. /\ queue = Free /\ job[j].state = "running" /\ RecordResult(j, e)
      /\ UNCHANGED <<head, child, published, selected, downloads, op, queue, reader, request, boot>>
  BY DEF Complete, Owns
<1>3. PICK new : Renewed(j, new) /\ Alike(exec[j], new) /\ new.evidence = e
  BY <1>1, <1>2, ResultRecorded
<1>4. /\ Held(j)
      /\ \/ passes' = passes /\ (exec[j].evidence = "pass" => e = "pass")
         \/ passes' = passes + 1 /\ exec[j].evidence = "none" /\ e = "pass"
  BY <1>1, <1>2, ResultRecorded
<1>5. /\ \/ job' = [job EXCEPT ![j].state = "succeeded"] /\ runner' = [runner EXCEPT ![j] = "stopped"]
         \/ UNCHANGED <<job, runner>>
      /\ lease' = [lease EXCEPT ![j] = FALSE] \/ lease' = lease
      /\ faults' = faults \/ (faults < MaxFaults /\ faults' = faults + 1)
  BY DEF Complete, Fault
<1>6. \/ Moved(j, "succeeded", job[j].error, job[j].claimed, job[j].bound) /\ runner'[j] = "stopped"
      \/ UNCHANGED <<job, runner>>
  <2>1. runner' = [runner EXCEPT ![j] = "stopped"] => runner'[j] = "stopped"
    BY <1>1 DEF Shape
  <2>. QED BY <1>1, <1>5, <2>1, JobsSucceeds DEF Shape
<1>7. /\ Known' = Known /\ job' \in Seq(Record) /\ Len(job') = Len(job)
      /\ job'[j].pkg = job[j].pkg /\ job'[j].bound = job[j].bound
      /\ job'[j].claimed = job[j].claimed /\ job'[j].error = job[j].error
      /\ \/ job'[j].state = "succeeded" /\ runner'[j] = "stopped"
         \/ job'[j] = job[j] /\ runner'[j] = runner[j]
  <2>1. CASE UNCHANGED <<job, runner>>
    BY <1>1, <2>1 DEF Known, Shape
  <2>2. CASE Moved(j, "succeeded", job[j].error, job[j].claimed, job[j].bound) /\ runner'[j] = "stopped"
    BY <2>2 DEF Moved
  <2>. QED BY <1>6, <2>1, <2>2
<1>8. /\ runner' \in [Jobs -> {"none", "executing", "stopped"}]
      /\ \A i \in Jobs \ {j} : runner'[i] = runner[i]
      /\ \A i \in Known \ {j} : job'[i] = job[i]
  <2>1. /\ runner' \in [Jobs -> {"none", "executing", "stopped"}]
        /\ \A i \in Jobs \ {j} : runner'[i] = runner[i]
    BY <1>1, <1>5 DEF Shape
  <2>. QED BY <1>6, <2>1 DEF Moved
<1>9. Shape'
  <2>1. lease' \in [Jobs -> BOOLEAN]
    BY <1>1, <1>5 DEF Shape
  <2>2. faults' \in 0 .. MaxFaults
    BY <1>1, <1>5, BoundsAssumption DEF Shape
  <2>3. passes' \in Nat /\ exec' \in [Jobs -> Execution \cup {NoExec}]
    BY <1>1, <1>3, <1>4 DEF Shape, Renewed
  <2>. QED BY <1>1, <1>2, <1>7, <1>8, <2>1, <2>2, <2>3 DEF Shape, downloads, boot
<1>10. exec'[j] = new /\ new # NoExec /\ \A i \in Known \ {j} : exec'[i] = exec[i]
  BY <1>1, <1>3 DEF Renewed
<1>11. JobsGo
  BY <1>1, <1>2, <1>7, <1>8 DEF JobsGo, Quiet, Unsettled
<1>12. DownloadsGo
  BY <1>2, ReadersAssumption DEF DownloadsGo, downloads, Free
<1>13. CleanupLeft
  BY <1>1, <1>2, <1>5, BoundsAssumption DEF CleanupLeft, downloads, Shape
<1>14. ExecsGo
  BY <1>3, <1>10 DEF ExecsGo, Alike, Held
<1>15. OpOK'
  BY <1>2, <1>11, <1>14, OpStays DEF CleanupsGo, downloads
<1>16. ASSUME NEW i \in Known PROVE JobOK(i)'
  <2>1. JobOK(i)
    BY DEF PackageInv
  <2>2. CASE i # j
    BY <1>1, <1>2, <1>8, <1>10, <2>1, <2>2, JobStays DEF JobSame, downloads, boot
  <2>3. CASE i = j
    <3>1. ~Quiet(j)
      BY <1>2 DEF Quiet, Unsettled
    <3>2. /\ ~requested[j] /\ j \notin ended /\ ~job[j].bound /\ exec[j].pkg = job[j].pkg
          /\ exec[j].abandonment \notin {"stopped", "cleaned"} /\ ~exec[j].committed
      BY <1>2, <1>4, <2>1, <2>3, <3>1 DEF JobOK, ExecOK, Unsettled
    <3>3. ExecOK(j)'
      BY <1>3, <1>7, <1>10, <3>2 DEF ExecOK, Held, Alike
    <3>. QED BY <1>2, <1>7, <2>1, <2>3, <3>2, <3>3 DEF JobOK, downloads, boot, Unsettled
  <2>. QED BY <2>2, <2>3
<1>17. ASSUME NEW i \in Jobs \ Known PROVE UnknownOK(i)'
  BY <1>1, <1>2, <1>3, <1>5, <1>8 DEF PackageInv, UnknownOK, Shape, downloads, Renewed
<1>18. passes' <= Cardinality(Passed')
  <2>1. Passed \subseteq Passed'
    BY <1>3, <1>4, <1>7, <1>8, <1>10 DEF Passed, Held
  <2>2. CASE passes' = passes
    <3>1. PassesGo
      BY <1>3, <1>4, <1>10, <2>2 DEF PassesGo
    <3>. QED BY <1>9, <1>11, <3>1, PassesStay DEF PassesGo
  <2>3. CASE passes' = passes + 1 /\ exec[j].evidence = "none" /\ e = "pass"
    <3>1. PICK P, Q, n : P = Passed /\ Q = Passed' /\ n = Len(job)
      OBVIOUS
    <3>2. j \notin P /\ j \in Q
      BY <1>2, <1>3, <1>7, <1>10, <2>3, <3>1 DEF Passed, Held
    <3>3. n \in Nat /\ n <= MaxJobs /\ P \subseteq 1 .. n /\ Q \subseteq 1 .. n
      BY <1>1, <1>7, <3>1, KnownJobs DEF Passed, Known, Shape
    <3>4. IsFiniteSet(P) /\ IsFiniteSet(Q)
      BY <3>3, IndexSets
    <3>5. Cardinality(P \cup {j}) = Cardinality(P) + 1 /\ IsFiniteSet(P \cup {j})
      BY <3>2, <3>4, FS_AddElement
    <3>6. Cardinality(P \cup {j}) <= Cardinality(Q)
      BY <2>1, <3>1, <3>2, <3>4, FS_Subset
    <3>7. Cardinality(P) \in Nat /\ Cardinality(Q) \in Nat /\ passes \in Nat
      BY <1>1, <3>4, FS_CardinalityType DEF Shape
    <3>8. passes <= Cardinality(P)
      BY <3>1 DEF PackageInv
    <3>. QED BY <2>3, <3>1, <3>5, <3>6, <3>7, <3>8
  <2>. QED BY <1>4, <2>2, <2>3
<1>. QED BY <1>2, <1>7, <1>9, <1>11, <1>12, <1>13, <1>15, <1>16, <1>17, <1>18, QuietStep

(***************************************************************************)
(* prepare                                                                 *)
(***************************************************************************)
\* A new job for p, with an execution of its own, and nothing else.
NewJob(n, p) ==
  /\ n \in Jobs \ Known /\ Known' = Known \cup {n} /\ job' \in Seq(Record) /\ Len(job') <= MaxJobs
  /\ job'[n] = [pkg |-> p, state |-> "queued", error |-> "none", claimed |-> FALSE, bound |-> FALSE]
  /\ \A i \in Known : job'[i] = job[i]
  /\ child' = [child EXCEPT ![n] = "whole"]
  /\ \E new \in Execution : /\ new.pkg = p /\ new.abandonment = "none" /\ new.committed = FALSE
                            /\ Renewed(n, new)
  /\ selected' = [selected EXCEPT ![p] = n]

LEMMA EnqueueAdds ==
  ASSUME Shape, NEW p \in Packages, NEW origins \in SUBSET Jobs, Admits(p), Enqueue(p, origins)
  PROVE  \E n : NewJob(n, p)
<1>1. PICK n : n = Len(job) + 1
  OBVIOUS
<1>2. PICK rec : rec = [pkg |-> p, state |-> "queued", error |-> "none", claimed |-> FALSE, bound |-> FALSE]
  OBVIOUS
<1>3. rec \in Record
  BY <1>2 DEF Record
<1>4. PICK new : new = Registered(p, origins)
  OBVIOUS
<1>5. new \in Execution /\ new.pkg = p /\ new.abandonment = "none" /\ new.committed = FALSE
  <2>1. <<>> \in Seq(Reviews)
    OBVIOUS
  <2>. QED BY <1>4, <2>1 DEF Registered, Execution
<1>6. /\ job' = Append(job, rec) /\ child' = [child EXCEPT ![n] = "whole"]
      /\ exec' = [exec EXCEPT ![n] = new] /\ selected' = [selected EXCEPT ![p] = n]
  BY <1>1, <1>2, <1>4, Zenon DEF Enqueue
<1>7. Len(job) \in Nat /\ Len(job) < MaxJobs /\ n \in Jobs \ Known
  BY <1>1, KnownJobs, BoundsAssumption DEF Admits, Known, Jobs
<1>8. /\ job' \in Seq(Record) /\ Len(job') = n /\ job'[n] = rec
      /\ \A i \in 1 .. Len(job) : job'[i] = job[i]
  BY <1>1, <1>3, <1>6 DEF Shape
<1>9. Known' = Known \cup {n} /\ Len(job') <= MaxJobs
  BY <1>1, <1>7, <1>8, BoundsAssumption DEF Known
<1>10. Renewed(n, new)
  BY <1>5, <1>6, <1>7, ExecutionRenewed
<1>11. \A i \in Known : job'[i] = job[i]
  BY <1>8 DEF Known
<1>12. NewJob(n, p)
  BY <1>2, <1>5, <1>6, <1>7, <1>8, <1>9, <1>10, <1>11 DEF NewJob
<1>. QED BY <1>12

LEMMA NewJobKeeps ==
  ASSUME PackageInv, NEW p \in Packages, NEW n, NewJob(n, p), OpOK', CleanupLeft,
         queue = Free, queue' = Free, op' \in Operation, op'.job \in Known \cup {0},
         UNCHANGED <<head, published, passes, lease, runner, request, boot>>, faults' = faults
  PROVE  PackageInv'
<1>1. Shape /\ job \in [Known -> Record] /\ Known \subseteq Jobs
  BY KnownJobs DEF PackageInv
<1>2. /\ n \in Jobs \ Known /\ Known' = Known \cup {n} /\ job' \in Seq(Record) /\ Len(job') <= MaxJobs
      /\ job'[n] = [pkg |-> p, state |-> "queued", error |-> "none", claimed |-> FALSE, bound |-> FALSE]
      /\ \A i \in Known : job'[i] = job[i]
      /\ child' = [child EXCEPT ![n] = "whole"]
      /\ selected' = [selected EXCEPT ![p] = n]
  BY DEF NewJob
<1>3. PICK new \in Execution : /\ new.pkg = p /\ new.abandonment = "none" /\ new.committed = FALSE
                               /\ Renewed(n, new)
  BY DEF NewJob
<1>4. UnknownOK(n)
  BY <1>2 DEF PackageInv
<1>5. UNCHANGED <<reader, readers, requested>>
  BY DEF CleanupLeft
<1>6. Shape'
  <2>1. selected' \in [Packages -> Known' \cup {0}] /\ child' \in [Jobs -> {"absent", "whole", "partial"}]
    BY <1>1, <1>2 DEF Shape
  <2>2. exec' \in [Jobs -> Execution \cup {NoExec}]
    BY <1>3 DEF Renewed
  <2>3. reader' \in [Readers -> Download] /\ \A r \in Readers : reader'[r].job \in Known' \cup {0}
    BY <1>1, <1>2, <1>5 DEF Shape
  <2>4. request' = NoRequest \/ request' \in [job : Known', review : Reviews]
    BY <1>1, <1>2 DEF Shape
  <2>5. /\ head' \in Packages \cup {Trunk} /\ passes' \in Nat /\ readers' \in [Jobs -> Nat]
        /\ requested' \in [Jobs -> BOOLEAN] /\ lease' \in [Jobs -> BOOLEAN]
        /\ runner' \in [Jobs -> {"none", "executing", "stopped"}]
        /\ op' \in Operation /\ op'.job \in Known' \cup {0}
        /\ queue' \in Readers \cup {Free, OpThread}
        /\ reset' \subseteq Known' /\ ended' \subseteq reset'
        /\ faults' \in 0 .. MaxFaults /\ restarts' \in 0 .. MaxRestarts
        /\ DOMAIN published' = Jobs
    BY <1>1, <1>2, <1>5 DEF Shape, boot
  <2>. QED BY <1>2, <2>1, <2>2, <2>3, <2>4, <2>5 DEF Shape
<1>7. JobsGo
  BY <1>2 DEF JobsGo, Quiet
<1>8. /\ \A i \in Known : child'[i] = child[i] /\ exec'[i] = exec[i]
      /\ child'[n] = "whole" /\ exec'[n] = new /\ new # NoExec
  BY <1>1, <1>2, <1>3 DEF Shape, Renewed
<1>9. DownloadsGo
  BY <1>2, <1>5, <1>8, ReadersAssumption DEF DownloadsGo, Free
<1>10. PassesGo
  BY <1>8 DEF PassesGo
<1>11. ASSUME NEW i \in Known' PROVE JobOK(i)'
  <2>1. CASE i \in Known
    <3>1. JobOK(i)
      BY <2>1 DEF PackageInv
    <3>. QED BY <1>2, <1>5, <1>8, <2>1, <3>1, JobStays DEF JobSame, boot
  <2>2. CASE i = n
    <3>1. runner'[n] = "none" /\ requested'[n] = requested[n] /\ ~requested[n] /\ n \notin ended'
      BY <1>1, <1>2, <1>4, <1>5 DEF UnknownOK, Shape, boot
    <3>2. ExecOK(n)'
      BY <1>2, <1>3, <1>8 DEF ExecOK
    <3>. QED BY <1>2, <1>8, <2>2, <3>1, <3>2 DEF JobOK
  <2>. QED BY <1>2, <2>1, <2>2
<1>12. ASSUME NEW i \in Jobs \ Known' PROVE UnknownOK(i)'
  BY <1>2, <1>3, <1>5 DEF PackageInv, UnknownOK, Renewed
<1>. QED BY <1>6, <1>7, <1>9, <1>10, <1>11, <1>12, OrdinaryStep

LEMMA PrepareKeeps ==
  ASSUME PackageInv, NEW p \in Packages, Prepare(p)
  PROVE  PackageInv'
<1>1. Shape /\ OpOK
  BY DEF PackageInv
<1>2. /\ op = Idle /\ queue = Free /\ Admits(p) /\ Enqueue(p, {})
      /\ UNCHANGED <<head, published, passes, downloads, lease, runner, op, queue, reader, request,
                     boot, faults>>
  BY DEF Prepare
<1>3. PICK n : NewJob(n, p)
  BY <1>1, <1>2, EnqueueAdds
<1>4. CleanupLeft
  BY <1>1, <1>2, <1>3, BoundsAssumption, KnownJobs DEF CleanupLeft, NewJob, downloads, Shape
<1>5. OpOK'
  BY <1>2 DEF OpOK, Idle, Cleaning
<1>6. op' \in Operation /\ op'.job \in Known \cup {0}
  BY <1>1, <1>2 DEF Shape
<1>. QED BY <1>2, <1>3, <1>4, <1>5, <1>6, NewJobKeeps

LEMMA ReconcileRequestKeeps ==
  ASSUME PackageInv, NEW lost, ReconcileRequest(lost)
  PROVE  PackageInv'
<1>1. Shape /\ OpOK /\ Known \subseteq Jobs
  BY KnownJobs DEF PackageInv
<1>2. /\ Reconcile(lost) /\ queue = Free /\ queue' = Free /\ op' = op
      /\ UNCHANGED <<head, child, published, memory, downloads, runner, reader, request, boot, faults>>
  BY DEF ReconcileRequest
<1>3. SomeFail
  BY <1>1, <1>2, ReconcileFails DEF Shape
<1>4. JobsGo
  BY <1>2, <1>3 DEF SomeFail, JobsGo, Quiet
<1>5. OpOK'
  BY <1>2, <1>4, OpStays DEF ExecsGo, CleanupsGo, Held, memory, downloads, Free, OpThread
<1>6. op \in Operation /\ op.job \in Known \cup {0}
  BY <1>1 DEF Shape
<1>7. Known' = Known /\ job' \in Seq(Record) /\ Len(job') = Len(job)
  BY <1>3 DEF SomeFail
<1>8. CleanupLeft
  BY <1>1, <1>2, BoundsAssumption DEF CleanupLeft, downloads, Shape
<1>. QED BY <1>2, <1>5, <1>6, <1>8, ReconcileKeeps

LEMMA BeginKeeps ==
  ASSUME PackageInv, NEW kind \in {"finish", "abandon"}, NEW j \in Known, NEW lost, Begin(kind, j, lost)
  PROVE  PackageInv'
<1>1. Shape /\ OpOK /\ Known \subseteq Jobs
  BY KnownJobs DEF PackageInv
<1>2. /\ op = Idle /\ Reconcile(lost) /\ queue = Free /\ queue' = Free
      /\ op' = [kind |-> kind, job |-> j, pc |-> "look"]
      /\ UNCHANGED <<head, child, published, memory, downloads, runner, reader, request, boot, faults>>
  BY DEF Begin
<1>3. Known' = Known
  BY <1>1, <1>2, ReconcileFails DEF SomeFail, Shape
<1>4. op'.pc = "look" /\ op'.kind = kind /\ op'.job = j
  BY <1>2
<1>5. OpOK'
  BY <1>3, <1>4 DEF OpOK, Cleaning
<1>6. op' \in Operation /\ op'.job \in Known \cup {0}
  BY <1>1, <1>2 DEF Operation, PCs
<1>7. CleanupLeft
  BY <1>1, <1>2, BoundsAssumption DEF CleanupLeft, downloads, Shape, Idle
<1>. QED BY <1>2, <1>5, <1>6, <1>7, ReconcileKeeps

(***************************************************************************)
(* Steps that leave the records, the files and the downloads alone         *)
(***************************************************************************)
LEMMA ControlStep ==
  ASSUME PackageInv, UNCHANGED <<durable, memory, downloads, lease, runner, reader, boot, faults>>,
         op' \in Operation, op'.job \in Known \cup {0}, OpOK',
         op.pc \in {"load", "remove"} => op' = op,
         \A r \in Readers : queue = r => queue' = r,
         queue' \in Readers \cup {Free, OpThread},
         request' = NoRequest \/ request' \in [job : Known, review : Reviews]
  PROVE  PackageInv'
<1>1. Shape /\ Known \subseteq Jobs
  BY KnownJobs DEF PackageInv
<1>2. Known' = Known
  BY DEF Known, durable
<1>3. Shape'
  BY <1>1, <1>2 DEF Shape, durable, memory, downloads, boot
<1>4. JobsGo
  BY <1>2 DEF JobsGo, Quiet, durable
<1>5. DownloadsGo
  BY DEF DownloadsGo, downloads, durable
<1>6. CleanupLeft
  BY <1>1, BoundsAssumption DEF CleanupLeft, downloads, durable, Shape
<1>7. PassesGo
  BY DEF PassesGo, memory
<1>8. ASSUME NEW i \in Known PROVE JobOK(i)'
  <2>1. JobOK(i)
    BY DEF PackageInv
  <2>. QED BY <2>1, JobStays DEF JobSame, memory, downloads, boot, durable
<1>9. ASSUME NEW i \in Jobs \ Known PROVE UnknownOK(i)'
  BY DEF PackageInv, UnknownOK, memory, downloads
<1>10. head' = head
  BY DEF durable
<1>. QED BY <1>2, <1>3, <1>4, <1>5, <1>6, <1>7, <1>8, <1>9, <1>10, OrdinaryStep

LEMMA EvidenceCheckKeeps ==
  ASSUME PackageInv, NEW j \in Known, NEW review \in Reviews, EvidenceCheck(j, review)
  PROVE  PackageInv'
<1>1. Shape
  BY DEF PackageInv
<1>2. /\ request' = [job |-> j, review |-> review]
      /\ UNCHANGED <<durable, memory, downloads, lease, runner, op, queue, reader, boot, faults>>
  BY DEF EvidenceCheck
<1>3. JobsGo
  BY <1>2 DEF JobsGo, Quiet, durable, Known
<1>4. OpOK'
  BY <1>2, <1>3, OpStays DEF ExecsGo, CleanupsGo, Held, memory, downloads, durable
<1>5. request' \in [job : Known, review : Reviews]
  BY <1>2
<1>6. op \in Operation /\ op.job \in Known \cup {0} /\ queue \in Readers \cup {Free, OpThread}
  BY <1>1 DEF Shape
<1>. QED BY <1>2, <1>4, <1>5, <1>6, ControlStep

LEMMA ObserveKeeps ==
  ASSUME PackageInv, NEW j \in Known, Observe(j)
  PROVE  PackageInv'
<1>1. Shape /\ Known \subseteq Jobs
  BY KnownJobs DEF PackageInv
<1>2. /\ op = Idle /\ op' = [kind |-> "observe", job |-> j, pc |-> "owner"]
      /\ UNCHANGED <<durable, memory, downloads, lease, runner, queue, reader, request, boot, faults>>
  BY DEF Observe
<1>3. op'.pc = "owner" /\ op'.kind = "observe" /\ op'.job = j /\ Known' = Known
  BY <1>2 DEF durable, Known
<1>4. OpOK'
  BY <1>3 DEF OpOK, Cleaning
<1>5. op' \in Operation /\ op'.job \in Known \cup {0}
  BY <1>1, <1>2 DEF Operation, PCs
<1>6. op.pc = "idle"
  BY <1>2 DEF Idle
<1>. QED BY <1>1, <1>2, <1>4, <1>5, <1>6, ControlStep DEF Shape

\* The operation goes on, or it ends.
LEMMA OpGoesOn ==
  ASSUME PackageInv, NEW pc \in PCs, op' = [op EXCEPT !.pc = pc]
  PROVE  /\ op' \in Operation /\ op'.job \in Known \cup {0}
         /\ op'.pc = pc /\ op'.kind = op.kind /\ op'.job = op.job
<1>1. PICK o \in Operation : o = op /\ o.job \in Known \cup {0}
  BY DEF PackageInv, Shape
<1>2. PICK new : new = [o EXCEPT !.pc = pc]
  OBVIOUS
<1>3. new \in Operation /\ new.pc = pc /\ new.kind = o.kind /\ new.job = o.job
  BY <1>2 DEF Operation
<1>4. new = op'
  BY <1>1, <1>2
<1>. QED BY <1>1, <1>3, <1>4

LEMMA OpEnds ==
  ASSUME PackageInv, EndOp
  PROVE  /\ op' \in Operation /\ op'.job = 0 /\ OpOK'
         /\ \A r \in Readers : queue = r => queue' = r
         /\ queue' \in Readers \cup {Free, OpThread}
<1>1. op' = Idle /\ op'.pc = "idle" /\ op'.job = 0
  BY DEF EndOp, Idle
<1>2. op' \in Operation
  BY <1>1 DEF Idle, Operation, PCs
<1>3. OpOK'
  BY <1>1 DEF OpOK, Cleaning
<1>4. /\ \A r \in Readers : queue = r => queue' = r
      /\ queue' \in Readers \cup {Free, OpThread}
  BY ReadersAssumption DEF EndOp, PackageInv, Shape, OpThread
<1>. QED BY <1>1, <1>2, <1>3, <1>4

(***************************************************************************)
(* Steps that change executions, and no record, file or download           *)
(***************************************************************************)
LEMMA ExecutionStep ==
  ASSUME PackageInv,
         UNCHANGED <<durable, selected, passes, downloads, lease, runner, reader, boot, faults>>,
         exec' \in [Jobs -> Execution \cup {NoExec}],
         \A i \in Known : ExecOK(i)', \A i \in Jobs \ Known : exec'[i] = NoExec,
         PassesGo,
         op' \in Operation, op'.job \in Known \cup {0}, OpOK',
         op.pc \in {"load", "remove"} => op' = op,
         \A r \in Readers : queue = r => queue' = r,
         queue' \in Readers \cup {Free, OpThread},
         request' = NoRequest \/ request' = request
  PROVE  PackageInv'
<1>1. Shape /\ Known \subseteq Jobs
  BY KnownJobs DEF PackageInv
<1>2. Known' = Known
  BY DEF Known, durable
<1>3. Shape'
  BY <1>1, <1>2 DEF Shape, durable, downloads, boot
<1>4. JobsGo
  BY <1>2 DEF JobsGo, Quiet, durable
<1>5. DownloadsGo
  BY DEF DownloadsGo, downloads, durable
<1>6. CleanupLeft
  BY <1>1, BoundsAssumption DEF CleanupLeft, downloads, durable, Shape
<1>8. ASSUME NEW i \in Known PROVE JobOK(i)'
  <2>1. JobOK(i)
    BY DEF PackageInv
  <2>2. ExecOK(i)'
    OBVIOUS
  <2>. QED BY <2>1, <2>2 DEF JobOK, Quiet, downloads, boot, durable
<1>9. ASSUME NEW i \in Jobs \ Known PROVE UnknownOK(i)'
  BY DEF PackageInv, UnknownOK, downloads
<1>10. head' = head
  BY DEF durable
<1>. QED BY <1>2, <1>3, <1>4, <1>5, <1>6, <1>8, <1>9, <1>10, OrdinaryStep

LEMMA EvidenceAcceptKeeps ==
  ASSUME PackageInv, EvidenceAccept
  PROVE  PackageInv'
<1>1. Shape /\ Known \subseteq Jobs
  BY KnownJobs DEF PackageInv
<1>2. PICK j \in Known, review \in Reviews : j = request.job /\ review = request.review
  BY <1>1 DEF EvidenceAccept, Shape
<1>3. /\ request' = NoRequest /\ ~StateHeld
      /\ UNCHANGED <<durable, selected, passes, downloads, lease, runner, op, queue, reader, boot, faults>>
  BY DEF EvidenceAccept
<1>4. \/ exec' = exec
      \/ /\ Held(j) /\ ~exec[j].released
         /\ exec' = [exec EXCEPT ![j].actions = Append(@, review)]
  BY <1>2, Zenon DEF EvidenceAccept, Selected
<1>5. \/ exec' = exec
      \/ /\ Held(j) /\ ~exec[j].released
         /\ \E new : /\ Renewed(j, new) /\ new.pkg = exec[j].pkg /\ new.evidence = exec[j].evidence
                     /\ new.abandonment = exec[j].abandonment /\ new.committed = exec[j].committed
  <2>1. CASE /\ Held(j) /\ ~exec[j].released
             /\ exec' = [exec EXCEPT ![j].actions = Append(@, review)]
    <3>1. PICK old \in Execution : old = exec[j]
      BY <1>1, <2>1 DEF Shape, Held
    <3>2. PICK actions : actions = Append(old.actions, review)
      OBVIOUS
    <3>3. actions \in Seq(Reviews)
      <4>1. old.actions \in Seq(Reviews)
        BY DEF Execution
      <4>. QED BY <3>2, <4>1
    <3>4. PICK new : new = [old EXCEPT !.actions = actions]
      OBVIOUS
    <3>5. /\ new \in Execution /\ new.pkg = old.pkg /\ new.evidence = old.evidence
          /\ new.abandonment = old.abandonment /\ new.committed = old.committed
      BY <3>3, <3>4 DEF Execution
    <3>6. exec' = [exec EXCEPT ![j] = new]
      BY <1>1, <2>1, <3>1, <3>2, <3>4 DEF Shape
    <3>. QED BY <1>1, <2>1, <3>1, <3>5, <3>6, ExecutionRenewed
  <2>. QED BY <1>4, <2>1
<1>6. CASE exec' = exec
  <2>1. JobsGo
    BY <1>3 DEF JobsGo, Quiet, durable, Known
  <2>2. OpOK'
    BY <1>3, <1>6, <2>1, OpStays DEF ExecsGo, CleanupsGo, Held, downloads, durable
  <2>3. op \in Operation /\ op.job \in Known \cup {0} /\ queue \in Readers \cup {Free, OpThread}
    BY <1>1 DEF Shape
  <2>. QED BY <1>3, <1>6, <2>2, <2>3, ControlStep DEF memory
<1>7. ASSUME /\ Held(j) /\ ~exec[j].released,
             NEW new, Renewed(j, new), new.pkg = exec[j].pkg, new.evidence = exec[j].evidence,
             new.abandonment = exec[j].abandonment, new.committed = exec[j].committed
      PROVE  PackageInv'
  <2>1. exec'[j] = new /\ new # NoExec /\ \A i \in Jobs \ {j} : exec'[i] = exec[i]
    BY <1>7 DEF Renewed
  <2>2. JobsGo
    BY <1>3 DEF JobsGo, Quiet, durable, Known
  <2>3. ExecsGo
    BY <1>1, <1>3, <1>7, <2>1 DEF ExecsGo, Held
  <2>4. OpOK'
    BY <1>3, <2>2, <2>3, OpStays DEF CleanupsGo, downloads, durable
  <2>5. ASSUME NEW i \in Known PROVE ExecOK(i)'
    <3>1. ExecOK(i)
      BY DEF PackageInv, JobOK
    <3>2. CASE i # j
      BY <1>1, <1>3, <2>1, <3>1, <3>2 DEF ExecOK, Held, Quiet, durable
    <3>3. CASE i = j
      BY <1>3, <1>7, <2>1, <3>1, <3>3 DEF ExecOK, Held, Quiet, durable
    <3>. QED BY <3>2, <3>3
  <2>6. PassesGo
    BY <1>1, <1>3, <1>7, <2>1 DEF PassesGo
  <2>7. \A i \in Jobs \ Known : exec'[i] = NoExec
    BY <2>1 DEF PackageInv, UnknownOK
  <2>8. exec' \in [Jobs -> Execution \cup {NoExec}]
    BY <1>7 DEF Renewed
  <2>9. op \in Operation /\ op.job \in Known \cup {0} /\ queue \in Readers \cup {Free, OpThread}
    BY <1>1 DEF Shape
  <2>. QED BY <1>3, <2>4, <2>5, <2>6, <2>7, <2>8, <2>9, ExecutionStep
<1>. QED BY <1>5, <1>6, <1>7

(***************************************************************************)
(* finish                                                                  *)
(***************************************************************************)
LEMMA FinishLookKeeps ==
  ASSUME PackageInv, FinishLook
  PROVE  PackageInv'
<1>1. Shape /\ OpOK
  BY DEF PackageInv
<1>2. /\ op.kind = "finish" /\ op.pc = "look"
      /\ UNCHANGED <<durable, memory, downloads, lease, runner, reader, request, boot, faults>>
  BY DEF FinishLook, At
<1>3. (\E pc \in {"owner", "stage"} : Step(pc)) \/ EndOp
  BY DEF FinishLook
<1>4. ASSUME NEW pc \in {"owner", "stage"}, Step(pc) PROVE PackageInv'
  <2>1. op' = [op EXCEPT !.pc = pc] /\ queue' = queue /\ pc \in PCs
    BY <1>4 DEF Step, PCs
  <2>2. /\ op' \in Operation /\ op'.job \in Known \cup {0}
        /\ op'.pc = pc /\ op'.kind = op.kind /\ op'.job = op.job
    BY <2>1, OpGoesOn
  <2>3. op.job \in Known /\ Known' = Known
    BY <1>1, <1>2 DEF OpOK, Known, durable
  <2>4. OpOK'
    BY <1>2, <1>4, <2>2, <2>3 DEF OpOK, Cleaning
  <2>. QED BY <1>1, <1>2, <2>1, <2>2, <2>4, ControlStep DEF Shape
<1>5. CASE EndOp
  BY <1>1, <1>2, <1>5, OpEnds, ControlStep DEF Shape
<1>. QED BY <1>3, <1>4, <1>5

LEMMA FailedGiveUp ==
  ASSUME PackageInv, exec' = WithoutFailed, UNCHANGED <<durable, passes, runner>>
  PROVE  /\ exec' \in [Jobs -> Execution \cup {NoExec}]
         /\ \A i \in Jobs : exec'[i] = NoExec <=> exec[i] = NoExec
         /\ \A i \in Known : exec[i] # NoExec =>
              /\ exec'[i].pkg = exec[i].pkg /\ exec'[i].evidence = exec[i].evidence
              /\ exec'[i].abandonment = exec[i].abandonment
              /\ exec'[i].committed = exec[i].committed
              /\ exec[i].released => exec'[i].released
              /\ exec'[i].actions = exec[i].actions
              /\ exec'[i] = exec[i] \/ (job[i].state = "failed" /\ exec'[i].released)
         /\ \A i \in Known : ExecOK(i)'
<1>1. Shape /\ Known \subseteq Jobs
  BY KnownJobs DEF PackageInv
<1>2. ASSUME NEW i \in Jobs
      PROVE  /\ exec'[i] \in Execution \cup {NoExec}
             /\ exec'[i] = NoExec <=> exec[i] = NoExec
             /\ exec[i] # NoExec =>
              /\ exec'[i].pkg = exec[i].pkg /\ exec'[i].evidence = exec[i].evidence
              /\ exec'[i].abandonment = exec[i].abandonment
              /\ exec'[i].committed = exec[i].committed
              /\ exec[i].released => exec'[i].released
              /\ exec'[i].actions = exec[i].actions
              /\ exec'[i] = exec[i] \/ (job[i].state = "failed" /\ exec'[i].released)
  <2>1. CASE i \in Known /\ Held(i) /\ job[i].state = "failed"
    <3>1. PICK old \in Execution : old = exec[i]
      BY <1>1, <2>1 DEF Shape, Held
    <3>2. PICK new : new = [old EXCEPT !.released = TRUE]
      OBVIOUS
    <3>3. new = exec'[i]
      BY <2>1, <3>1, <3>2 DEF WithoutFailed
    <3>4. /\ new \in Execution /\ new.pkg = old.pkg /\ new.evidence = old.evidence
          /\ new.abandonment = old.abandonment /\ new.committed = old.committed
          /\ new.released = TRUE /\ new.actions = old.actions
      BY <3>2 DEF Execution
    <3>5. new # NoExec /\ old # NoExec
      BY <3>4, ExecutionsDiffer
    <3>. QED BY <2>1, <3>1, <3>3, <3>4, <3>5
  <2>2. CASE ~(i \in Known /\ Held(i) /\ job[i].state = "failed")
    <3>1. exec'[i] = exec[i]
      BY <2>2 DEF WithoutFailed
    <3>. QED BY <1>1, <3>1 DEF Shape
  <2>. QED BY <2>1, <2>2
<1>3. exec' \in [Jobs -> Execution \cup {NoExec}]
  <2>1. DOMAIN exec' = Jobs /\ exec' = [i \in Jobs |-> exec'[i]]
    BY DEF WithoutFailed
  <2>. QED BY <1>2, <2>1
<1>4. ASSUME NEW i \in Known PROVE ExecOK(i)'
  <2>1. ExecOK(i) /\ i \in Jobs
    BY <1>1 DEF PackageInv, JobOK
  <2>. QED BY <1>2, <2>1 DEF ExecOK, Held, Quiet, durable
<1>. QED BY <1>1, <1>2, <1>3, <1>4

LEMMA FinishStageKeeps ==
  ASSUME PackageInv, FinishStage
  PROVE  PackageInv'
<1>1. Shape /\ OpOK
  BY DEF PackageInv
<1>2. /\ op.kind = "finish" /\ op.pc = "stage" /\ queue = Free /\ exec' = WithoutFailed
      /\ UNCHANGED <<durable, selected, passes, downloads, lease, runner, reader, request, boot, faults>>
  BY DEF FinishStage, At
<1>3. PICK j \in Known : j = op.job
  BY <1>1, <1>2 DEF OpOK
<1>4. /\ exec' \in [Jobs -> Execution \cup {NoExec}]
      /\ \A i \in Jobs : exec'[i] = NoExec <=> exec[i] = NoExec
      /\ \A i \in Known : exec[i] # NoExec =>
           exec'[i].pkg = exec[i].pkg /\ exec'[i].evidence = exec[i].evidence
      /\ \A i \in Known : ExecOK(i)'
  BY <1>2, FailedGiveUp
<1>5. PassesGo
  BY <1>2, <1>4, <1>1, KnownJobs DEF PassesGo
<1>6. \A i \in Jobs \ Known : exec'[i] = NoExec
  BY <1>4 DEF PackageInv, UnknownOK
<1>7. CASE EndOp
  BY <1>1, <1>2, <1>4, <1>5, <1>6, <1>7, OpEnds, ExecutionStep DEF Shape
<1>8. CASE /\ job[j].state = "succeeded" /\ ~job[j].bound /\ Winner(exec', j)
           /\ head = Base[exec[j].pkg]
           /\ RequireComplete(exec[j].actions, RequireHuman)
           /\ op' = [op EXCEPT !.pc = "commit"] /\ queue' = OpThread
  <2>1. /\ op' \in Operation /\ op'.job \in Known \cup {0}
        /\ op'.pc = "commit" /\ op'.kind = "finish" /\ op'.job = j
    BY <1>2, <1>3, <1>8, OpGoesOn DEF PCs
  <2>2. exec'[j] # NoExec /\ exec[j] # NoExec
    BY <1>1, <1>4, <1>8, KnownJobs DEF Winner, Eligible
  <2>3. exec'[j].pkg = exec[j].pkg /\ exec'[j].actions = exec[j].actions
    BY <1>2, <2>2, FailedGiveUp
  <2>4. RequireComplete(exec'[j].actions, RequireHuman)
    BY <1>8, <2>3
  <2>5. OpOK'
    BY <1>2, <1>8, <2>1, <2>2, <2>3, <2>4 DEF OpOK, Cleaning, Held, durable, Known
  <2>6. \A r \in Readers : queue = r => queue' = r
    BY <1>2, ReadersAssumption DEF Free
  <2>7. queue' \in Readers \cup {Free, OpThread}
    BY <1>8
  <2>. QED BY <1>2, <1>4, <1>5, <1>6, <2>1, <2>5, <2>6, <2>7, ExecutionStep
<1>. QED BY <1>3, <1>7, <1>8, Zenon DEF FinishStage

LEMMA FinishRetainKeeps ==
  ASSUME PackageInv, FinishRetain
  PROVE  PackageInv'
<1>1. Shape /\ OpOK
  BY DEF PackageInv
<1>2. /\ op.kind = "finish" /\ op.pc = "retain" /\ Step("owner")
      /\ exec' = [exec EXCEPT ![op.job].result = TRUE]
      /\ UNCHANGED <<durable, selected, passes, downloads, lease, runner, reader, request, boot, faults>>
  BY DEF FinishRetain, At
<1>3. PICK j \in Known : j = op.job /\ Held(j) /\ j \in Jobs
  BY <1>1, <1>2, KnownJobs DEF OpOK
<1>4. PICK old \in Execution : old = exec[j]
  BY <1>1, <1>3 DEF Shape, Held
<1>5. PICK new : new = [old EXCEPT !.result = TRUE]
  OBVIOUS
<1>6. /\ new \in Execution /\ new.evidence = old.evidence /\ Alike(old, new)
  BY <1>5 DEF Execution, Alike
<1>7. exec' = [exec EXCEPT ![j] = new]
  BY <1>1, <1>2, <1>3, <1>4, <1>5 DEF Shape
<1>8. Renewed(j, new)
  BY <1>1, <1>3, <1>6, <1>7, ExecutionRenewed
<1>9. exec'[j] = new /\ new # NoExec /\ \A i \in Jobs \ {j} : exec'[i] = exec[i]
  BY <1>8 DEF Renewed
<1>10. ASSUME NEW i \in Known PROVE ExecOK(i)'
  <2>1. ExecOK(i) /\ i \in Jobs
    BY <1>1, KnownJobs DEF PackageInv, JobOK
  <2>2. CASE i # j
    BY <1>2, <1>9, <2>1, <2>2 DEF ExecOK, Held, Quiet, durable
  <2>3. CASE i = j
    BY <1>2, <1>3, <1>4, <1>6, <1>9, <2>1, <2>3 DEF ExecOK, Held, Quiet, durable, Alike
  <2>. QED BY <2>2, <2>3
<1>11. PassesGo
  BY <1>1, <1>2, <1>4, <1>6, <1>9, KnownJobs DEF PassesGo
<1>12. \A i \in Jobs \ Known : exec'[i] = NoExec
  BY <1>9 DEF PackageInv, UnknownOK
<1>13. exec' \in [Jobs -> Execution \cup {NoExec}]
  BY <1>8 DEF Renewed
<1>14. /\ op' \in Operation /\ op'.job \in Known \cup {0} /\ queue' = queue
       /\ op'.pc = "owner" /\ op'.kind = "finish" /\ op'.job = j
  BY <1>2, <1>3, OpGoesOn DEF Step, PCs
<1>15. OpOK'
  BY <1>2, <1>3, <1>14 DEF OpOK, Cleaning, durable, Known
<1>. QED BY <1>1, <1>2, <1>10, <1>11, <1>12, <1>13, <1>14, <1>15, ExecutionStep DEF Shape

LEMMA CleanupOwnerKeeps ==
  ASSUME PackageInv, CleanupOwner
  PROVE  PackageInv'
<1>1. Shape /\ OpOK
  BY DEF PackageInv
<1>2. /\ op.pc = "owner"
      /\ UNCHANGED <<durable, memory, downloads, lease, runner, reader, request, boot, faults>>
  BY DEF CleanupOwner
<1>3. PICK j \in Known : j = op.job /\ op.kind \in {"finish", "observe"}
  BY <1>1, <1>2 DEF OpOK
<1>4. EndOp \/ (Held(j) /\ exec[j].committed /\ Step("store")) \/ Step("release")
  BY <1>3 DEF CleanupOwner
<1>5. ASSUME NEW pc \in {"store", "release"}, Step(pc),
             pc = "store" => Held(j) /\ exec[j].committed
      PROVE  PackageInv'
  <2>1. op' = [op EXCEPT !.pc = pc] /\ queue' = queue /\ pc \in PCs
    BY <1>5 DEF Step, PCs
  <2>2. /\ op' \in Operation /\ op'.job \in Known \cup {0}
        /\ op'.pc = pc /\ op'.kind = op.kind /\ op'.job = j
    BY <1>3, <2>1, OpGoesOn
  <2>3. pc = "store" => Quiet(j)
    <3>1. JobOK(j)
      BY DEF PackageInv
    <3>. QED BY <1>5, <3>1 DEF JobOK, ExecOK, Quiet, Unsettled
  <2>4. OpOK'
    BY <1>2, <1>3, <1>5, <2>2, <2>3 DEF OpOK, Cleaning, Quiet, Held, durable, memory, Known
  <2>. QED BY <1>1, <1>2, <2>1, <2>2, <2>4, ControlStep DEF Shape
<1>6. CASE EndOp
  BY <1>1, <1>2, <1>6, OpEnds, ControlStep DEF Shape
<1>. QED BY <1>4, <1>5, <1>6

LEMMA ExecutionDropped ==
  ASSUME PackageInv, UNCHANGED <<durable, passes, runner>>, NEW j \in Known,
         Held(j), exec[j].committed, exec' = [exec EXCEPT ![j] = NoExec]
  PROVE  /\ exec' \in [Jobs -> Execution \cup {NoExec}] /\ PassesGo
         /\ \A i \in Known : ExecOK(i)'
         /\ \A i \in Jobs \ Known : exec'[i] = NoExec
<1>1. Shape /\ Known \subseteq Jobs
  BY KnownJobs DEF PackageInv
<1>2. exec' \in [Jobs -> Execution \cup {NoExec}] /\ exec'[j] = NoExec
      /\ \A i \in Jobs \ {j} : exec'[i] = exec[i]
  BY <1>1 DEF Shape
<1>3. job'[j].state = "succeeded"
  BY DEF PackageInv, JobOK, ExecOK, durable
<1>4. PassesGo
  BY <1>1, <1>2, <1>3 DEF PassesGo
<1>5. ASSUME NEW i \in Known PROVE ExecOK(i)'
  <2>1. ExecOK(i) /\ i \in Jobs
    BY <1>1 DEF PackageInv, JobOK
  <2>. QED BY <1>2, <2>1 DEF ExecOK, Held, Quiet, durable
<1>6. \A i \in Jobs \ Known : exec'[i] = NoExec
  BY <1>2 DEF PackageInv, UnknownOK
<1>. QED BY <1>2, <1>4, <1>5, <1>6

LEMMA FinishReleaseKeeps ==
  ASSUME PackageInv, FinishRelease
  PROVE  PackageInv'
<1>1. Shape /\ OpOK
  BY DEF PackageInv
<1>2. /\ op.pc = "release" /\ EndOp
      /\ UNCHANGED <<durable, selected, passes, downloads, lease, runner, reader, request, boot, faults>>
  BY DEF FinishRelease, At
<1>3. PICK j \in Known : j = op.job
  BY <1>1, <1>2 DEF OpOK
<1>4. exec' = exec \/ (Held(j) /\ exec[j].committed /\ exec' = [exec EXCEPT ![j] = NoExec])
  BY <1>3 DEF FinishRelease
<1>5. CASE exec' = exec
  BY <1>1, <1>2, <1>5, OpEnds, ControlStep DEF Shape, memory
<1>6. CASE Held(j) /\ exec[j].committed /\ exec' = [exec EXCEPT ![j] = NoExec]
  <2>1. /\ exec' \in [Jobs -> Execution \cup {NoExec}] /\ PassesGo
        /\ \A i \in Known : ExecOK(i)'
        /\ \A i \in Jobs \ Known : exec'[i] = NoExec
    BY <1>2, <1>6, ExecutionDropped
  <2>. QED BY <1>1, <1>2, <2>1, OpEnds, ExecutionStep DEF Shape
<1>. QED BY <1>4, <1>5, <1>6

(***************************************************************************)
(* request_cleanup                                                         *)
(***************************************************************************)
LEMMA CoreStep ==
  ASSUME PackageInv, Shape', JobsGo, DownloadsGo, CleanupIsNotLost', PassesGo, head' = head, OpOK',
         \A i \in Known' : JobOK(i)', \A i \in Jobs \ Known' : UnknownOK(i)'
  PROVE  PackageInv'
<1>1. Known \subseteq Known'
  BY DEF JobsGo
<1>3. /\ \A r \in Readers : DownloadOK(r)'
      /\ \A j \in Jobs : readers'[j] = Cardinality(Reading(j)')
  BY <1>1, DownloadsStay
<1>5. LineOK' /\ TestedOnHead'
  BY LineStays
<1>6. passes' <= Cardinality(Passed')
  BY PassesStay DEF PassesGo
<1>. QED BY <1>3, <1>5, <1>6 DEF PackageInv

LEMMA CleanupStoreKeeps ==
  ASSUME PackageInv, CleanupStore
  PROVE  PackageInv'
<1>1. Shape /\ OpOK /\ CleanupIsNotLost /\ Known \subseteq Jobs
  BY KnownJobs DEF PackageInv
<1>2. /\ op.pc = "store" /\ requested' = [requested EXCEPT ![op.job] = TRUE]
      /\ op' = [op EXCEPT !.pc = "load"] /\ queue' = queue
      /\ UNCHANGED <<durable, memory, readers, lease, runner, reader, request, boot, faults>>
  BY DEF CleanupStore, Step
<1>3. PICK j \in Known : j = op.job /\ j \in Jobs /\ Quiet(j)
  BY <1>1, <1>2 DEF OpOK, Cleaning
<1>4. /\ op' \in Operation /\ op'.job \in Known \cup {0}
      /\ op'.pc = "load" /\ op'.kind = op.kind /\ op'.job = j
  BY <1>2, <1>3, OpGoesOn DEF PCs
<1>5. /\ requested' \in [Jobs -> BOOLEAN] /\ requested'[j]
      /\ \A i \in Jobs \ {j} : requested'[i] = requested[i]
  BY <1>1, <1>2, <1>3 DEF Shape
<1>6. Known' = Known
  BY <1>2 DEF Known, durable
<1>7. Shape'
  BY <1>1, <1>2, <1>4, <1>5, <1>6 DEF Shape, durable, memory, boot
<1>8. JobsGo
  BY <1>2, <1>6 DEF JobsGo, Quiet, durable
<1>9. DownloadsGo
  BY <1>1, <1>2, <1>5 DEF DownloadsGo, durable
<1>10. PassesGo
  BY <1>2 DEF PassesGo, memory
<1>11. OpOK'
  BY <1>1, <1>2, <1>3, <1>4, <1>5, <1>6 DEF OpOK, Cleaning, Quiet, Held, durable, memory
<1>12. ASSUME NEW i \in Known PROVE JobOK(i)'
  <2>1. JobOK(i) /\ i \in Jobs
    BY <1>1 DEF PackageInv
  <2>2. CASE i # j
    BY <1>2, <1>5, <2>1, <2>2, JobStays DEF JobSame, memory, boot, durable
  <2>3. CASE i = j
    <3>1. ExecOK(j)'
      BY <1>2, <2>1, <2>3 DEF JobOK, ExecOK, Held, Quiet, memory, durable
    <3>2. Quiet(j)'
      BY <1>2, <1>3 DEF Quiet, durable
    <3>. QED BY <1>2, <2>1, <2>3, <3>1, <3>2 DEF JobOK, boot, durable
  <2>. QED BY <2>2, <2>3
<1>13. ASSUME NEW i \in Jobs \ Known PROVE UnknownOK(i)'
  BY <1>2, <1>3, <1>5 DEF PackageInv, UnknownOK, memory
<1>14. CleanupIsNotLost'
  <2>. SUFFICES ASSUME NEW i \in Known, requested'[i], readers'[i] = 0, ~Sweeping(i)'
                PROVE  child'[i] = "absent" \/ faults' > 0
    BY <1>6 DEF CleanupIsNotLost
  <2>1. i # j
    BY <1>4 DEF Sweeping
  <2>2. ~Sweeping(i)
    BY <1>2, <1>3, <2>1 DEF Sweeping
  <2>. QED BY <1>1, <1>2, <1>5, <2>1, <2>2 DEF CleanupIsNotLost, durable
<1>15. head' = head
  BY <1>2 DEF durable
<1>. QED BY <1>6, <1>7, <1>8, <1>9, <1>10, <1>11, <1>12, <1>13, <1>14, <1>15, CoreStep

LEMMA CleanupLoadKeeps ==
  ASSUME PackageInv, CleanupLoad
  PROVE  PackageInv'
<1>1. Shape /\ OpOK /\ CleanupIsNotLost /\ Known \subseteq Jobs
  BY KnownJobs DEF PackageInv
<1>2. /\ op.pc = "load"
      /\ UNCHANGED <<durable, memory, downloads, lease, runner, reader, request, boot, faults>>
  BY DEF CleanupLoad
<1>3. PICK j \in Known : j = op.job /\ j \in Jobs /\ Quiet(j) /\ requested[j]
  BY <1>1, <1>2 DEF OpOK, Cleaning
<1>4. \/ readers[j] # 0 /\ EndOp
      \/ readers[j] = 0 /\ op' = [op EXCEPT !.pc = "remove"] /\ queue' = queue
  BY <1>3 DEF CleanupLoad, Step
<1>5. Known' = Known
  BY <1>2 DEF Known, durable
<1>6. /\ op' \in Operation /\ op'.job \in Known \cup {0} /\ OpOK'
      /\ \A r \in Readers : queue = r => queue' = r
      /\ queue' \in Readers \cup {Free, OpThread}
      /\ readers[j] = 0 => op'.pc = "remove" /\ op'.job = j
  <2>1. CASE readers[j] # 0 /\ EndOp
    BY <2>1, OpEnds
  <2>2. CASE readers[j] = 0 /\ op' = [op EXCEPT !.pc = "remove"] /\ queue' = queue
    <3>1. /\ op' \in Operation /\ op'.job \in Known \cup {0}
          /\ op'.pc = "remove" /\ op'.kind = op.kind /\ op'.job = j
      BY <1>3, <2>2, OpGoesOn DEF PCs
    <3>2. OpOK'
      BY <1>1, <1>2, <1>3, <1>5, <2>2, <3>1
         DEF OpOK, Cleaning, Quiet, Held, durable, memory, downloads
    <3>. QED BY <1>1, <2>2, <3>1, <3>2 DEF Shape
  <2>. QED BY <1>4, <2>1, <2>2
<1>7. Shape'
  BY <1>1, <1>2, <1>5, <1>6 DEF Shape, durable, memory, downloads, boot
<1>8. JobsGo
  BY <1>2, <1>5 DEF JobsGo, Quiet, durable
<1>9. DownloadsGo
  BY <1>2, <1>6 DEF DownloadsGo, durable, downloads
<1>10. PassesGo
  BY <1>2 DEF PassesGo, memory
<1>12. ASSUME NEW i \in Known PROVE JobOK(i)'
  <2>1. JobOK(i)
    BY DEF PackageInv
  <2>. QED BY <1>2, <2>1, JobStays DEF JobSame, memory, downloads, boot, durable
<1>13. ASSUME NEW i \in Jobs \ Known PROVE UnknownOK(i)'
  BY <1>2 DEF PackageInv, UnknownOK, memory, downloads
<1>14. CleanupIsNotLost'
  <2>. SUFFICES ASSUME NEW i \in Known, requested'[i], readers'[i] = 0, ~Sweeping(i)'
                PROVE  child'[i] = "absent" \/ faults' > 0
    BY <1>5 DEF CleanupIsNotLost
  <2>1. i # j
    BY <1>2, <1>6 DEF Sweeping, downloads
  <2>2. ~Sweeping(i)
    BY <1>2, <1>3, <2>1 DEF Sweeping
  <2>. QED BY <1>1, <1>2, <2>2 DEF CleanupIsNotLost, durable, downloads
<1>15. head' = head
  BY <1>2 DEF durable
<1>. QED BY <1>5, <1>6, <1>7, <1>8, <1>9, <1>10, <1>12, <1>13, <1>14, <1>15, CoreStep

LEMMA CleanupRemoveKeeps ==
  ASSUME PackageInv, CleanupRemove
  PROVE  PackageInv'
<1>1. Shape /\ OpOK /\ CleanupIsNotLost /\ Known \subseteq Jobs
  BY KnownJobs DEF PackageInv
<1>2. /\ op.pc = "remove"
      /\ UNCHANGED <<job, head, published, memory, downloads, lease, runner, reader, request, boot>>
  BY DEF CleanupRemove
<1>3. PICK j \in Known : j = op.job /\ j \in Jobs /\ Quiet(j) /\ requested[j] /\ readers[j] = 0
  BY <1>1, <1>2 DEF OpOK, Cleaning
<1>4. /\ \E c \in {"absent", "partial"} : /\ child' = [child EXCEPT ![j] = c]
                                          /\ c = "absent" \/ faults' = faults + 1
      /\ faults' = faults \/ (faults < MaxFaults /\ faults' = faults + 1)
      /\ EndOp \/ Step("removed")
  BY <1>3, Zenon DEF CleanupRemove, Fault
<1>5. Known' = Known
  BY <1>2 DEF Known
<1>6. /\ op' \in Operation /\ op'.job \in Known \cup {0} /\ OpOK'
      /\ \A r \in Readers : queue = r => queue' = r
      /\ queue' \in Readers \cup {Free, OpThread}
  <2>1. CASE EndOp
    BY <2>1, OpEnds
  <2>2. CASE Step("removed")
    <3>1. /\ op' \in Operation /\ op'.job \in Known \cup {0} /\ queue' = queue
          /\ op'.pc = "removed" /\ op'.kind = op.kind /\ op'.job = j
      BY <1>3, <2>2, OpGoesOn DEF PCs, Step
    <3>2. OpOK'
      BY <1>1, <1>2, <1>3, <1>5, <3>1 DEF OpOK, Cleaning, Quiet, Held, memory, downloads
    <3>. QED BY <1>1, <3>1, <3>2 DEF Shape
  <2>. QED BY <1>4, <2>1, <2>2
<1>7. /\ child' \in [Jobs -> {"absent", "whole", "partial"}]
      /\ \A i \in Jobs \ {j} : child'[i] = child[i]
      /\ child'[j] = "absent" \/ faults' = faults + 1
  BY <1>1, <1>3, <1>4 DEF Shape
<1>8. faults' \in 0 .. MaxFaults /\ faults \in Nat /\ faults' \in Nat /\ faults' >= faults
  BY <1>1, <1>4, BoundsAssumption DEF Shape
<1>9. Shape'
  BY <1>1, <1>2, <1>5, <1>6, <1>7, <1>8 DEF Shape, memory, downloads, boot
<1>10. JobsGo
  BY <1>2, <1>5 DEF JobsGo, Quiet
<1>11. DownloadsGo
  BY <1>1, <1>2, <1>3, <1>6, <1>7 DEF DownloadsGo, downloads
<1>12. PassesGo
  BY <1>2 DEF PassesGo, memory
<1>13. ASSUME NEW i \in Known PROVE JobOK(i)'
  <2>1. JobOK(i) /\ i \in Jobs
    BY <1>1 DEF PackageInv
  <2>2. CASE i # j
    BY <1>2, <1>7, <2>1, <2>2, JobStays DEF JobSame, memory, downloads, boot
  <2>3. CASE i = j
    <3>1. ExecOK(j)'
      BY <1>2, <2>1, <2>3 DEF JobOK, ExecOK, Held, Quiet, memory
    <3>2. Quiet(j)'
      BY <1>2, <1>3 DEF Quiet
    <3>. QED BY <1>2, <2>1, <2>3, <3>1, <3>2 DEF JobOK, Quiet
  <2>. QED BY <2>2, <2>3
<1>14. ASSUME NEW i \in Jobs \ Known PROVE UnknownOK(i)'
  BY <1>2 DEF PackageInv, UnknownOK, memory, downloads
<1>15. CleanupIsNotLost'
  <2>. SUFFICES ASSUME NEW i \in Known, requested'[i], readers'[i] = 0, ~Sweeping(i)'
                PROVE  child'[i] = "absent" \/ faults' > 0
    BY <1>5 DEF CleanupIsNotLost
  <2>1. CASE i = j
    BY <1>7, <1>8, <2>1
  <2>2. CASE i # j
    <3>1. ~Sweeping(i)
      BY <1>2, <1>3, <2>2 DEF Sweeping
    <3>2. child[i] = "absent" \/ faults > 0
      BY <1>1, <1>2, <3>1 DEF CleanupIsNotLost, downloads
    <3>. QED BY <1>1, <1>7, <1>8, <2>2, <3>2
  <2>. QED BY <2>1, <2>2
<1>. QED BY <1>2, <1>5, <1>6, <1>9, <1>10, <1>11, <1>12, <1>13, <1>14, <1>15, CoreStep

LEMMA CleanupRemovedKeeps ==
  ASSUME PackageInv, CleanupRemoved
  PROVE  PackageInv'
<1>1. Shape /\ OpOK /\ Known \subseteq Jobs
  BY KnownJobs DEF PackageInv
<1>2. /\ op.pc = "removed"
      /\ UNCHANGED <<durable, selected, passes, downloads, lease, runner, reader, request, boot, faults>>
  BY DEF CleanupRemoved
<1>3. PICK j \in Known : j = op.job /\ j \in Jobs /\ Quiet(j) /\ op.kind # "idle"
  BY <1>1, <1>2 DEF OpOK, Cleaning
<1>4. op.kind \in {"finish", "observe", "abandon", "reprepare"}
  BY <1>1, <1>3 DEF Shape, Operation
<1>5. /\ (EndOp \/ (op.kind = "finish" /\ Step("release")))
      /\ op.kind \in {"finish", "observe"} =>
           exec' = [exec EXCEPT ![j] = IF @.result THEN [@ EXCEPT !.complete = TRUE] ELSE NoExec]
      /\ op.kind = "abandon" => exec' = [exec EXCEPT ![j].abandonment = "cleaned"]
      /\ op.kind = "reprepare" => exec' = exec
  <2>1. CASE op.kind = "finish"
    BY <1>3, <2>1, Zenon DEF CleanupRemoved
  <2>2. CASE op.kind = "observe"
    BY <1>3, <2>2, Zenon DEF CleanupRemoved
  <2>3. CASE op.kind = "abandon"
    BY <1>3, <2>3, Zenon DEF CleanupRemoved
  <2>4. CASE op.kind = "reprepare"
    BY <1>3, <2>4, Zenon DEF CleanupRemoved
  <2>. QED BY <1>4, <2>1, <2>2, <2>3, <2>4
<1>6. /\ op' \in Operation /\ op'.job \in Known \cup {0} /\ OpOK'
      /\ \A r \in Readers : queue = r => queue' = r
      /\ queue' \in Readers \cup {Free, OpThread}
  <2>1. CASE EndOp
    BY <2>1, OpEnds
  <2>2. CASE op.kind = "finish" /\ Step("release")
    <3>1. /\ op' \in Operation /\ op'.job \in Known \cup {0} /\ queue' = queue
          /\ op'.pc = "release" /\ op'.kind = "finish" /\ op'.job = j
      BY <1>3, <2>2, OpGoesOn DEF PCs, Step
    <3>2. OpOK'
      BY <1>2, <3>1 DEF OpOK, Cleaning, durable, Known
    <3>. QED BY <1>1, <3>1, <3>2 DEF Shape
  <2>. QED BY <1>5, <2>1, <2>2
<1>7. CASE exec' = exec
  BY <1>1, <1>2, <1>6, <1>7, ControlStep DEF Shape, memory
<1>8. CASE op.kind # "reprepare" /\ exec' # exec
  <2>1. Held(j) /\ (op.kind \in {"finish", "observe"} => exec[j].committed)
    BY <1>1, <1>2, <1>3, <1>8 DEF OpOK, Cleaning
  <2>2. PICK old \in Execution : old = exec[j]
    BY <1>1, <1>3, <2>1 DEF Shape, Held
  <2>3. CASE op.kind \in {"finish", "observe"} /\ ~old.result
    <3>1. exec' = [exec EXCEPT ![j] = NoExec]
      BY <1>1, <1>3, <1>5, <2>2, <2>3 DEF Shape
    <3>2. /\ exec' \in [Jobs -> Execution \cup {NoExec}] /\ PassesGo
          /\ \A i \in Known : ExecOK(i)'
          /\ \A i \in Jobs \ Known : exec'[i] = NoExec
      BY <1>2, <2>1, <2>3, <3>1, ExecutionDropped
    <3>. QED BY <1>1, <1>2, <1>6, <3>2, ExecutionStep DEF Shape
  <2>4. ASSUME NEW new \in Execution, exec' = [exec EXCEPT ![j] = new],
               new.pkg = old.pkg, new.evidence = old.evidence, new.committed = old.committed,
               new.released = old.released, new.actions = old.actions
        PROVE  PackageInv'
    <3>1. Renewed(j, new)
      BY <1>1, <1>3, <2>4, ExecutionRenewed
    <3>2. exec'[j] = new /\ new # NoExec /\ \A i \in Jobs \ {j} : exec'[i] = exec[i]
      BY <3>1 DEF Renewed
    <3>3. ASSUME NEW i \in Known PROVE ExecOK(i)'
      <4>1. ExecOK(i) /\ i \in Jobs
        BY <1>1 DEF PackageInv, JobOK
      <4>2. CASE i # j
        BY <1>2, <3>2, <4>1, <4>2 DEF ExecOK, Held, Quiet, durable
      <4>3. CASE i = j
        BY <1>2, <1>3, <2>1, <2>2, <2>4, <3>2, <4>1, <4>3 DEF ExecOK, Held, Quiet, durable
      <4>. QED BY <4>2, <4>3
    <3>4. PassesGo
      BY <1>1, <1>2, <2>2, <2>4, <3>2 DEF PassesGo
    <3>5. \A i \in Jobs \ Known : exec'[i] = NoExec
      BY <3>2 DEF PackageInv, UnknownOK
    <3>6. exec' \in [Jobs -> Execution \cup {NoExec}]
      BY <3>1 DEF Renewed
    <3>. QED BY <1>1, <1>2, <1>6, <3>3, <3>4, <3>5, <3>6, ExecutionStep DEF Shape
  <2>5. CASE op.kind \in {"finish", "observe"} /\ old.result
    <3>1. PICK new : new = [old EXCEPT !.complete = TRUE]
      OBVIOUS
    <3>2. exec' = [exec EXCEPT ![j] = new]
      BY <1>1, <1>3, <1>5, <2>2, <2>5, <3>1 DEF Shape
    <3>3. new \in Execution /\ new.pkg = old.pkg /\ new.evidence = old.evidence
          /\ new.committed = old.committed /\ new.released = old.released /\ new.actions = old.actions
      BY <3>1 DEF Execution
    <3>. QED BY <2>4, <3>2, <3>3
  <2>6. CASE op.kind = "abandon"
    <3>1. PICK new : new = [old EXCEPT !.abandonment = "cleaned"]
      OBVIOUS
    <3>2. exec' = [exec EXCEPT ![j] = new]
      BY <1>1, <1>3, <1>5, <2>2, <2>6, <3>1 DEF Shape
    <3>3. new \in Execution /\ new.pkg = old.pkg /\ new.evidence = old.evidence
          /\ new.committed = old.committed /\ new.released = old.released /\ new.actions = old.actions
      BY <3>1 DEF Execution
    <3>. QED BY <2>4, <3>2, <3>3
  <2>. QED BY <1>4, <1>8, <2>3, <2>5, <2>6
<1>. QED BY <1>5, <1>7, <1>8

(***************************************************************************)
(* The commit of finish                                                    *)
(***************************************************************************)
LEMMA PeersReleased ==
  ASSUME Shape, NEW j \in Known, Held(j), exec' = Committed(j)
  PROVE  /\ exec' \in [Jobs -> Execution \cup {NoExec}]
         /\ \A i \in Jobs : exec'[i] = NoExec <=> exec[i] = NoExec
         /\ \A i \in Jobs : exec[i] # NoExec =>
              /\ exec'[i].pkg = exec[i].pkg /\ exec'[i].evidence = exec[i].evidence
              /\ exec'[i].abandonment = exec[i].abandonment
              /\ exec'[i].committed => exec[i].committed \/ i = j
              /\ exec[i].released => exec'[i].released
              /\ exec'[i].actions = exec[i].actions
         /\ exec'[j].released /\ exec'[j].committed
<1>2. ASSUME NEW i \in Jobs
      PROVE  /\ exec'[i] \in Execution \cup {NoExec}
             /\ exec'[i] = NoExec <=> exec[i] = NoExec
             /\ exec[i] # NoExec =>
                  /\ exec'[i].pkg = exec[i].pkg /\ exec'[i].evidence = exec[i].evidence
                  /\ exec'[i].abandonment = exec[i].abandonment
                  /\ exec'[i].committed => exec[i].committed \/ i = j
                  /\ exec[i].released => exec'[i].released
                  /\ exec'[i].actions = exec[i].actions
             /\ i = j => exec'[i].released /\ exec'[i].committed
  <2>1. CASE i \in Known /\ Held(i) /\ SameTarget(exec, i, j)
    <3>1. PICK old \in Execution : old = exec[i]
      BY <2>1 DEF Shape, Held
    <3>2. PICK c \in BOOLEAN : c <=> (old.committed \/ i = j)
      OBVIOUS
    <3>3. PICK new : new = [old EXCEPT !.released = TRUE, !.committed = c]
      OBVIOUS
    <3>4. exec'[i] = [exec[i] EXCEPT !.released = TRUE, !.committed = @ \/ i = j]
      BY <2>1 DEF Committed
    <3>5. (old.committed \/ i = j) = c
      BY <3>2
    <3>6. new = exec'[i]
      BY <3>1, <3>3, <3>4, <3>5
    <3>7. /\ new \in Execution /\ new.pkg = old.pkg /\ new.evidence = old.evidence
          /\ new.abandonment = old.abandonment /\ new.committed = c
          /\ new.released = TRUE /\ new.actions = old.actions
      BY <3>3 DEF Execution
    <3>8. new # NoExec /\ old # NoExec
      BY <3>7, ExecutionsDiffer
    <3>. QED BY <2>1, <3>1, <3>2, <3>6, <3>7, <3>8
  <2>2. CASE ~(i \in Known /\ Held(i) /\ SameTarget(exec, i, j))
    <3>1. exec'[i] = exec[i]
      BY <2>2 DEF Committed
    <3>2. i # j
      BY <2>2 DEF SameTarget
    <3>. QED BY <3>1, <3>2 DEF Shape
  <2>. QED BY <2>1, <2>2
<1>3. exec' \in [Jobs -> Execution \cup {NoExec}]
  <2>1. exec' = [i \in Jobs |-> exec'[i]]
    BY DEF Committed
  <2>. QED BY <1>2, <2>1
<1>4. j \in Jobs
  BY KnownJobs
<1>. QED BY <1>2, <1>3, <1>4

\* The line after the publication of job j.
LEMMA LineGrows ==
  ASSUME PackageInv, NEW j \in Known, ~job[j].bound, head = Base[job[j].pkg], head' = job[j].pkg,
         Known' = Known, job'[j].bound, job'[j].pkg = job[j].pkg,
         \A i \in Known \ {j} : job'[i] = job[i]
  PROVE  LineOK' /\ TestedOnHead'
<1>1. Shape /\ LineOK /\ TestedOnHead /\ job \in [Known -> Record]
  BY KnownJobs DEF PackageInv
<1>2. PICK p : p = job[j].pkg
  OBVIOUS
<1>3. p \in Packages /\ p # Trunk
  BY <1>1, <1>2, RevisionAssumption DEF Record
<1>4. ~Landed(p)
  <2>. SUFFICES ASSUME NEW k \in Known, job[k].bound, job[k].pkg = p PROVE FALSE
    BY <1>3 DEF Landed
  <2>. QED BY <1>1, <1>2 DEF LineOK
<1>5. ASSUME NEW q, Landed(q) PROVE Landed(q)' /\ q # p
  <2>1. q # p
    BY <1>4, <1>5
  <2>2. CASE q = Trunk
    BY <2>1, <2>2 DEF Landed
  <2>3. ASSUME NEW k \in Known, job[k].bound, job[k].pkg = q PROVE Landed(q)'
    BY <2>3 DEF Landed
  <2>. QED BY <1>5, <2>1, <2>2, <2>3 DEF Landed
<1>6. Landed(p)'
  BY <1>2 DEF Landed
<1>7. ASSUME NEW i \in Known, job'[i].bound, NEW b, b = Base[job'[i].pkg]
      PROVE  Landed(b)' /\ b # p
  <2>1. CASE i = j
    <3>1. b = head
      BY <1>7, <2>1
    <3>2. Landed(b)
      BY <1>1, <3>1 DEF LineOK
    <3>. QED BY <1>5, <3>2
  <2>2. CASE i # j
    <3>1. job[i].bound /\ b = Base[job[i].pkg]
      BY <1>7, <2>2
    <3>2. Landed(b)
      BY <1>1, <3>1 DEF LineOK
    <3>. QED BY <1>5, <3>2
  <2>. QED BY <2>1, <2>2
<1>8. Landed(head)'
  BY <1>2, <1>6 DEF Landed
<1>9. LineOK'
  <2>. SUFFICES ASSUME NEW i \in Known, job'[i].bound
                PROVE  Landed(Base[job[i].pkg])' /\ Base[job'[i].pkg] # head'
    BY <1>8 DEF LineOK
  <2>1. PICK b : b = Base[job'[i].pkg]
    OBVIOUS
  <2>2. Landed(b)' /\ b # p
    BY <1>7, <2>1
  <2>. QED BY <1>2, <2>1, <2>2 DEF Landed
<1>10. TestedOnHead'
  <2>. SUFFICES ASSUME NEW i \in Known, NEW k \in Known, job'[i].bound, job'[k].bound, i # k
                PROVE  Base[job'[i].pkg] # Base[job'[k].pkg]
    BY DEF TestedOnHead
  <2>1. CASE i = j
    BY <1>1, <2>1 DEF LineOK
  <2>2. CASE k = j
    BY <1>1, <2>2 DEF LineOK
  <2>3. CASE i # j /\ k # j
    BY <1>1, <2>3 DEF TestedOnHead
  <2>. QED BY <2>1, <2>2, <2>3
<1>. QED BY <1>9, <1>10

LEMMA FinishCommitKeeps ==
  ASSUME PackageInv, FinishCommit
  PROVE  PackageInv'
<1>1. Shape /\ OpOK /\ Known \subseteq Jobs /\ job \in [Known -> Record]
  BY KnownJobs DEF PackageInv
<1>2. /\ op.pc = "commit" /\ op.kind = "finish"
      /\ UNCHANGED <<child, passes, downloads, lease, runner, reader, request, boot>>
  BY DEF FinishCommit, At
<1>3. PICK j \in Known : j = op.job /\ j \in Jobs
  BY <1>1, <1>2 DEF OpOK
<1>4. /\ queue = OpThread /\ Held(j) /\ job[j].state = "succeeded" /\ ~job[j].bound
      /\ head = Base[exec[j].pkg] /\ RequireComplete(exec[j].actions, RequireHuman)
  BY <1>1, <1>2, <1>3 DEF OpOK
<1>5. CASE /\ Fault /\ EndOp /\ UNCHANGED <<job, head, published, exec, selected>>
  <2>1. faults' \in 0 .. MaxFaults /\ faults' \in Nat /\ faults' >= faults
    BY <1>1, <1>5, BoundsAssumption DEF Fault, Shape
  <2>2. Known' = Known
    BY <1>5 DEF Known
  <2>3. /\ op' \in Operation /\ op'.job = 0 /\ OpOK'
        /\ \A r \in Readers : queue = r => queue' = r
        /\ queue' \in Readers \cup {Free, OpThread}
    BY <1>5, OpEnds
  <2>4. Shape'
    BY <1>1, <1>2, <1>5, <2>1, <2>2, <2>3 DEF Shape, downloads, boot
  <2>5. JobsGo
    BY <1>2, <1>5, <2>2 DEF JobsGo, Quiet
  <2>6. DownloadsGo
    BY <1>2, <1>5, <2>3 DEF DownloadsGo, downloads
  <2>7. CleanupLeft
    BY <1>2, <2>1 DEF CleanupLeft, downloads
  <2>8. PassesGo
    BY <1>2, <1>5 DEF PassesGo
  <2>9. ASSUME NEW i \in Known PROVE JobOK(i)'
    <3>1. JobOK(i)
      BY DEF PackageInv
    <3>. QED BY <1>2, <1>5, <3>1, JobStays DEF JobSame, downloads, boot
  <2>10. ASSUME NEW i \in Jobs \ Known PROVE UnknownOK(i)'
    BY <1>2, <1>5 DEF PackageInv, UnknownOK, downloads
  <2>. QED BY <1>5, <2>2, <2>3, <2>4, <2>5, <2>6, <2>7, <2>8, <2>9, <2>10, OrdinaryStep
<1>6. CASE /\ job' = [job EXCEPT ![j].bound = TRUE]
           /\ head' = exec[j].pkg
           /\ published' = [published EXCEPT ![j] = exec[j].actions]
           /\ exec' = Committed(j)
           /\ selected' = [selected EXCEPT ![exec[j].pkg] = 0]
           /\ op' = [op EXCEPT !.pc = "retain"] /\ queue' = Free
           /\ UNCHANGED faults
  <2>1. Moved(j, job[j].state, job[j].error, job[j].claimed, TRUE)
    BY <1>1, <1>6, JobIsBound DEF Shape
  <2>2. /\ Known' = Known /\ job' \in Seq(Record) /\ Len(job') = Len(job)
        /\ job'[j].bound = TRUE /\ job'[j].pkg = job[j].pkg /\ job'[j].state = job[j].state
        /\ job'[j].error = job[j].error /\ job'[j].claimed = job[j].claimed
        /\ \A i \in Known \ {j} : job'[i] = job[i]
    BY <2>1 DEF Moved
  <2>3. /\ exec' \in [Jobs -> Execution \cup {NoExec}]
        /\ \A i \in Jobs : exec'[i] = NoExec <=> exec[i] = NoExec
        /\ \A i \in Jobs : exec[i] # NoExec =>
             /\ exec'[i].pkg = exec[i].pkg /\ exec'[i].evidence = exec[i].evidence
             /\ exec'[i].abandonment = exec[i].abandonment
             /\ exec'[i].committed => exec[i].committed \/ i = j
             /\ exec[i].released => exec'[i].released
             /\ exec'[i].actions = exec[i].actions
        /\ exec'[j].released /\ exec'[j].committed
    BY <1>1, <1>4, <1>6, PeersReleased
  <2>4. exec[j] \in Execution /\ exec[j].pkg \in Packages /\ exec[j].pkg = job[j].pkg
    <3>1. ExecOK(j)
      BY DEF PackageInv, JobOK
    <3>2. exec[j] \in Execution
      BY <1>1, <1>3, <1>4 DEF Shape, Held
    <3>. QED BY <1>4, <3>1, <3>2 DEF ExecOK, Execution
  <2>5. /\ op' \in Operation /\ op'.job \in Known \cup {0}
        /\ op'.pc = "retain" /\ op'.kind = "finish" /\ op'.job = j
    BY <1>2, <1>3, <1>6, OpGoesOn DEF PCs
  <2>6. Shape'
    <3>1. head' \in Packages \cup {Trunk} /\ DOMAIN published' = Jobs
      BY <1>1, <1>6, <2>4 DEF Shape
    <3>2. selected' \in [Packages -> Known \cup {0}]
      BY <1>1, <1>6, <2>4 DEF Shape
    <3>3. queue' \in Readers \cup {Free, OpThread}
      BY <1>6
    <3>. QED BY <1>1, <1>2, <1>6, <2>2, <2>3, <2>5, <3>1, <3>2, <3>3 DEF Shape, downloads, boot
  <2>7. DownloadsGo
    BY <1>2, <1>4, <2>2, ReadersAssumption DEF DownloadsGo, downloads, OpThread
  <2>8. CleanupLeft
    BY <1>1, <1>2, <1>6, BoundsAssumption DEF CleanupLeft, downloads, Shape
  <2>9. OpOK'
    <3>1. exec'[j] # NoExec /\ exec'[j].committed
      BY <1>3, <1>4, <2>3 DEF Held
    <3>. QED BY <2>2, <2>5, <3>1 DEF OpOK, Cleaning, Held
  <2>10. ASSUME NEW i \in Known PROVE JobOK(i)'
    <3>1. JobOK(i) /\ i \in Jobs
      BY <1>1 DEF PackageInv
    <3>2. CASE i # j
      <4>1. job'[i] = job[i] /\ published'[i] = published[i]
        BY <1>1, <1>6, <2>2, <3>1, <3>2 DEF Shape
      <4>2. Quiet(i)' <=> Quiet(i)
        BY <1>2, <4>1 DEF Quiet
      <4>3. ExecOK(i)'
        BY <2>3, <3>1, <3>2, <4>1, <4>2 DEF JobOK, ExecOK, Held
      <4>. QED BY <1>2, <3>1, <4>1, <4>2, <4>3 DEF JobOK, downloads, boot
    <3>3. CASE i = j
      <4>1. published'[j] = exec[j].actions
        BY <1>1, <1>3, <1>6 DEF Shape
      <4>2. Quiet(j)' <=> Quiet(j)
        BY <1>2, <2>2 DEF Quiet
      <4>3. ExecOK(j)'
        BY <1>3, <1>4, <2>2, <2>3, <2>4, <3>1, <3>3, <4>1, <4>2 DEF JobOK, ExecOK, Held
      <4>4. RequireComplete(published'[j], RequireHuman)
        BY <1>4, <4>1
      <4>. QED BY <1>2, <1>4, <2>2, <3>1, <3>3, <4>2, <4>3, <4>4 DEF JobOK, downloads, boot, Unsettled
    <3>. QED BY <3>2, <3>3
  <2>11. ASSUME NEW i \in Jobs \ Known PROVE UnknownOK(i)'
    BY <1>2, <2>3 DEF PackageInv, UnknownOK, downloads
  <2>12. LineOK' /\ TestedOnHead'
    BY <1>4, <1>6, <2>2, <2>4, LineGrows
  <2>13. passes' <= Cardinality(Passed')
    <3>1. \A i \in Known : job'[i].state = job[i].state
      BY <2>2
    <3>2. Passed' = Passed
      BY <1>1, <2>2, <2>3, <3>1 DEF Passed, Held
    <3>. QED BY <1>2, <3>2 DEF PackageInv
  <2>14. /\ \A r \in Readers : DownloadOK(r)'
         /\ \A i \in Jobs : readers'[i] = Cardinality(Reading(i)')
    BY <2>2, <2>7, DownloadsStay
  <2>15. CleanupIsNotLost'
    BY <1>1, <2>2, <2>8, CleanupStays
  <2>. QED BY <2>2, <2>6, <2>9, <2>10, <2>11, <2>12, <2>13, <2>14, <2>15 DEF PackageInv
<1>. QED BY <1>3, <1>5, <1>6, Zenon DEF FinishCommit

(***************************************************************************)
(* abandon and reprepare                                                   *)
(***************************************************************************)
\* The job that is abandoned stays as it is, or it failed before it was ever claimed.
AbandonedAs(j) ==
  \/ job' = job
  \/ /\ job[j].state = "queued" /\ ~job[j].claimed
     /\ job' = [job EXCEPT ![j].state = "failed", ![j].error = "terminal"]

LEMMA AbandonCases ==
  ASSUME PackageInv, Abandon, NEW j \in Known, j = op.job
  PROVE  \/ EndOp /\ UNCHANGED <<exec, job>>
         \/ /\ Held(j) /\ ~job[j].bound /\ AbandonedAs(j)
            /\ \E how \in {"none", "asked", "stopped", "cleaned"} :
                 /\ exec' = [exec EXCEPT ![j].released = TRUE, ![j].abandonment = how]
                 /\ \/ how = "stopped" /\ op' = [op EXCEPT !.pc = "store"] /\ queue' = OpThread
                    \/ EndOp
                 /\ how \in {"stopped", "cleaned"} => Quiet(j)'
<1>1. Shape /\ JobOK(j) /\ j \in Jobs /\ job \in [Known -> Record]
  BY KnownJobs DEF PackageInv
<1>2. runner' = runner
  BY DEF Abandon
<1>3. CASE ~Abandonable(j)
  BY <1>3, Zenon DEF Abandon
<1>4. CASE Abandonable(j)
  <2>1. Held(j) /\ ~job[j].bound
    BY <1>4 DEF Abandonable
  <2>2. exec[j] \in Execution
    BY <1>1, <2>1 DEF Shape, Held
  <2>3. CASE /\ job[j].state = "queued" /\ ~lease[j] /\ ~job[j].claimed
             /\ job' = [job EXCEPT ![j].state = "failed", ![j].error = "terminal"]
             /\ exec' = [exec EXCEPT ![j].released = TRUE, ![j].abandonment = "stopped"]
             /\ op' = [op EXCEPT !.pc = "store"] /\ queue' = OpThread
    <3>1. Moved(j, "failed", "terminal", job[j].claimed, job[j].bound)
      BY <1>1, <2>3, JobFails DEF Shape
    <3>2. Quiet(j)'
      BY <1>1, <1>2, <2>3, <3>1 DEF Moved, Quiet, Unsettled, JobOK
    <3>3. AbandonedAs(j)
      BY <2>3 DEF AbandonedAs
    <3>. QED BY <2>1, <2>3, <3>2, <3>3
  <2>4. CASE /\ OwnerReported(j) /\ job' = job
             /\ exec' = [exec EXCEPT ![j].released = TRUE, ![j].abandonment = "stopped"]
             /\ op' = [op EXCEPT !.pc = "store"] /\ queue' = OpThread
    <3>1. Quiet(j)'
      BY <1>1, <1>2, <2>4 DEF OwnerReported, Quiet, Unsettled, JobOK
    <3>2. AbandonedAs(j)
      BY <2>4 DEF AbandonedAs
    <3>. QED BY <2>1, <2>4, <3>1, <3>2
  <2>5. ASSUME NEW before \in {"none", "asked", "stopped", "cleaned"},
               before = IF exec[j].abandonment = "none" THEN "asked" ELSE exec[j].abandonment,
               job' = job,
               exec' = [exec EXCEPT ![j].released = TRUE, ![j].abandonment = before],
               \/ before = "stopped" /\ op' = [op EXCEPT !.pc = "store"] /\ queue' = OpThread
               \/ EndOp
        PROVE  /\ AbandonedAs(j)
               /\ before \in {"stopped", "cleaned"} => Quiet(j)'
    BY <1>1, <1>2, <2>1, <2>5 DEF AbandonedAs, JobOK, ExecOK, Quiet
  <2>6. PICK before : before = IF exec[j].abandonment = "none" THEN "asked" ELSE exec[j].abandonment
    OBVIOUS
  <2>7. before \in {"none", "asked", "stopped", "cleaned"}
    BY <2>2, <2>6 DEF Execution
  <2>8. CASE /\ exec' = [exec EXCEPT ![j].released = TRUE, ![j].abandonment = before]
             /\ job' = job
             /\ \/ before = "stopped" /\ op' = [op EXCEPT !.pc = "store"] /\ queue' = OpThread
                \/ EndOp
    <3>1. AbandonedAs(j) /\ (before \in {"stopped", "cleaned"} => Quiet(j)')
      BY <2>5, <2>6, <2>7, <2>8
    <3>. QED BY <2>1, <2>7, <2>8, <3>1
  <2>9. \/ /\ job[j].state = "queued" /\ ~lease[j] /\ ~job[j].claimed
           /\ job' = [job EXCEPT ![j].state = "failed", ![j].error = "terminal"]
           /\ exec' = [exec EXCEPT ![j].released = TRUE, ![j].abandonment = "stopped"]
           /\ op' = [op EXCEPT !.pc = "store"] /\ queue' = OpThread
        \/ /\ OwnerReported(j) /\ job' = job
           /\ exec' = [exec EXCEPT ![j].released = TRUE, ![j].abandonment = "stopped"]
           /\ op' = [op EXCEPT !.pc = "store"] /\ queue' = OpThread
        \/ /\ exec' = [exec EXCEPT ![j].released = TRUE, ![j].abandonment = before]
           /\ job' = job
           /\ \/ before = "stopped" /\ op' = [op EXCEPT !.pc = "store"] /\ queue' = OpThread
              \/ EndOp
    BY <1>4, <2>6, Zenon DEF Abandon
  <2>. QED BY <2>3, <2>4, <2>8, <2>9
<1>. QED BY <1>3, <1>4

LEMMA AbandonKeeps ==
  ASSUME PackageInv, Abandon
  PROVE  PackageInv'
<1>1. Shape /\ OpOK /\ Known \subseteq Jobs /\ job \in [Known -> Record]
  BY KnownJobs DEF PackageInv
<1>2. /\ op.kind = "abandon" /\ op.pc = "look" /\ queue = Free
      /\ UNCHANGED <<head, child, published, selected, passes, downloads, lease, runner, reader,
                     request, boot, faults>>
  BY DEF Abandon, At
<1>3. PICK j \in Known : j = op.job /\ j \in Jobs
  BY <1>1, <1>2 DEF OpOK
<1>4. CASE EndOp /\ UNCHANGED <<exec, job>>
  BY <1>1, <1>2, <1>4, OpEnds, ControlStep DEF Shape, memory, durable
<1>5. ASSUME Held(j), ~job[j].bound, AbandonedAs(j),
             NEW how \in {"none", "asked", "stopped", "cleaned"},
             exec' = [exec EXCEPT ![j].released = TRUE, ![j].abandonment = how],
             \/ how = "stopped" /\ op' = [op EXCEPT !.pc = "store"] /\ queue' = OpThread
             \/ EndOp,
             how \in {"stopped", "cleaned"} => Quiet(j)'
      PROVE  PackageInv'
  <2>1. PICK old \in Execution : old = exec[j]
    BY <1>1, <1>3, <1>5 DEF Shape, Held
  <2>2. PICK new : new = [old EXCEPT !.released = TRUE, !.abandonment = how]
    OBVIOUS
  <2>3. /\ new \in Execution /\ new.pkg = old.pkg /\ new.evidence = old.evidence
        /\ new.abandonment = how /\ new.committed = old.committed
    BY <2>2 DEF Execution
  <2>4. exec' = [exec EXCEPT ![j] = new]
    BY <1>1, <1>3, <1>5, <2>1, <2>2 DEF Shape
  <2>5. Renewed(j, new)
    BY <1>1, <1>3, <2>3, <2>4, ExecutionRenewed
  <2>6. exec'[j] = new /\ new # NoExec /\ \A i \in Jobs \ {j} : exec'[i] = exec[i]
    BY <2>5 DEF Renewed
  <2>7. /\ Known' = Known /\ job' \in Seq(Record) /\ Len(job') = Len(job)
        /\ \A i \in Known \ {j} : job'[i] = job[i]
        /\ job'[j].pkg = job[j].pkg /\ job'[j].bound = job[j].bound
        /\ job'[j].claimed = job[j].claimed
        /\ job'[j] = job[j] \/ (/\ job[j].state = "queued" /\ ~job[j].claimed
                                /\ job'[j].state = "failed")
    <3>1. CASE job' = job
      BY <1>1, <3>1 DEF Known, Shape
    <3>2. CASE /\ job[j].state = "queued" /\ ~job[j].claimed
               /\ job' = [job EXCEPT ![j].state = "failed", ![j].error = "terminal"]
      <4>1. Moved(j, "failed", "terminal", job[j].claimed, job[j].bound)
        BY <1>1, <3>2, JobFails DEF Shape
      <4>2. PICK c, b : c = job[j].claimed /\ b = job[j].bound
        OBVIOUS
      <4>3. job'[j] = [pkg |-> job[j].pkg, state |-> "failed", error |-> "terminal",
                       claimed |-> c, bound |-> b]
        BY <4>1, <4>2 DEF Moved
      <4>4. /\ job'[j].pkg = job[j].pkg /\ job'[j].state = "failed"
            /\ job'[j].claimed = c /\ job'[j].bound = b
        BY <4>3
      <4>5. /\ Known' = Known /\ job' \in Seq(Record) /\ Len(job') = Len(job)
            /\ \A i \in Known \ {j} : job'[i] = job[i]
        BY <4>1 DEF Moved
      <4>. QED BY <3>2, <4>2, <4>4, <4>5
    <3>. QED BY <1>5, <3>1, <3>2 DEF AbandonedAs
  <2>8. /\ op' \in Operation /\ op'.job \in Known \cup {0} /\ OpOK'
        /\ queue' \in Readers \cup {Free, OpThread}
    <3>1. CASE EndOp
      BY <3>1, OpEnds
    <3>2. CASE how = "stopped" /\ op' = [op EXCEPT !.pc = "store"] /\ queue' = OpThread
      <4>1. /\ op' \in Operation /\ op'.job \in Known \cup {0}
            /\ op'.pc = "store" /\ op'.kind = "abandon" /\ op'.job = j
        BY <1>2, <1>3, <3>2, OpGoesOn DEF PCs
      <4>2. Quiet(j)'
        BY <1>5, <3>2
      <4>3. OpOK'
        BY <2>6, <2>7, <4>1, <4>2 DEF OpOK, Cleaning, Held
      <4>. QED BY <3>2, <4>1, <4>3
    <3>. QED BY <1>5, <3>1, <3>2
  <2>9. Shape'
    BY <1>1, <1>2, <2>5, <2>7, <2>8 DEF Shape, downloads, boot, Renewed
  <2>10. JobsGo
    BY <1>2, <2>7 DEF JobsGo, Quiet, Unsettled
  <2>11. DownloadsGo
    BY <1>2, ReadersAssumption DEF DownloadsGo, downloads, Free
  <2>12. CleanupLeft
    BY <1>1, <1>2, BoundsAssumption DEF CleanupLeft, downloads, Shape
  <2>13. PassesGo
    BY <1>1, <1>2, <2>1, <2>3, <2>6 DEF PassesGo
  <2>14. ASSUME NEW i \in Known PROVE JobOK(i)'
    <3>1. JobOK(i) /\ i \in Jobs
      BY <1>1 DEF PackageInv
    <3>2. CASE i # j
      BY <1>2, <2>6, <2>7, <3>1, <3>2, JobStays DEF JobSame, downloads, boot
    <3>3. CASE i = j
      <4>1. ExecOK(j)'
        BY <1>5, <2>1, <2>3, <2>6, <2>7, <3>1, <3>3 DEF JobOK, ExecOK, Held
      <4>2. CASE job'[j] = job[j]
        <5>1. Quiet(j)' <=> Quiet(j)
          BY <1>2, <4>2 DEF Quiet
        <5>. QED BY <1>2, <1>5, <3>1, <3>3, <4>1, <4>2, <5>1 DEF JobOK, downloads, boot
      <4>3. CASE job[j].state = "queued" /\ ~job[j].claimed /\ job'[j].state = "failed"
        <5>1. ~Quiet(j) /\ runner[j] # "executing"
          BY <3>1, <3>3, <4>3 DEF Quiet, Unsettled, JobOK
        <5>. QED BY <1>2, <1>5, <2>7, <3>1, <3>3, <4>1, <4>3, <5>1
                 DEF JobOK, downloads, boot, Unsettled
      <4>. QED BY <2>7, <4>2, <4>3
    <3>. QED BY <3>2, <3>3
  <2>15. ASSUME NEW i \in Jobs \ Known PROVE UnknownOK(i)'
    BY <1>2, <2>6 DEF PackageInv, UnknownOK, downloads
  <2>. QED BY <1>2, <2>7, <2>8, <2>9, <2>10, <2>11, <2>12, <2>13, <2>14, <2>15, OrdinaryStep
<1>. QED BY <1>3, <1>4, <1>5, AbandonCases

LEMMA ReprepareOp ==
  ASSUME PackageInv, NEW j \in Known, Reprepare(j), Known \subseteq Known', job'[j] = job[j]
  PROVE  op' \in Operation /\ op'.job \in Known \cup {0} /\ OpOK' /\ CleanupsGo
<1>1. Shape /\ OpOK /\ JobOK(j) /\ Known \subseteq Jobs
  BY KnownJobs DEF PackageInv
<1>2. /\ op = Idle /\ queue = Free /\ ResetStopped(j)
      /\ op' = [kind |-> "reprepare", job |-> j, pc |-> "store"] \/ op' = op
      /\ UNCHANGED <<downloads, runner>>
  BY DEF Reprepare
<1>3. Quiet(j)
  BY <1>1, <1>2 DEF ResetStopped, JobOK, Quiet, Unsettled
<1>4. CleanupsGo
  BY <1>2 DEF CleanupsGo, downloads
<1>5. CASE op' = op
  BY <1>1, <1>2, <1>4, <1>5 DEF OpOK, Idle, Cleaning, Shape
<1>6. CASE op' = [kind |-> "reprepare", job |-> j, pc |-> "store"]
  <2>1. op'.kind = "reprepare" /\ op'.job = j /\ op'.pc = "store"
    BY <1>6
  <2>2. op' \in Operation
    BY <1>1, <1>6 DEF Operation, PCs
  <2>3. Quiet(j)'
    BY <1>2, <1>3 DEF Quiet
  <2>4. OpOK'
    BY <2>1, <2>3 DEF OpOK, Cleaning
  <2>. QED BY <1>4, <2>1, <2>2, <2>4
<1>. QED BY <1>2, <1>5, <1>6

LEMMA ReprepareKeeps ==
  ASSUME PackageInv, NEW j \in Known, Reprepare(j)
  PROVE  PackageInv'
<1>1. Shape /\ OpOK /\ Known \subseteq Jobs /\ job \in [Known -> Record]
  BY KnownJobs DEF PackageInv
<1>2. /\ op = Idle /\ queue = Free
      /\ UNCHANGED <<head, published, passes, downloads, lease, runner, queue, reader, request,
                     boot, faults>>
  BY DEF Reprepare
<1>3. PICK p \in Packages : p = job[j].pkg
  BY <1>1 DEF Record
<1>4. PICK k \in Known \cup {0} : k = selected[p]
  BY <1>1, <1>3 DEF Shape
<1>5. CASE k # 0
  <2>1. /\ Selected(k) /\ exec' = [exec EXCEPT ![k].origins = @ \cup {j}]
        /\ UNCHANGED <<job, child, selected>>
    BY <1>3, <1>4, <1>5, Zenon DEF Reprepare
  <2>2. k \in Known /\ k \in Jobs
    BY <1>1, <1>4, <1>5
  <2>3. PICK old \in Execution : old = exec[k]
    BY <1>1, <2>1, <2>2 DEF Shape, Selected, Held
  <2>4. PICK new : new = [old EXCEPT !.origins = @ \cup {j}]
    OBVIOUS
  <2>5. new \in Execution /\ Alike(old, new) /\ new.evidence = old.evidence
    BY <1>1, <2>4 DEF Execution, Alike
  <2>6. exec' = [exec EXCEPT ![k] = new]
    BY <1>1, <2>1, <2>2, <2>3, <2>4 DEF Shape
  <2>7. Renewed(k, new)
    BY <1>1, <2>2, <2>5, <2>6, ExecutionRenewed
  <2>8. Known' = Known
    BY <2>1 DEF Known
  <2>9. op' \in Operation /\ op'.job \in Known \cup {0} /\ OpOK'
    BY <2>1, <2>8, ReprepareOp
  <2>10. ASSUME NEW i \in Known PROVE ExecOK(i)'
    <3>1. ExecOK(i) /\ i \in Jobs
      BY <1>1 DEF PackageInv, JobOK
    <3>2. CASE i # k
      BY <1>2, <2>1, <2>7, <3>1, <3>2 DEF Renewed, ExecOK, Held, Quiet
    <3>3. CASE i = k
      <4>1. exec'[k] = new /\ Held(k)
        BY <2>1, <2>7 DEF Renewed, Selected
      <4>. QED BY <1>2, <2>1, <2>3, <2>5, <3>1, <3>3, <4>1 DEF ExecOK, Held, Quiet, Alike
    <3>. QED BY <3>2, <3>3
  <2>11. \A i \in Jobs \ Known : exec'[i] = NoExec
    BY <2>2, <2>7 DEF PackageInv, UnknownOK, Renewed
  <2>12. PassesGo
    BY <1>1, <1>2, <2>3, <2>5, <2>7 DEF PassesGo, Renewed
  <2>13. exec' \in [Jobs -> Execution \cup {NoExec}]
    BY <2>7 DEF Renewed
  <2>14. op.pc = "idle"
    BY <1>2 DEF Idle
  <2>. QED BY <1>1, <1>2, <2>1, <2>9, <2>10, <2>11, <2>12, <2>13, <2>14, ExecutionStep
           DEF durable, Shape
<1>6. CASE k = 0
  <2>1. Admits(p) /\ Enqueue(p, {j})
    BY <1>3, <1>4, <1>6, Zenon DEF Reprepare
  <2>2. {j} \in SUBSET Jobs
    BY <1>1
  <2>3. PICK n : NewJob(n, p)
    BY <1>1, <2>1, <2>2, EnqueueAdds
  <2>4. Known \subseteq Known' /\ job'[j] = job[j] /\ n \in Jobs \ Known
        /\ child' = [child EXCEPT ![n] = "whole"]
    BY <2>3 DEF NewJob
  <2>5. op' \in Operation /\ op'.job \in Known \cup {0} /\ OpOK'
    BY <2>4, ReprepareOp
  <2>6. op.pc = "idle"
    BY <1>2 DEF Idle
  <2>7. CleanupLeft
    BY <1>1, <1>2, <2>4, <2>6, BoundsAssumption DEF CleanupLeft, downloads, Shape
  <2>. QED BY <1>2, <2>3, <2>5, <2>7, NewJobKeeps
<1>. QED BY <1>5, <1>6

(***************************************************************************)
(* Downloads                                                               *)
(***************************************************************************)
\* Download r goes on as d; the operation and the other downloads stay where they are.
Seated(r, d) ==
  /\ d \in Download /\ d.job \in Known \cup {0}
  /\ reader' \in [Readers -> Download] /\ reader'[r] = d
  /\ \A s \in Readers \ {r} : reader'[s] = reader[s]

LEMMA ReaderIsSeated ==
  ASSUME Shape, NEW r \in Readers, NEW d \in Download, d.job \in Known \cup {0},
         reader' = [reader EXCEPT ![r] = d]
  PROVE  Seated(r, d)
BY DEF Shape, Seated

LEMMA ReaderGoesOn ==
  ASSUME Shape, NEW r \in Readers,
         NEW pc \in {"idle", "fence", "count", "reading", "last", "load", "remove"},
         reader' = [reader EXCEPT ![r].pc = pc]
  PROVE  \E d : Seated(r, d) /\ d.pc = pc /\ d.job = reader[r].job
<1>1. PICK old \in Download : old = reader[r] /\ old.job \in Known \cup {0}
  BY DEF Shape
<1>2. PICK d : d = [old EXCEPT !.pc = pc]
  OBVIOUS
<1>3. d \in Download /\ d.pc = pc /\ d.job = old.job
  BY <1>2 DEF Download
<1>4. reader' = [reader EXCEPT ![r] = d]
  BY <1>1, <1>2 DEF Shape
<1>. QED BY <1>1, <1>3, <1>4, ReaderIsSeated

LEMMA ReaderLeaves ==
  ASSUME Shape, NEW r \in Readers, reader' = [reader EXCEPT ![r] = IdleReader]
  PROVE  \E d : Seated(r, d) /\ d.pc = "idle"
<1>1. PICK d : d = IdleReader
  OBVIOUS
<1>2. d \in Download /\ d.job \in Known \cup {0} /\ d.pc = "idle"
  BY <1>1 DEF IdleReader, Download
<1>. QED BY <1>1, <1>2, ReaderIsSeated

\* What a download's step does to everything else.
Aside(r, j) ==
  /\ UNCHANGED <<job, head, published, memory, requested, lease, runner, op, request, boot>>
  /\ queue' \in Readers \cup {Free, OpThread}
  /\ queue = OpThread => queue' = OpThread
  /\ \A s \in Readers \ {r} : queue = s => queue' = s
  /\ readers' \in [Jobs -> Nat] /\ CleanupsGo
  /\ \A i \in Jobs \ {j} : readers'[i] = readers[i]
  /\ child' \in [Jobs -> {"absent", "whole", "partial"}]
  /\ \A i \in Jobs \ {j} : child'[i] = child[i]
  /\ child'[j] = child[j] \/ (Quiet(j) /\ readers[j] = 0)
  /\ faults' \in 0 .. MaxFaults /\ faults' >= faults

LEMMA DownloadStep ==
  ASSUME PackageInv, NEW r \in Readers, NEW j, j = reader[r].job, NEW d, Seated(r, d), Aside(r, j),
         DownloadOK(r)', \A i \in Jobs : readers'[i] = Cardinality(Reading(i)'),
         j \in Known /\ requested[j] /\ readers'[j] = 0 /\ ~Sweeping(j)'
           => \/ child'[j] = "absent" \/ faults' > 0
              \/ readers[j] = 0 /\ ~Sweeping(j) /\ child'[j] = child[j]
  PROVE  PackageInv'
<1>1. Shape /\ OpOK /\ CleanupIsNotLost /\ Known \subseteq Jobs
  BY KnownJobs DEF PackageInv
<1>2. Known' = Known
  BY DEF Known, Aside
<1>3. Shape'
  <2>1. reader' \in [Readers -> Download] /\ \A s \in Readers : reader'[s].job \in Known \cup {0}
    BY <1>1 DEF Seated, Shape
  <2>. QED BY <1>1, <1>2, <2>1 DEF Shape, Aside, memory, boot
<1>4. JobsGo
  BY <1>2 DEF JobsGo, Quiet, Aside
<1>5. OpOK'
  BY <1>4, OpStays DEF Aside, ExecsGo, Held, memory
<1>6. ASSUME NEW i \in Known PROVE JobOK(i)'
  <2>1. JobOK(i) /\ i \in Jobs
    BY <1>1 DEF PackageInv
  <2>2. CASE child'[i] = child[i]
    BY <2>1, <2>2, JobStays DEF JobSame, Aside, memory, boot
  <2>3. CASE Quiet(i)
    <3>1. Quiet(i)'
      BY <2>3 DEF Quiet, Aside
    <3>2. ExecOK(i)'
      BY <2>1, <3>1 DEF JobOK, ExecOK, Held, Aside, memory
    <3>3. job'[i].bound => RequireComplete(published'[i], RequireHuman)
      BY <2>1 DEF JobOK, Aside
    <3>. QED BY <2>1, <3>1, <3>2, <3>3 DEF JobOK, Aside, Quiet
  <2>. QED BY <2>1, <2>2, <2>3 DEF Aside
<1>7. ASSUME NEW i \in Jobs \ Known PROVE UnknownOK(i)'
  BY DEF PackageInv, UnknownOK, Aside, memory
<1>8. ASSUME NEW s \in Readers PROVE DownloadOK(s)'
  <2>1. CASE s = r
    BY <2>1
  <2>2. CASE s # r
    <3>1. reader'[s] = reader[s] /\ DownloadOK(s)
      BY <2>2 DEF Seated, PackageInv
    <3>2. CASE reader[s].pc = "idle"
      BY <3>1, <3>2 DEF DownloadOK
    <3>3. CASE reader[s].pc # "idle"
      <4>1. PICK k \in Known : k = reader[s].job /\ k \in Jobs
        BY <1>1, <3>1, <3>3 DEF DownloadOK
      <4>2. reader[s].pc \in {"fence", "count"} => queue' = s /\ job'[k].state = "running"
        BY <2>2, <3>1, <4>1 DEF DownloadOK, Aside
      <4>3. reader[s].pc = "reading" => child'[k] = "whole"
        <5>1. reader[s].pc = "reading" => child[k] = "whole" /\ readers[k] # 0
          BY <3>1, <4>1, ReadersAreCounted DEF DownloadOK
        <5>. QED BY <4>1, <5>1 DEF Aside
      <4>4. /\ reader[s].pc \in {"load", "remove"} => requested'[k]
            /\ reader[s].pc = "remove" => readers'[k] = 0
        BY <3>1, <4>1 DEF DownloadOK, Aside, CleanupsGo
      <4>. QED BY <1>2, <3>1, <4>1, <4>2, <4>3, <4>4 DEF DownloadOK
    <3>. QED BY <3>2, <3>3
  <2>. QED BY <2>1, <2>2
<1>9. CleanupIsNotLost'
  <2>. SUFFICES ASSUME NEW i \in Known, requested'[i], readers'[i] = 0, ~Sweeping(i)'
                PROVE  child'[i] = "absent" \/ faults' > 0
    BY <1>2 DEF CleanupIsNotLost
  <2>1. requested[i] /\ i \in Jobs
    BY <1>1 DEF Aside
  <2>2. i # j => ~Sweeping(i) /\ readers[i] = 0 /\ child'[i] = child[i]
    <3>1. ASSUME i # j, NEW s \in Readers, reader[s].job = i,
                 reader[s].pc \in {"last", "load", "remove"}
          PROVE  FALSE
      <4>1. s # r
        BY <3>1
      <4>2. reader'[s] = reader[s]
        BY <4>1 DEF Seated
      <4>. QED BY <3>1, <4>2 DEF Sweeping
    <3>2. ~(op.job = i /\ op.pc \in {"load", "remove"})
      BY DEF Sweeping, Aside
    <3>. QED BY <2>1, <3>1, <3>2 DEF Sweeping, Aside
  <2>3. (readers[i] = 0 /\ ~Sweeping(i) /\ child'[i] = child[i]) \/ child'[i] = "absent" \/ faults' > 0
    BY <2>1, <2>2
  <2>4. faults \in Nat /\ faults' \in Nat /\ faults' >= faults
    BY <1>1, BoundsAssumption DEF Shape, Aside
  <2>. QED BY <1>1, <2>1, <2>3, <2>4 DEF CleanupIsNotLost
<1>10. LineOK' /\ TestedOnHead'
  BY <1>4, LineStays DEF Aside
<1>11. passes' <= Cardinality(Passed')
  BY <1>3, <1>4, PassesStay DEF Aside, memory
<1>. QED BY <1>2, <1>3, <1>5, <1>6, <1>7, <1>8, <1>9, <1>10, <1>11 DEF PackageInv

LEMMA CountStays ==
  ASSUME PackageInv, NEW r \in Readers, NEW d, Seated(r, d), readers' = readers,
         reader[r].pc # "reading", d.pc # "reading"
  PROVE  \A i \in Jobs : readers'[i] = Cardinality(Reading(i)')
<1>. SUFFICES ASSUME NEW i \in Jobs PROVE readers'[i] = Cardinality(Reading(i)')
  OBVIOUS
<1>1. Reading(i)' = Reading(i)
  BY DEF Reading, Seated
<1>. QED BY <1>1 DEF PackageInv

\* A download's step that leaves the counts, the files and the failures alone.
LEMMA StandsAside ==
  ASSUME PackageInv, NEW r \in Readers, NEW j, j = reader[r].job,
         UNCHANGED <<durable, memory, downloads, lease, runner, op, request, boot, faults>>,
         queue' \in Readers \cup {Free, OpThread},
         queue = OpThread => queue' = OpThread,
         \A s \in Readers \ {r} : queue = s => queue' = s
  PROVE  Aside(r, j)
<1>1. Shape
  BY DEF PackageInv
<1>2. /\ UNCHANGED <<job, head, published, memory, requested, lease, runner, op, request, boot>>
      /\ readers' = readers /\ child' = child /\ faults' = faults /\ requested' = requested
  BY DEF durable, downloads
<1>3. faults' \in 0 .. MaxFaults /\ faults' >= faults
  BY <1>1, <1>2, BoundsAssumption DEF Shape
<1>4. readers' \in [Jobs -> Nat] /\ child' \in [Jobs -> {"absent", "whole", "partial"}]
  BY <1>1, <1>2 DEF Shape
<1>. QED BY <1>2, <1>3, <1>4 DEF Aside, CleanupsGo

LEMMA PinSelectKeeps ==
  ASSUME PackageInv, NEW r \in Readers, NEW k \in Known, PinSelect(r, k)
  PROVE  PackageInv'
<1>1. Shape /\ Known \subseteq Jobs
  BY KnownJobs DEF PackageInv
<1>2. /\ reader[r].pc = "idle" /\ queue = Free /\ job[k].state = "running"
      /\ reader' = [reader EXCEPT ![r] = [job |-> k, pc |-> "fence"]] /\ queue' = r
      /\ UNCHANGED <<durable, memory, downloads, lease, runner, op, request, boot, faults>>
  BY DEF PinSelect, Owns
<1>3. PICK d : d = [job |-> k, pc |-> "fence"]
  OBVIOUS
<1>4. d \in Download /\ d.job = k /\ d.pc = "fence"
  BY <1>1, <1>3 DEF Download
<1>5. Seated(r, d)
  BY <1>1, <1>2, <1>3, <1>4, ReaderIsSeated
<1>6. PICK j : j = reader[r].job
  OBVIOUS
<1>7. Aside(r, j)
  BY <1>2, <1>6, StandsAside, ReadersAssumption DEF Free, OpThread
<1>8. \A i \in Jobs : readers'[i] = Cardinality(Reading(i)')
  BY <1>2, <1>4, <1>5, CountStays DEF downloads
<1>9. reader'[r] = d /\ Known' = Known /\ job' = job
  BY <1>2, <1>5 DEF Seated, durable, Known
<1>10. DownloadOK(r)'
  BY <1>2, <1>4, <1>9 DEF DownloadOK
<1>11. ~Sweeping(j)' => ~Sweeping(j)
  BY <1>2, <1>5 DEF Sweeping, Seated
<1>12. readers' = readers /\ child' = child
  BY <1>2 DEF downloads, durable
<1>. QED BY <1>5, <1>6, <1>7, <1>8, <1>10, <1>11, <1>12, DownloadStep

LEMMA PinFenceKeeps ==
  ASSUME PackageInv, NEW r \in Readers, PinFence(r)
  PROVE  PackageInv'
<1>1. Shape /\ DownloadOK(r)
  BY DEF PackageInv
<1>2. /\ reader[r].pc = "fence"
      /\ UNCHANGED <<durable, memory, downloads, lease, runner, op, request, boot, faults>>
      /\ \/ reader' = [reader EXCEPT ![r] = IdleReader] /\ queue' = Free
         \/ reader' = [reader EXCEPT ![r].pc = "count"] /\ queue' = queue
  BY DEF PinFence, ToReader
<1>3. PICK j \in Known : j = reader[r].job /\ queue = r /\ job[j].state = "running"
  BY <1>1, <1>2 DEF DownloadOK
<1>4. Aside(r, j)
  BY <1>1, <1>2, <1>3, StandsAside, ReadersAssumption DEF Free, OpThread, Shape
<1>5. PICK d : Seated(r, d) /\ (d.pc = "idle" \/ (d.pc = "count" /\ d.job = j /\ queue' = queue))
  <2>1. CASE reader' = [reader EXCEPT ![r] = IdleReader]
    BY <1>1, <2>1, ReaderLeaves
  <2>2. CASE reader' = [reader EXCEPT ![r].pc = "count"] /\ queue' = queue
    <3>1. PICK d : Seated(r, d) /\ d.pc = "count" /\ d.job = reader[r].job
      BY <1>1, <2>2, ReaderGoesOn
    <3>. QED BY <1>3, <2>2, <3>1
  <2>. QED BY <1>2, <2>1, <2>2
<1>6. \A i \in Jobs : readers'[i] = Cardinality(Reading(i)')
  BY <1>2, <1>5, CountStays DEF downloads
<1>7. reader'[r] = d /\ Known' = Known /\ job' = job
  BY <1>2, <1>5 DEF Seated, durable, Known
<1>8. DownloadOK(r)'
  BY <1>3, <1>5, <1>7 DEF DownloadOK
<1>9. ~Sweeping(j)' => ~Sweeping(j)
  BY <1>2, <1>5 DEF Sweeping, Seated
<1>10. readers' = readers /\ child' = child
  BY <1>2 DEF downloads, durable
<1>. QED BY <1>3, <1>4, <1>5, <1>6, <1>8, <1>9, <1>10, DownloadStep

LEMMA PinCountKeeps ==
  ASSUME PackageInv, NEW r \in Readers, PinCount(r)
  PROVE  PackageInv'
<1>1. Shape /\ DownloadOK(r) /\ Known \subseteq Jobs
  BY KnownJobs DEF PackageInv
<1>2. /\ reader[r].pc = "count" /\ reader' = [reader EXCEPT ![r].pc = "reading"] /\ queue' = Free
      /\ readers' = [readers EXCEPT ![reader[r].job] = @ + 1]
      /\ UNCHANGED <<durable, memory, requested, lease, runner, op, request, boot, faults>>
  BY DEF PinCount, ToReader
<1>3. PICK j \in Known : j = reader[r].job /\ queue = r /\ job[j].state = "running" /\ j \in Jobs
  BY <1>1, <1>2 DEF DownloadOK
<1>4. PICK d : Seated(r, d) /\ d.pc = "reading" /\ d.job = j
  <2>1. PICK d : Seated(r, d) /\ d.pc = "reading" /\ d.job = reader[r].job
    BY <1>1, <1>2, ReaderGoesOn
  <2>. QED BY <1>3, <2>1
<1>5. /\ readers' \in [Jobs -> Nat] /\ readers'[j] = readers[j] + 1
      /\ \A i \in Jobs \ {j} : readers'[i] = readers[i]
  BY <1>1, <1>2, <1>3 DEF Shape
<1>6. ~requested[j] /\ child[j] = "whole"
  BY <1>3 DEF PackageInv, JobOK, Quiet, Unsettled
<1>7. Aside(r, j)
  <2>1. CleanupsGo
    BY <1>1, <1>2, <1>5, <1>6 DEF CleanupsGo
  <2>2. faults' \in 0 .. MaxFaults /\ faults' >= faults /\ child' = child
    BY <1>1, <1>2, BoundsAssumption DEF Shape, durable
  <2>3. /\ queue' \in Readers \cup {Free, OpThread}
        /\ queue # OpThread /\ \A s \in Readers \ {r} : queue # s
    BY <1>2, <1>3, ReadersAssumption DEF OpThread
  <2>. QED BY <1>1, <1>2, <1>5, <2>1, <2>2, <2>3 DEF Aside, durable, Shape
<1>8. reader'[r] = d /\ \A s \in Readers \ {r} : reader'[s] = reader[s]
  BY <1>4 DEF Seated
<1>9. Known' = Known /\ child' = child
  BY <1>2 DEF durable, Known
<1>10. DownloadOK(r)'
  BY <1>4, <1>6, <1>8, <1>9 DEF DownloadOK
<1>11. ASSUME NEW i \in Jobs PROVE readers'[i] = Cardinality(Reading(i)')
  <2>1. readers[i] = Cardinality(Reading(i))
    BY DEF PackageInv
  <2>2. CASE i # j
    <3>1. Reading(i)' = Reading(i)
      BY <1>2, <1>4, <1>8, <2>2 DEF Reading
    <3>. QED BY <1>5, <2>1, <2>2, <3>1
  <2>3. CASE i = j
    <3>1. PICK P, Q : P = Reading(i) /\ Q = Reading(i)'
      OBVIOUS
    <3>2. Q = P \cup {r} /\ r \notin P
      BY <1>2, <1>4, <1>8, <2>3, <3>1 DEF Reading
    <3>3. IsFiniteSet(P)
      BY <3>1, ReadingIsFinite
    <3>4. Cardinality(Q) = Cardinality(P) + 1
      BY <3>2, <3>3, FS_AddElement
    <3>. QED BY <1>5, <2>1, <2>3, <3>1, <3>4
  <2>. QED BY <2>2, <2>3
<1>. QED BY <1>3, <1>4, <1>6, <1>7, <1>10, <1>11, DownloadStep

LEMMA UnpinKeeps ==
  ASSUME PackageInv, NEW r \in Readers, Unpin(r)
  PROVE  PackageInv'
<1>1. Shape /\ DownloadOK(r) /\ Known \subseteq Jobs
  BY KnownJobs DEF PackageInv
<1>2. PICK j : j = reader[r].job
  OBVIOUS
<1>3. /\ reader[r].pc = "reading"
      /\ readers' = [readers EXCEPT ![j] = @ - 1]
      /\ reader' = [reader EXCEPT ![r] = IF readers[j] = 1 THEN [@ EXCEPT !.pc = "last"] ELSE IdleReader]
      /\ UNCHANGED <<durable, memory, requested, lease, runner, op, queue, request, boot, faults>>
  BY <1>2 DEF Unpin
<1>4. j \in Known /\ j \in Jobs /\ readers[j] \in Nat /\ readers[j] # 0
  BY <1>1, <1>2, <1>3, ReadersAreCounted DEF Shape
<1>5. /\ readers' \in [Jobs -> Nat] /\ readers'[j] = readers[j] - 1
      /\ \A i \in Jobs \ {j} : readers'[i] = readers[i]
  BY <1>1, <1>3, <1>4 DEF Shape
<1>6. PICK d : Seated(r, d) /\ d.pc \in {"last", "idle"}
              /\ (readers[j] = 1 => d.pc = "last" /\ d.job = j) /\ (d.pc = "last" => d.job = j)
  <2>1. CASE readers[j] = 1
    <3>1. reader' = [reader EXCEPT ![r].pc = "last"]
      BY <1>1, <1>3, <2>1 DEF Shape
    <3>2. PICK d : Seated(r, d) /\ d.pc = "last" /\ d.job = reader[r].job
      BY <1>1, <3>1, ReaderGoesOn
    <3>. QED BY <1>2, <3>2
  <2>2. CASE readers[j] # 1
    <3>1. reader' = [reader EXCEPT ![r] = IdleReader]
      BY <1>3, <2>2
    <3>. QED BY <1>1, <2>2, <3>1, ReaderLeaves
  <2>. QED BY <2>1, <2>2
<1>7. Aside(r, j)
  <2>1. CleanupsGo
    BY <1>1, <1>3, <1>4, <1>5 DEF CleanupsGo
  <2>2. faults' \in 0 .. MaxFaults /\ faults' >= faults /\ child' = child
    BY <1>1, <1>3, BoundsAssumption DEF Shape, durable
  <2>. QED BY <1>1, <1>3, <1>5, <2>1, <2>2 DEF Aside, durable, Shape
<1>8. reader'[r] = d /\ \A s \in Readers \ {r} : reader'[s] = reader[s]
  BY <1>6 DEF Seated
<1>9. Known' = Known
  BY <1>3 DEF durable, Known
<1>10. DownloadOK(r)'
  BY <1>4, <1>6, <1>8, <1>9 DEF DownloadOK
<1>11. ASSUME NEW i \in Jobs PROVE readers'[i] = Cardinality(Reading(i)')
  <2>1. readers[i] = Cardinality(Reading(i))
    BY DEF PackageInv
  <2>2. CASE i # j
    <3>1. Reading(i)' = Reading(i)
      BY <1>2, <1>6, <1>8, <2>2 DEF Reading
    <3>. QED BY <1>5, <2>1, <2>2, <3>1
  <2>3. CASE i = j
    <3>1. PICK P, Q : P = Reading(i) /\ Q = Reading(i)'
      OBVIOUS
    <3>2. Q = P \ {r} /\ r \in P
      BY <1>2, <1>3, <1>6, <1>8, <2>3, <3>1 DEF Reading
    <3>3. IsFiniteSet(P)
      BY <3>1, ReadingIsFinite
    <3>4. Cardinality(Q) = Cardinality(P) - 1
      BY <3>2, <3>3, FS_RemoveElement
    <3>. QED BY <1>5, <2>1, <2>3, <3>1, <3>4
  <2>. QED BY <2>2, <2>3
<1>12. readers'[j] = 0 => Sweeping(j)'
  <2>1. readers'[j] = 0 => d.pc = "last" /\ d.job = j
    BY <1>4, <1>5, <1>6
  <2>. QED BY <1>8, <2>1 DEF Sweeping
<1>. QED BY <1>2, <1>6, <1>7, <1>10, <1>11, <1>12, DownloadStep

LEMMA UnpinLastKeeps ==
  ASSUME PackageInv, NEW r \in Readers, UnpinLast(r)
  PROVE  PackageInv'
<1>1. Shape /\ DownloadOK(r)
  BY DEF PackageInv
<1>2. PICK j : j = reader[r].job
  OBVIOUS
<1>3. /\ reader[r].pc = "last"
      /\ UNCHANGED <<durable, memory, downloads, lease, runner, op, queue, request, boot, faults>>
      /\ IF requested[j] THEN reader' = [reader EXCEPT ![r].pc = "load"]
                         ELSE reader' = [reader EXCEPT ![r] = IdleReader]
  BY <1>2 DEF UnpinLast, ToReader
<1>4. j \in Known
  BY <1>1, <1>2, <1>3 DEF DownloadOK
<1>5. Aside(r, j)
  BY <1>1, <1>2, <1>3, StandsAside DEF Shape
<1>6. PICK d : /\ Seated(r, d)
               /\ (requested[j] /\ d.pc = "load" /\ d.job = j) \/ (~requested[j] /\ d.pc = "idle")
  <2>1. CASE requested[j]
    BY <1>1, <1>2, <1>3, <2>1, ReaderGoesOn
  <2>2. CASE ~requested[j]
    BY <1>1, <1>3, <2>2, ReaderLeaves
  <2>. QED BY <2>1, <2>2
<1>7. \A i \in Jobs : readers'[i] = Cardinality(Reading(i)')
  BY <1>3, <1>6, CountStays DEF downloads
<1>8. reader'[r] = d /\ Known' = Known /\ requested' = requested
  BY <1>3, <1>6 DEF Seated, durable, downloads, Known
<1>9. DownloadOK(r)'
  BY <1>4, <1>6, <1>8 DEF DownloadOK
<1>10. requested[j] => Sweeping(j)'
  BY <1>6, <1>8 DEF Sweeping
<1>. QED BY <1>2, <1>5, <1>6, <1>7, <1>9, <1>10, DownloadStep

LEMMA ReaderLoadKeeps ==
  ASSUME PackageInv, NEW r \in Readers, ReaderLoad(r)
  PROVE  PackageInv'
<1>1. Shape /\ DownloadOK(r)
  BY DEF PackageInv
<1>2. PICK j : j = reader[r].job
  OBVIOUS
<1>3. /\ reader[r].pc = "load"
      /\ UNCHANGED <<durable, memory, downloads, lease, runner, op, queue, request, boot, faults>>
      /\ IF readers[j] # 0 THEN reader' = [reader EXCEPT ![r] = IdleReader]
                           ELSE reader' = [reader EXCEPT ![r].pc = "remove"]
  BY <1>2 DEF ReaderLoad, ToReader
<1>4. j \in Known /\ requested[j]
  BY <1>1, <1>2, <1>3 DEF DownloadOK
<1>5. Aside(r, j)
  BY <1>1, <1>2, <1>3, StandsAside DEF Shape
<1>6. PICK d : /\ Seated(r, d)
               /\ (readers[j] = 0 /\ d.pc = "remove" /\ d.job = j) \/ (readers[j] # 0 /\ d.pc = "idle")
  <2>1. CASE readers[j] = 0
    BY <1>1, <1>2, <1>3, <2>1, ReaderGoesOn
  <2>2. CASE readers[j] # 0
    BY <1>1, <1>3, <2>2, ReaderLeaves
  <2>. QED BY <2>1, <2>2
<1>7. \A i \in Jobs : readers'[i] = Cardinality(Reading(i)')
  BY <1>3, <1>6, CountStays DEF downloads
<1>8. reader'[r] = d /\ Known' = Known /\ requested' = requested /\ readers' = readers
  BY <1>3, <1>6 DEF Seated, durable, downloads, Known
<1>9. DownloadOK(r)'
  BY <1>4, <1>6, <1>8 DEF DownloadOK
<1>10. readers'[j] = 0 => Sweeping(j)'
  BY <1>6, <1>8 DEF Sweeping
<1>. QED BY <1>2, <1>5, <1>6, <1>7, <1>9, <1>10, DownloadStep

LEMMA ReaderRemoveKeeps ==
  ASSUME PackageInv, NEW r \in Readers, ReaderRemove(r)
  PROVE  PackageInv'
<1>1. Shape /\ DownloadOK(r) /\ Known \subseteq Jobs
  BY KnownJobs DEF PackageInv
<1>2. PICK j : j = reader[r].job
  OBVIOUS
<1>3. /\ reader[r].pc = "remove" /\ reader' = [reader EXCEPT ![r] = IdleReader]
      /\ UNCHANGED <<job, head, published, memory, downloads, lease, runner, op, queue, request, boot>>
      /\ \/ child' = [child EXCEPT ![j] = "absent"] /\ faults' = faults
         \/ /\ faults < MaxFaults /\ faults' = faults + 1
            /\ child' = [child EXCEPT ![j] = "partial"]
  BY <1>2 DEF ReaderRemove, Fault
<1>4. j \in Known /\ j \in Jobs /\ requested[j] /\ readers[j] = 0
  BY <1>1, <1>2, <1>3 DEF DownloadOK
<1>5. Quiet(j)
  BY <1>4 DEF PackageInv, JobOK
<1>6. /\ child' \in [Jobs -> {"absent", "whole", "partial"}]
      /\ \A i \in Jobs \ {j} : child'[i] = child[i]
      /\ child'[j] = "absent" \/ faults' = faults + 1
      /\ faults' = faults \/ (faults < MaxFaults /\ faults' = faults + 1)
  BY <1>1, <1>3, <1>4 DEF Shape
<1>7. faults' \in 0 .. MaxFaults /\ faults' >= faults /\ (child'[j] = "absent" \/ faults' > 0)
  BY <1>1, <1>6, BoundsAssumption DEF Shape
<1>8. Aside(r, j)
  BY <1>1, <1>3, <1>4, <1>5, <1>6, <1>7 DEF Aside, CleanupsGo, downloads, Shape
<1>9. PICK d : Seated(r, d) /\ d.pc = "idle"
  BY <1>1, <1>3, ReaderLeaves
<1>10. \A i \in Jobs : readers'[i] = Cardinality(Reading(i)')
  BY <1>3, <1>9, CountStays DEF downloads
<1>11. DownloadOK(r)'
  BY <1>9 DEF DownloadOK, Seated
<1>. QED BY <1>2, <1>7, <1>8, <1>9, <1>10, <1>11, DownloadStep

(***************************************************************************)
(* The start of the server                                                 *)
(***************************************************************************)
\* What is in memory only is gone, and nothing is under way.
FreshMemory ==
  /\ exec = [j \in Jobs |-> NoExec] /\ selected = [p \in Packages |-> 0] /\ passes = 0
  /\ readers = [j \in Jobs |-> 0] /\ requested = [j \in Jobs |-> FALSE]
  /\ lease = [j \in Jobs |-> FALSE]
  /\ op = Idle /\ queue = Free /\ reader = [r \in Readers |-> IdleReader] /\ request = NoRequest

LEMMA FreshShape ==
  ASSUME FreshMemory
  PROVE  /\ exec \in [Jobs -> Execution \cup {NoExec}]
         /\ selected \in [Packages -> Known \cup {0}]
         /\ passes \in Nat
         /\ readers \in [Jobs -> Nat]
         /\ requested \in [Jobs -> BOOLEAN] /\ lease \in [Jobs -> BOOLEAN]
         /\ op \in Operation /\ op.job \in Known \cup {0}
         /\ queue \in Readers \cup {Free, OpThread}
         /\ reader \in [Readers -> Download]
         /\ \A r \in Readers : reader[r].job \in Known \cup {0}
         /\ request = NoRequest
<1>1. IdleReader \in Download /\ IdleReader.job = 0
  BY DEF IdleReader, Download
<1>2. Idle \in Operation /\ Idle.job = 0
  BY DEF Idle, Operation, PCs
<1>. QED BY <1>1, <1>2 DEF FreshMemory

LEMMA FreshParts ==
  ASSUME Shape, FreshMemory
  PROVE  /\ OpOK /\ \A r \in Readers : DownloadOK(r)
         /\ \A j \in Jobs : readers[j] = Cardinality(Reading(j))
         /\ \A j \in Jobs : ~requested[j] /\ ~lease[j] /\ ~Held(j)
         /\ CleanupIsNotLost
         /\ passes <= Cardinality(Passed)
<1>1. OpOK
  BY DEF FreshMemory, OpOK, Idle, Cleaning
<1>2. \A r \in Readers : reader[r].pc = "idle"
  BY DEF FreshMemory, IdleReader
<1>3. \A r \in Readers : DownloadOK(r)
  BY <1>2 DEF DownloadOK
<1>4. ASSUME NEW j \in Jobs PROVE readers[j] = Cardinality(Reading(j))
  <2>1. Reading(j) = {}
    BY <1>2 DEF Reading
  <2>. QED BY <2>1, FS_EmptySet DEF FreshMemory
<1>5. \A j \in Jobs : ~requested[j] /\ ~lease[j] /\ ~Held(j)
  BY DEF FreshMemory, Held
<1>6. CleanupIsNotLost
  BY <1>5, KnownJobs DEF CleanupIsNotLost
<1>7. PICK n, P : n = Len(job) /\ P = Passed
  OBVIOUS
<1>8. n \in Nat /\ n <= MaxJobs /\ P \in SUBSET (1 .. n)
  BY <1>7, KnownJobs DEF Passed, Known, Shape
<1>9. Cardinality(P) \in 0 .. MaxJobs
  BY <1>8, IndexSets
<1>10. passes = 0
  BY DEF FreshMemory
<1>11. 0 <= Cardinality(P)
  BY <1>9, BoundsAssumption
<1>. QED BY <1>1, <1>3, <1>4, <1>5, <1>6, <1>7, <1>10, <1>11

LEMMA InitPackages ==
  ASSUME Init
  PROVE  PackageInv
<1>1. FreshMemory
  BY DEF Init, FreshMemory
<1>2. job \in Seq(Record) /\ Len(job) = 0 /\ Known = {}
  BY DEF Init, Known
<1>3. Shape
  <2>1. /\ head \in Packages \cup {Trunk} /\ child \in [Jobs -> {"absent", "whole", "partial"}]
        /\ runner \in [Jobs -> {"none", "executing", "stopped"}]
        /\ reset \subseteq Known /\ ended \subseteq reset /\ DOMAIN published = Jobs
    BY DEF Init
  <2>2. Len(job) <= MaxJobs /\ faults \in 0 .. MaxFaults /\ restarts \in 0 .. MaxRestarts
    BY <1>2, BoundsAssumption DEF Init
  <2>. QED BY <1>1, <1>2, <2>1, <2>2, FreshShape DEF Shape
<1>4. \A j \in Jobs \ Known : UnknownOK(j)
  BY DEF Init, UnknownOK
<1>5. LineOK /\ TestedOnHead
  BY <1>2 DEF Init, LineOK, Landed, TestedOnHead
<1>. QED BY <1>1, <1>2, <1>3, <1>4, <1>5, FreshParts DEF PackageInv

LEMMA RestartKeeps ==
  ASSUME PackageInv, Restart
  PROVE  PackageInv'
<1>1. Shape /\ Known \subseteq Jobs
  BY KnownJobs DEF PackageInv
<1>2. SomeFail /\ \A i \in Known : job'[i].state \in Unsettled => job[i].bound
  BY <1>1, RestartFails DEF Shape
<1>3. /\ job' \in Seq(Record) /\ Len(job') = Len(job) /\ Known' = Known
  BY <1>2 DEF SomeFail
<1>4. FreshMemory'
  BY DEF Restart, FreshMemory
<1>5. /\ UNCHANGED <<head, child, published, runner, faults>>
      /\ restarts < MaxRestarts /\ restarts' = restarts + 1
      /\ reset' = {j \in Known : ~job[j].bound}
      /\ ended' = {j \in reset' : \/ job[j].state = "succeeded"
                                  \/ job[j].state = "failed" /\ job[j].error = "terminal"}
  BY DEF Restart
<1>6. Shape'
  <2>1. restarts' \in 0 .. MaxRestarts
    BY <1>1, <1>5, BoundsAssumption DEF Shape
  <2>2. /\ exec' \in [Jobs -> Execution \cup {NoExec}]
        /\ selected' \in [Packages -> Known' \cup {0}]
        /\ passes' \in Nat
        /\ readers' \in [Jobs -> Nat]
        /\ requested' \in [Jobs -> BOOLEAN] /\ lease' \in [Jobs -> BOOLEAN]
        /\ op' \in Operation /\ op'.job \in Known' \cup {0}
        /\ queue' \in Readers \cup {Free, OpThread}
        /\ reader' \in [Readers -> Download]
        /\ \A r \in Readers : reader'[r].job \in Known' \cup {0}
        /\ request' = NoRequest
    <3>1. IdleReader \in Download /\ IdleReader.job = 0
      BY DEF IdleReader, Download
    <3>2. Idle \in Operation /\ Idle.job = 0
      BY DEF Idle, Operation, PCs
    <3>. QED BY <1>4, <3>1, <3>2 DEF FreshMemory
  <2>3. reset' \subseteq Known' /\ ended' \subseteq reset'
    BY <1>3, <1>5
  <2>. QED BY <1>1, <1>3, <1>5, <2>1, <2>2, <2>3 DEF Shape
<1>7. JobsGo
  BY <1>2, <1>3, <1>5 DEF SomeFail, JobsGo, Quiet
<1>8. LineOK' /\ TestedOnHead'
  BY <1>5, <1>7, LineStays
<1>9. \A j \in Jobs : ~requested'[j] /\ ~lease'[j] /\ exec'[j] = NoExec /\ readers'[j] = 0
  BY <1>4 DEF FreshMemory
<1>10. ASSUME NEW i \in Known PROVE JobOK(i)'
  <2>1. JobOK(i) /\ i \in Jobs
    BY <1>1 DEF PackageInv
  <2>2. ExecOK(i)'
    BY <1>9, <2>1 DEF ExecOK, Held
  <2>3. job'[i].bound => RequireComplete(published'[i], RequireHuman)
    BY <1>2, <1>5, <2>1 DEF JobOK, SomeFail
  <2>4. job'[i].state \notin Unsettled
    <3>. SUFFICES ASSUME job'[i].state \in Unsettled PROVE FALSE
      OBVIOUS
    <3>1. job[i].bound
      BY <1>2
    <3>2. job[i].state = "succeeded"
      BY <2>1, <3>1 DEF JobOK
    <3>3. job'[i] = job[i]
      BY <1>2, <3>2 DEF SomeFail, Unsettled
    <3>. QED BY <3>2, <3>3 DEF Unsettled
  <2>5. ASSUME i \in ended' PROVE Quiet(i)'
    <3>1. job[i].state = "succeeded" \/ (job[i].state = "failed" /\ job[i].error = "terminal")
      BY <1>5, <2>5
    <3>2. runner[i] # "executing"
      BY <2>1, <3>1 DEF JobOK
    <3>. QED BY <1>5, <2>4, <3>2 DEF Quiet
  <2>6. runner'[i] = "executing" => /\ child'[i] = "whole" /\ job'[i].claimed
                                    /\ job'[i].state # "succeeded" /\ job'[i].error # "terminal"
    <3>1. CASE job'[i] = job[i]
      BY <1>5, <2>1, <3>1 DEF JobOK
    <3>2. CASE /\ job'[i].claimed = job[i].claimed /\ job'[i].state = "failed"
               /\ job'[i].error = "expired" \/ (job'[i].error = "terminal" /\ ~job[i].claimed)
      BY <1>5, <2>1, <3>2 DEF JobOK
    <3>. QED BY <1>2, <3>1, <3>2 DEF SomeFail
  <2>7. job'[i].bound => job'[i].state = "succeeded"
    BY <1>2, <2>1 DEF JobOK, SomeFail, Unsettled
  <2>. QED BY <1>9, <2>1, <2>2, <2>3, <2>4, <2>5, <2>6, <2>7 DEF JobOK
<1>11. ASSUME NEW i \in Jobs \ Known PROVE UnknownOK(i)'
  BY <1>5, <1>9 DEF PackageInv, UnknownOK
<1>12. OpOK'
  BY <1>4 DEF FreshMemory, OpOK, Idle, Cleaning
<1>13. \A r \in Readers : reader'[r].pc = "idle"
  BY <1>4 DEF FreshMemory, IdleReader
<1>14. \A r \in Readers : DownloadOK(r)'
  BY <1>13 DEF DownloadOK
<1>15. ASSUME NEW j \in Jobs PROVE readers'[j] = Cardinality(Reading(j)')
  <2>1. Reading(j)' = {}
    BY <1>13 DEF Reading
  <2>. QED BY <1>9, <2>1, FS_EmptySet
<1>16. CleanupIsNotLost'
  BY <1>1, <1>3, <1>9 DEF CleanupIsNotLost
<1>17. passes' <= Cardinality(Passed')
  <2>1. PICK n, P : n = Len(job') /\ P = Passed'
    OBVIOUS
  <2>2. n \in Nat /\ n <= MaxJobs /\ P \in SUBSET (1 .. n)
    BY <1>3, <2>1, <1>1, KnownJobs DEF Passed, Known, Shape
  <2>3. Cardinality(P) \in 0 .. MaxJobs
    BY <2>2, IndexSets
  <2>4. passes' = 0 /\ 0 <= Cardinality(P)
    BY <1>4, <2>3, BoundsAssumption DEF FreshMemory
  <2>. QED BY <2>1, <2>4
<1>. QED BY <1>3, <1>6, <1>8, <1>10, <1>11, <1>12, <1>14, <1>15, <1>16, <1>17 DEF PackageInv

LEMMA NothingKeeps ==
  ASSUME PackageInv, UNCHANGED vars
  PROVE  PackageInv'
<1>1. UNCHANGED <<durable, memory, downloads, lease, runner, op, queue, reader, request, boot, faults>>
  BY DEF vars, durable, memory, downloads, boot
<1>2. JobsGo
  BY <1>1 DEF JobsGo, Quiet, durable, Known
<1>3. OpOK'
  BY <1>1, <1>2, OpStays DEF ExecsGo, CleanupsGo, Held, memory, downloads, durable
<1>4. /\ op \in Operation /\ op.job \in Known \cup {0} /\ queue \in Readers \cup {Free, OpThread}
      /\ request = NoRequest \/ request \in [job : Known, review : Reviews]
  BY DEF PackageInv, Shape
<1>. QED BY <1>1, <1>3, <1>4, ControlStep

LEMMA NextKeeps ==
  ASSUME PackageInv, Next
  PROVE  PackageInv'
<1>1. CASE \E p \in Packages : Prepare(p)
  BY <1>1, PrepareKeeps
<1>2. ASSUME NEW j \in Known,
             \/ Claim(j) \/ Fail(j) \/ RunnerDies(j) \/ Reprepare(j) \/ Observe(j)
             \/ \E e \in {"pass", "fail"} : Complete(j, e)
             \/ \E review \in Reviews : EvidenceCheck(j, review)
             \/ \E kind \in {"finish", "abandon"}, lost \in SUBSET Leased : Begin(kind, j, lost)
      PROVE  PackageInv'
  BY <1>2, ClaimKeeps, FailKeeps, RunnerDiesKeeps, ReprepareKeeps, ObserveKeeps, CompleteKeeps,
     EvidenceCheckKeeps, BeginKeeps
<1>3. CASE \E lost \in SUBSET Leased : ReconcileRequest(lost)
  BY <1>3, ReconcileRequestKeeps
<1>4. CASE EvidenceAccept
  BY <1>4, EvidenceAcceptKeeps
<1>5. CASE OpStep
  BY <1>5, FinishLookKeeps, FinishStageKeeps, FinishCommitKeeps, FinishRetainKeeps,
     CleanupOwnerKeeps, FinishReleaseKeeps, CleanupStoreKeeps, CleanupLoadKeeps,
     CleanupRemoveKeeps, CleanupRemovedKeeps, AbandonKeeps DEF OpStep
<1>6. ASSUME NEW r \in Readers, ReaderStep(r) PROVE PackageInv'
  BY <1>6, PinFenceKeeps, PinCountKeeps, UnpinKeeps, UnpinLastKeeps, ReaderLoadKeeps,
     ReaderRemoveKeeps DEF ReaderStep
<1>7. ASSUME NEW r \in Readers, NEW j \in Known, PinSelect(r, j) PROVE PackageInv'
  BY <1>7, PinSelectKeeps
<1>8. CASE Restart
  BY <1>8, RestartKeeps
<1>. QED BY <1>1, <1>2, <1>3, <1>4, <1>5, <1>6, <1>7, <1>8 DEF Next

(***************************************************************************)
(* The theorems                                                            *)
(***************************************************************************)
\* The inductive invariant of PreparedPackages: whatever runners, reviewers, downloads,
\* operations, failing writes and restarts do, a job whose files may go is settled and its
\* runner has stopped (PreparedCiRuntime, PackageDownloads, invalidate_prepared_ci_after_restart).
THEOREM PackagesInvariant == Spec => []PackageInv
<1>1. Init => PackageInv
  BY InitPackages
<1>2. PackageInv /\ [Next]_vars => PackageInv'
  BY NextKeeps, NothingKeeps
<1>. QED BY <1>1, <1>2, PTL DEF Spec

\* The type invariant: the records, the executions and the counters of downloads keep their
\* shape (ServerWorkerJobRecord, PreparedCiExecution, PackageDownloads).  That readers
\* stays within the number of downloads and next_success_order within the number of jobs
\* is what the counting in the invariant is for.
THEOREM PackageTypes == Spec => []TypeOK
<1>1. ASSUME PackageInv PROVE TypeOK
  <2>1. Shape /\ Known \subseteq Jobs
    BY <1>1, KnownJobs DEF PackageInv
  <2>2. readers \in [Jobs -> 0 .. Cardinality(Readers)]
    <3>1. ASSUME NEW j \in Jobs PROVE readers[j] \in 0 .. Cardinality(Readers)
      <4>1. PICK P : P = Reading(j)
        OBVIOUS
      <4>2. P \subseteq Readers /\ readers[j] = Cardinality(P)
        BY <1>1, <4>1 DEF Reading, PackageInv
      <4>3. Cardinality(P) \in Nat /\ Cardinality(P) <= Cardinality(Readers)
        BY <4>1, <4>2, ReadingIsFinite, ReadersAssumption, FS_Subset
      <4>4. Cardinality(Readers) \in Nat
        BY ReadersAssumption, FS_CardinalityType
      <4>. QED BY <4>2, <4>3, <4>4
    <3>. QED BY <2>1, <3>1 DEF Shape
  <2>3. passes \in 0 .. MaxJobs
    <3>1. PICK n, P : n = Len(job) /\ P = Passed
      OBVIOUS
    <3>2. n \in Nat /\ n <= MaxJobs /\ P \in SUBSET (1 .. n)
      BY <2>1, <3>1, KnownJobs DEF Passed, Known, Shape
    <3>3. Cardinality(P) \in 0 .. MaxJobs
      BY <3>2, IndexSets
    <3>4. passes \in Nat /\ passes <= Cardinality(P)
      BY <1>1, <2>1, <3>1 DEF PackageInv, Shape
    <3>. QED BY <3>3, <3>4, BoundsAssumption
  <2>4. request.job \in Known \cup {0}
    BY <2>1 DEF Shape, NoRequest
  <2>5. \A j \in Jobs : exec[j] = NoExec \/ exec[j] \in Execution
    BY <2>1 DEF Shape
  <2>. QED BY <2>1, <2>2, <2>3, <2>4, <2>5 DEF Shape, TypeOK
<1>. QED BY <1>1, PackagesInvariant, PTL

\* The files of a job are whole while its runner works with them, also after its lease
\* expired and across restarts (abandon_prepared_ci_with_cleanup, reset_execution_stopped).
THEOREM RunnersKeepFiles == Spec => []RunnerKeepsFiles
<1>1. PackageInv => RunnerKeepsFiles
  BY DEF PackageInv, JobOK, RunnerKeepsFiles
<1>. QED BY <1>1, PackagesInvariant, PTL

\* The files of a job are whole while a download reads them: no cleanup removes them under a
\* pin (pin_download, request_cleanup, ManagedPackageDownload::drop).
THEOREM ReadersKeepFiles == Spec => []ReaderKeepsFiles
<1>1. PackageInv => ReaderKeepsFiles
  BY DEF PackageInv, DownloadOK, ReaderKeepsFiles
<1>. QED BY <1>1, PackagesInvariant, PTL

\* A requested cleanup is not lost between the operation that asked and the last download
\* that left (request_cleanup, ManagedPackageDownload::drop), in every behaviour in which no
\* write and no removal failed.
THEOREM CleanupsAreNotLost == Spec => []CleanupIsNotLost
<1>1. PackageInv => CleanupIsNotLost
  BY DEF PackageInv
<1>. QED BY <1>1, PackagesInvariant, PTL

\* No two published jobs were tested on the same base, so each was tested on what the head
\* of the line was when it was published (finish_prepared_ci).
THEOREM PublicationsTested == Spec => []TestedOnHead
<1>1. PackageInv => TestedOnHead
  BY DEF PackageInv
<1>. QED BY <1>1, PackagesInvariant, PTL

LEMMA StageGoesOn ==
  ASSUME PackageInv, FinishStage, Publishable(op.job), ~Behind(op.job)
  PROVE  op'.pc = "commit"
<1>1. Shape /\ OpOK /\ Known \subseteq Jobs
  BY KnownJobs DEF PackageInv
<1>2. /\ op.pc = "stage" /\ exec' = WithoutFailed
      /\ UNCHANGED <<durable, selected, passes, runner>>
  BY DEF FinishStage, At
<1>3. PICK j \in Known : j = op.job /\ j \in Jobs
  BY <1>1, <1>2 DEF OpOK
<1>4. /\ Eligible(exec, j) /\ RequireComplete(exec[j].actions, RequireHuman)
      /\ job[j].state = "succeeded" /\ ~job[j].bound
      /\ Verified(j) /\ head = Base[exec[j].pkg]
  BY <1>3 DEF Publishable
<1>5. ASSUME NEW i \in Known
      PROVE  \/ exec'[i] = exec[i] /\ (job[i].state = "failed" => exec[i] = NoExec)
             \/ job[i].state = "failed" /\ exec'[i].released
  <2>1. CASE Held(i) /\ job[i].state = "failed"
    <3>1. PICK old \in Execution : old = exec[i]
      BY <1>1, <2>1 DEF Shape, Held
    <3>2. PICK new : new = [old EXCEPT !.released = TRUE]
      OBVIOUS
    <3>3. new = exec'[i]
      BY <1>1, <1>2, <2>1, <3>1, <3>2 DEF WithoutFailed
    <3>4. new.released = TRUE
      BY <3>2 DEF Execution
    <3>. QED BY <2>1, <3>3, <3>4
  <2>2. CASE ~(Held(i) /\ job[i].state = "failed")
    BY <1>1, <1>2, <2>2 DEF WithoutFailed, Held
  <2>. QED BY <2>1, <2>2
<1>6. exec'[j] = exec[j]
  BY <1>4, <1>5
<1>7. Eligible(exec', j)
  BY <1>4, <1>6 DEF Eligible
<1>8. ASSUME NEW i \in Known, Eligible(exec', i), SameTarget(exec', i, j)
      PROVE  exec'[j].order <= exec'[i].order
  <2>1. exec'[i] = exec[i] /\ exec[i] # NoExec /\ job[i].state # "failed"
    BY <1>5, <1>8 DEF Eligible
  <2>2. Eligible(exec, i) /\ SameTarget(exec, i, j)
    BY <1>6, <1>8, <2>1 DEF Eligible, SameTarget
  <2>3. ~(exec[i].order < exec[j].order)
    BY <1>3, <2>1, <2>2 DEF Behind
  <2>4. exec[i] \in Execution /\ exec[j] \in Execution
    BY <1>1, <1>3, <1>4, <2>1 DEF Shape, Eligible
  <2>5. exec[i].order \in Nat /\ exec[j].order \in Nat
    BY <2>4 DEF Execution
  <2>. QED BY <1>6, <2>1, <2>3, <2>5
<1>9. Winner(exec', j)
  BY <1>7, <1>8 DEF Winner
<1>10. op' = [op EXCEPT !.pc = "commit"]
  BY <1>3, <1>4, <1>9 DEF FinishStage
<1>. QED BY <1>10, OpGoesOn DEF PCs

\* A package that has all it needs, and that nobody who can still be published is ahead of,
\* is not held up: its finish goes on to the commit (finish_prepared_ci, release_priority).
THEOREM FinishNotHeldUp == Spec => FinishIsNotHeldUp
<1>1. ASSUME PackageInv, Next, At("finish", "stage"), op' # op, restarts' = restarts,
             Publishable(op.job), ~Behind(op.job)
      PROVE  op'.pc = "commit"
  <2>1. op # Idle
    BY <1>1 DEF At, Idle
  <2>2. ~Restart
    <3>1. restarts \in Nat
      BY <1>1, BoundsAssumption DEF PackageInv, Shape
    <3>. QED BY <1>1, <3>1 DEF Restart
  <2>3. FinishStage
    BY <1>1, <2>1, <2>2
       DEF Next, OpStep, ReaderStep, Prepare, Claim, Fail, RunnerDies, Reprepare, Observe, Complete,
           EvidenceCheck, Begin, ReconcileRequest, EvidenceAccept, At,
           FinishLook, FinishCommit, FinishRetain, CleanupOwner, FinishRelease, CleanupStore,
           CleanupLoad, CleanupRemove, CleanupRemoved, Abandon,
           PinSelect, PinFence, PinCount, Unpin, UnpinLast, ReaderLoad, ReaderRemove
  <2>. QED BY <1>1, <2>3, StageGoesOn
<1>2. PackageInv /\ [Next]_vars =>
        [/\ At("finish", "stage") /\ op' # op /\ restarts' = restarts
         /\ Publishable(op.job) /\ ~Behind(op.job)
         => op'.pc = "commit"]_vars
  BY <1>1
<1>. QED BY <1>2, PackagesInvariant, PTL DEF Spec, FinishIsNotHeldUp

(***************************************************************************)
(* What the fold of the reviews computes                                   *)
(***************************************************************************)
LEMMA OrderIsWellFounded ==
  \E R : IsWellFoundedOn(R, Nat) /\ \A x, y \in Nat : y < x => <<y, x>> \in R
<1>1. \A x, y \in Nat : y < x => <<y, x>> \in OpToRel(<, Nat)
  BY DEF OpToRel
<1>. QED BY <1>1, NatLessThanWellFounded, Zenon

\* Induction up to N, on the set of the numbers for which a fact holds.
LEMMA InductionUpTo ==
  ASSUME NEW N \in Nat, NEW T, 0 \in T,
         \A n \in Nat : n < N /\ n \in T => n + 1 \in T
  PROVE  \A n \in 0 .. N : n \in T
<1>. SUFFICES ASSUME (0 .. N) \ T # {} PROVE FALSE
  OBVIOUS
<1>1. PICK R : IsWellFoundedOn(R, Nat) /\ \A x, y \in Nat : y < x => <<y, x>> \in R
  BY OrderIsWellFounded
<1>2. PICK m \in (0 .. N) \ T : \A k \in (0 .. N) \ T : ~(<<k, m>> \in R)
  <2>1. (0 .. N) \ T \subseteq Nat
    OBVIOUS
  <2>. QED BY <1>1, <2>1, WFMin
<1>3. m \in Nat /\ m # 0 /\ m - 1 \in Nat /\ m - 1 < N /\ m - 1 < m
  OBVIOUS
<1>4. m - 1 \in T
  <2>1. <<m - 1, m>> \in R
    BY <1>1, <1>3
  <2>2. m - 1 \in 0 .. N
    BY <1>3
  <2>. QED BY <1>2, <2>1, <2>2
<1>5. (m - 1) + 1 = m
  BY <1>3
<1>. QED BY <1>3, <1>4, <1>5

\* The function that Folded chooses exists.
LEMMA FoldedSteps ==
  ASSUME NEW actions, Len(actions) \in Nat
  PROVE  /\ Folded(actions)[0] = NoReviews
         /\ \A n \in 1 .. Len(actions) :
              Folded(actions)[n] = FoldReview(Folded(actions)[n - 1], actions[n])
<1>. DEFINE N == Len(actions)
            Lanes(g, n) == [k \in 0 .. n |-> IF k = 0 THEN NoReviews
                                              ELSE FoldReview(g[k - 1], actions[k])]
            Solvable(n) == \E g : g = Lanes(g, n)
            T == {n \in 0 .. N : Solvable(n)}
<1>1. 0 \in T
  <2>1. [k \in 0 .. 0 |-> NoReviews] = Lanes([k \in 0 .. 0 |-> NoReviews], 0)
    OBVIOUS
  <2>2. Solvable(0)
    BY <2>1
  <2>. HIDE DEF Solvable
  <2>. QED BY <2>2
<1>2. ASSUME NEW n \in Nat, n < N, n \in T PROVE n + 1 \in T
  <2>1. PICK g : g = Lanes(g, n)
    BY <1>2 DEF T
  <2>. DEFINE h == [k \in 0 .. n + 1 |-> IF k = n + 1 THEN FoldReview(g[n], actions[n + 1])
                                                       ELSE g[k]]
  <2>2. h = Lanes(h, n + 1)
    <3>1. ASSUME NEW k \in 0 .. n + 1
          PROVE  h[k] = IF k = 0 THEN NoReviews ELSE FoldReview(h[k - 1], actions[k])
      <4>1. CASE k = 0
        <5>1. h[k] = g[0] /\ g[0] = NoReviews
          BY <2>1, <4>1
        <5>. QED BY <4>1, <5>1
      <4>2. CASE k = n + 1
        <5>1. k # 0 /\ k - 1 = n /\ n \in 0 .. n + 1 /\ n # n + 1
          BY <4>2
        <5>2. h[k] = FoldReview(g[n], actions[n + 1]) /\ h[n] = g[n]
          BY <4>2, <5>1
        <5>. QED BY <4>2, <5>1, <5>2
      <4>3. CASE k # 0 /\ k # n + 1
        <5>1. k \in 0 .. n /\ k - 1 \in 0 .. n + 1 /\ k - 1 # n + 1
          BY <4>3
        <5>2. h[k] = g[k] /\ h[k - 1] = g[k - 1]
          BY <4>3, <5>1
        <5>3. g[k] = FoldReview(g[k - 1], actions[k])
          BY <2>1, <4>3, <5>1
        <5>. QED BY <4>3, <5>2, <5>3
      <4>. QED BY <4>1, <4>2, <4>3
    <3>. HIDE DEF h
    <3>2. h = [k \in 0 .. n + 1 |-> h[k]]
      BY DEF h
    <3>. QED BY <3>1, <3>2
  <2>3. n + 1 \in 0 .. N
    BY <1>2
  <2>. HIDE DEF h
  <2>4. Solvable(n + 1)
    BY <2>2
  <2>. HIDE DEF Solvable
  <2>. QED BY <2>3, <2>4
<1>. HIDE DEF T
<1>3. N \in T
  <2>1. \A n \in Nat : n < N /\ n \in T => n + 1 \in T
    BY <1>2
  <2>2. \A n \in 0 .. N : n \in T
    <3>. HIDE DEF N
    <3>1. N \in Nat
      BY DEF N
    <3>. QED BY <1>1, <2>1, <3>1, InductionUpTo
  <2>. QED BY <2>2
<1>4. \E g : g = Lanes(g, N)
  BY <1>3 DEF T
<1>5. Folded(actions) = CHOOSE g : g = Lanes(g, N)
  BY DEF Folded
<1>6. Folded(actions) = Lanes(Folded(actions), N)
  BY <1>4, <1>5
<1>. QED BY <1>6

TaskLanes == [blocked : BOOLEAN, approval : BOOLEAN]
GeneralLanes == [blocked : BOOLEAN, summary : BOOLEAN, approval : BOOLEAN]
ReviewState == [general : [Principals -> GeneralLanes], task : [Principals -> TaskLanes],
                invalid : BOOLEAN]

LEMMA TaskLaneMoves ==
  ASSUME NEW l \in TaskLanes, NEW e, e.blocking \in BOOLEAN, e.action \in TaskActions
  PROVE  /\ TaskLane(l, e) \in TaskLanes
         /\ Objects(e) => TaskLane(l, e).blocked /\ ~TaskLane(l, e).approval
         /\ ~Objects(e) /\ e.action = "task_approve" => TaskLane(l, e).approval
         /\ ~Objects(e) /\ e.action # "task_approve" => TaskLane(l, e) = l
<1>1. Objects(e) <=> e.blocking \/ e.action \in TaskObjections
  BY DEF Objects, TaskActions, TaskObjections, GeneralObjections
<1>. QED BY <1>1 DEF TaskLane, TaskLanes

LEMMA GeneralLaneMoves ==
  ASSUME NEW l \in GeneralLanes, NEW e, e.blocking \in BOOLEAN, e.action \in GeneralActions
  PROVE  LET m == GeneralLane(l, e)
         IN  /\ m \in GeneralLanes
             /\ Objects(e) => m.blocked /\ ~m.summary /\ ~m.approval
             /\ ~Objects(e) /\ e.action = "code_review_summary"
                  => m.summary /\ m.approval = l.approval
             /\ ~Objects(e) /\ e.action = "approve"
                  => (m.approval <=> e.by \in Humans) /\ m.summary = l.summary
             /\ ~Objects(e) /\ e.action \notin {"code_review_summary", "approve"} => m = l
<1>1. Objects(e) <=> e.blocking \/ e.action \in GeneralObjections
  BY DEF Objects, GeneralActions, TaskObjections, GeneralObjections
<1>2. CASE Objects(e)
  BY <1>1, <1>2 DEF GeneralLane, GeneralLanes
<1>3. CASE ~Objects(e) /\ e.action = "code_review_summary"
  <2>1. GeneralLane(l, e) = [l EXCEPT !.blocked = FALSE, !.summary = TRUE]
    BY <1>1, <1>3 DEF GeneralLane
  <2>. QED BY <1>3, <2>1 DEF GeneralLanes
<1>4. CASE ~Objects(e) /\ e.action = "approve"
  <2>1. GeneralLane(l, e) = [l EXCEPT !.blocked = FALSE, !.approval = e.by \in Humans]
    BY <1>1, <1>4 DEF GeneralLane
  <2>2. (e.by \in Humans) \in BOOLEAN
    OBVIOUS
  <2>. QED BY <1>4, <2>1, <2>2 DEF GeneralLanes
<1>5. CASE ~Objects(e) /\ e.action \notin {"code_review_summary", "approve"}
  <2>1. GeneralLane(l, e) = l
    BY <1>1, <1>5 DEF GeneralLane
  <2>. QED BY <1>5, <2>1
<1>. QED BY <1>2, <1>3, <1>4, <1>5

\* One review moves at most the lane of its author that its action belongs to.
LEMMA ReviewMoves ==
  ASSUME NEW s \in ReviewState, NEW e, e.blocking \in BOOLEAN, e.by \in Principals \cup {Nobody}
  PROVE  LET t == FoldReview(s, e)
         IN  /\ t \in ReviewState
             /\ s.invalid => t.invalid
             /\ ~t.invalid =>
                  /\ WellFormed(e)
                  /\ \A p \in Principals :
                       /\ t.task[p] = IF p = e.by /\ e.action \in TaskActions
                                      THEN TaskLane(s.task[p], e) ELSE s.task[p]
                       /\ t.general[p] = IF p = e.by /\ e.action \notin TaskActions
                                         THEN GeneralLane(s.general[p], e) ELSE s.general[p]
<1>1. TaskActions \cap GeneralActions = {}
  BY DEF TaskActions, GeneralActions, TaskObjections, GeneralObjections
<1>2. CASE e.by = Nobody \/ e.action \notin TaskActions \cup GeneralActions
  <2>1. FoldReview(s, e) = [s EXCEPT !.invalid = TRUE]
    BY <1>2 DEF FoldReview
  <2>. QED BY <2>1 DEF ReviewState
<1>3. CASE e.by # Nobody /\ e.action \in TaskActions
  <2>1. e.by \in Principals /\ s.task[e.by] \in TaskLanes
    BY <1>3 DEF ReviewState
  <2>2. FoldReview(s, e) = [s EXCEPT !.task[e.by] = TaskLane(s.task[e.by], e)]
    BY <1>1, <1>3 DEF FoldReview
  <2>3. TaskLane(s.task[e.by], e) \in TaskLanes
    BY <1>3, <2>1, TaskLaneMoves
  <2>. QED BY <1>3, <2>1, <2>2, <2>3 DEF ReviewState, WellFormed
<1>4. CASE e.by # Nobody /\ e.action \in GeneralActions
  <2>1. e.by \in Principals /\ s.general[e.by] \in GeneralLanes
    BY <1>4 DEF ReviewState
  <2>2. FoldReview(s, e) = [s EXCEPT !.general[e.by] = GeneralLane(s.general[e.by], e)]
    BY <1>1, <1>4 DEF FoldReview
  <2>3. GeneralLane(s.general[e.by], e) \in GeneralLanes
    BY <1>4, <2>1, GeneralLaneMoves
  <2>. QED BY <1>1, <1>4, <2>1, <2>2, <2>3 DEF ReviewState, WellFormed
<1>. QED BY <1>2, <1>3, <1>4

(* Decision i, or objection i, still counts after the first n reviews.     *)
StillMade(actions, i, n) ==
  \A k \in i + 1 .. n :
    ~(/\ actions[k].by = actions[i].by
      /\ LaneOf(actions[k]) = LaneOf(actions[i])
      /\ Objects(actions[k]))

StillOpen(actions, i, n) ==
  \A k \in i + 1 .. n :
    ~(/\ actions[k].by = actions[i].by
      /\ LaneOf(actions[k]) = LaneOf(actions[i])
      /\ Settles(actions[k]))

Made(actions, action, p, n) ==
  \E i \in 1 .. n : /\ actions[i].action = action /\ actions[i].by = p
                    /\ ~Objects(actions[i]) /\ StillMade(actions, i, n)

\* The lanes s after the first n reviews tell what stands and what counts.
LanesOK(actions, s, n) ==
  /\ s \in ReviewState
  /\ ~s.invalid =>
       /\ \A i \in 1 .. n : WellFormed(actions[i])
       /\ \A i \in 1 .. n : Objects(actions[i]) /\ StillOpen(actions, i, n) =>
            IF LaneOf(actions[i]) = "task" THEN s.task[actions[i].by].blocked
                                           ELSE s.general[actions[i].by].blocked
       /\ \A p \in Principals :
            /\ s.general[p].summary => Made(actions, "code_review_summary", p, n)
            /\ s.task[p].approval => Made(actions, "task_approve", p, n)
            /\ s.general[p].approval => p \in Humans /\ Made(actions, "approve", p, n)

\* A decision that the next review does not object to is still made, and the next review
\* may be that decision.
LEMMA DecisionStays ==
  ASSUME NEW actions, NEW n \in Nat, NEW action, NEW p,
         \/ /\ Made(actions, action, p, n)
            /\ ~(/\ actions[n + 1].by = p /\ Objects(actions[n + 1])
                 /\ (actions[n + 1].action \in TaskActions <=> action \in TaskActions))
         \/ /\ actions[n + 1].action = action /\ actions[n + 1].by = p
            /\ ~Objects(actions[n + 1])
  PROVE  Made(actions, action, p, n + 1)
<1>1. CASE actions[n + 1].action = action /\ actions[n + 1].by = p /\ ~Objects(actions[n + 1])
  <2>1. StillMade(actions, n + 1, n + 1)
    BY DEF StillMade
  <2>2. n + 1 \in 1 .. n + 1
    OBVIOUS
  <2>. QED BY <1>1, <2>1, <2>2 DEF Made
<1>2. CASE /\ Made(actions, action, p, n)
           /\ ~(/\ actions[n + 1].by = p /\ Objects(actions[n + 1])
                /\ (actions[n + 1].action \in TaskActions <=> action \in TaskActions))
  <2>1. PICK i \in 1 .. n : /\ actions[i].action = action /\ actions[i].by = p
                            /\ ~Objects(actions[i]) /\ StillMade(actions, i, n)
    BY <1>2 DEF Made
  <2>2. ASSUME NEW k \in i + 1 .. n + 1
        PROVE  ~(/\ actions[k].by = actions[i].by
                 /\ LaneOf(actions[k]) = LaneOf(actions[i])
                 /\ Objects(actions[k]))
    <3>1. CASE k \in i + 1 .. n
      BY <2>1, <3>1 DEF StillMade
    <3>2. CASE k = n + 1
      BY <1>2, <2>1, <3>2 DEF LaneOf
    <3>. QED BY <3>1, <3>2
  <2>3. StillMade(actions, i, n + 1)
    BY <2>2 DEF StillMade
  <2>4. i \in 1 .. n + 1
    OBVIOUS
  <2>. QED BY <2>1, <2>3, <2>4 DEF Made
<1>. QED BY <1>1, <1>2

\* An objection that stands after the next review stood before it, or is that review.
LEMMA ObjectionStood ==
  ASSUME NEW actions, NEW n \in Nat, NEW i \in 1 .. n, StillOpen(actions, i, n + 1)
  PROVE  /\ StillOpen(actions, i, n)
         /\ ~(/\ actions[n + 1].by = actions[i].by
              /\ LaneOf(actions[n + 1]) = LaneOf(actions[i])
              /\ Settles(actions[n + 1]))
<1>1. i + 1 .. n \subseteq i + 1 .. n + 1 /\ n + 1 \in i + 1 .. n + 1
  OBVIOUS
<1>. QED BY <1>1 DEF StillOpen

LEMMA NextReview ==
  ASSUME NEW actions, NEW n \in Nat, NEW s, LanesOK(actions, s, n),
         actions[n + 1].by \in Principals \cup {Nobody}, actions[n + 1].blocking \in BOOLEAN
  PROVE  LanesOK(actions, FoldReview(s, actions[n + 1]), n + 1)
<1>. DEFINE e == actions[n + 1]
<1>1. PICK t : t = FoldReview(s, e)
  OBVIOUS
<1>2. s \in ReviewState
  BY DEF LanesOK
<1>3. /\ t \in ReviewState
      /\ s.invalid => t.invalid
      /\ ~t.invalid =>
           /\ WellFormed(e)
           /\ \A p \in Principals :
                /\ t.task[p] = IF p = e.by /\ e.action \in TaskActions
                               THEN TaskLane(s.task[p], e) ELSE s.task[p]
                /\ t.general[p] = IF p = e.by /\ e.action \notin TaskActions
                                  THEN GeneralLane(s.general[p], e) ELSE s.general[p]
  BY <1>1, <1>2, ReviewMoves
<1>4. SUFFICES ASSUME ~t.invalid PROVE LanesOK(actions, t, n + 1)
  BY <1>1, <1>3 DEF LanesOK
<1>5. ~s.invalid /\ e.by \in Principals /\ e.action \in TaskActions \cup GeneralActions
  BY <1>3, <1>4 DEF WellFormed
<1>6. \A p \in Principals : s.task[p] \in TaskLanes /\ s.general[p] \in GeneralLanes
  BY <1>2 DEF ReviewState
<1>7. ASSUME NEW i \in 1 .. n + 1 PROVE i \in 1 .. n \/ i = n + 1
  OBVIOUS
<1>8. ASSUME NEW i \in 1 .. n + 1 PROVE WellFormed(actions[i])
  BY <1>3, <1>4, <1>5, <1>7 DEF LanesOK
<1>9. ASSUME NEW i \in 1 .. n + 1, Objects(actions[i]), StillOpen(actions, i, n + 1)
      PROVE  IF LaneOf(actions[i]) = "task" THEN t.task[actions[i].by].blocked
                                            ELSE t.general[actions[i].by].blocked
  <2>1. CASE i = n + 1
    <3>1. CASE e.action \in TaskActions
      BY <1>3, <1>4, <1>5, <1>6, <1>9, <2>1, <3>1, TaskLaneMoves DEF LaneOf
    <3>2. CASE e.action \notin TaskActions
      BY <1>3, <1>4, <1>5, <1>6, <1>9, <2>1, <3>2, GeneralLaneMoves DEF LaneOf
    <3>. QED BY <3>1, <3>2
  <2>2. CASE i \in 1 .. n
    <3>1. /\ StillOpen(actions, i, n)
          /\ ~(e.by = actions[i].by /\ LaneOf(e) = LaneOf(actions[i]) /\ Settles(e))
      BY <1>9, <2>2, ObjectionStood
    <3>2. IF LaneOf(actions[i]) = "task" THEN s.task[actions[i].by].blocked
                                         ELSE s.general[actions[i].by].blocked
      BY <1>5, <1>9, <2>2, <3>1 DEF LanesOK
    <3>3. actions[i].by \in Principals
      BY <1>8 DEF WellFormed
    <3>4. CASE ~(e.by = actions[i].by /\ LaneOf(e) = LaneOf(actions[i]))
      BY <1>3, <1>4, <3>2, <3>3, <3>4 DEF LaneOf
    <3>5. CASE e.by = actions[i].by /\ LaneOf(e) = LaneOf(actions[i])
      <4>1. ~Settles(e)
        BY <3>1, <3>5
      <4>2. CASE e.action \in TaskActions
        <5>1. t.task[e.by].blocked
          BY <1>3, <1>4, <1>5, <1>6, <3>2, <3>5, <4>1, <4>2, TaskLaneMoves DEF LaneOf, Settles
        <5>. QED BY <3>5, <4>2, <5>1 DEF LaneOf
      <4>3. CASE e.action \notin TaskActions
        <5>1. t.general[e.by].blocked
          BY <1>3, <1>4, <1>5, <1>6, <3>2, <3>5, <4>1, <4>3, GeneralLaneMoves
             DEF LaneOf, Settles
        <5>. QED BY <3>5, <4>3, <5>1 DEF LaneOf
      <4>. QED BY <4>2, <4>3
    <3>. QED BY <3>4, <3>5
  <2>. QED BY <1>7, <2>1, <2>2
<1>10. ASSUME NEW p \in Principals
       PROVE  /\ s.general[p].summary => Made(actions, "code_review_summary", p, n)
              /\ s.task[p].approval => Made(actions, "task_approve", p, n)
              /\ s.general[p].approval => p \in Humans /\ Made(actions, "approve", p, n)
  BY <1>5 DEF LanesOK
<1>11. /\ "code_review_summary" \notin TaskActions /\ "approve" \notin TaskActions
       /\ "task_approve" \in TaskActions
  BY DEF TaskActions, TaskObjections
<1>12. ASSUME NEW p \in Principals, t.general[p].summary
       PROVE  Made(actions, "code_review_summary", p, n + 1)
  <2>1. CASE p = e.by /\ e.action \notin TaskActions
    <3>1. t.general[p] = GeneralLane(s.general[p], e) /\ e.action \in GeneralActions
      BY <1>3, <1>4, <1>5, <2>1
    <3>2. ~Objects(e) /\ (e.action = "code_review_summary" \/ s.general[p].summary)
      BY <1>6, <1>12, <3>1, GeneralLaneMoves
    <3>. QED BY <1>10, <2>1, <3>2, DecisionStays
  <2>2. CASE ~(p = e.by /\ e.action \notin TaskActions)
    BY <1>3, <1>4, <1>10, <1>11, <1>12, <2>2, DecisionStays
  <2>. QED BY <2>1, <2>2
<1>13. ASSUME NEW p \in Principals, t.general[p].approval
       PROVE  p \in Humans /\ Made(actions, "approve", p, n + 1)
  <2>1. CASE p = e.by /\ e.action \notin TaskActions
    <3>1. t.general[p] = GeneralLane(s.general[p], e) /\ e.action \in GeneralActions
      BY <1>3, <1>4, <1>5, <2>1
    <3>2. ~Objects(e) /\ ((e.action = "approve" /\ p \in Humans) \/ s.general[p].approval)
      BY <1>6, <1>13, <2>1, <3>1, GeneralLaneMoves
    <3>. QED BY <1>10, <2>1, <3>2, DecisionStays
  <2>2. CASE ~(p = e.by /\ e.action \notin TaskActions)
    BY <1>3, <1>4, <1>10, <1>11, <1>13, <2>2, DecisionStays
  <2>. QED BY <2>1, <2>2
<1>14. ASSUME NEW p \in Principals, t.task[p].approval
       PROVE  Made(actions, "task_approve", p, n + 1)
  <2>1. CASE p = e.by /\ e.action \in TaskActions
    <3>1. t.task[p] = TaskLane(s.task[p], e)
      BY <1>3, <1>4, <2>1
    <3>2. ~Objects(e) /\ (e.action = "task_approve" \/ s.task[p].approval)
      BY <1>6, <1>14, <2>1, <3>1, TaskLaneMoves
    <3>. QED BY <1>10, <2>1, <3>2, DecisionStays
  <2>2. CASE ~(p = e.by /\ e.action \in TaskActions)
    BY <1>3, <1>4, <1>10, <1>11, <1>14, <2>2, DecisionStays
  <2>. QED BY <2>1, <2>2
<1>. QED BY <1>3, <1>8, <1>9, <1>12, <1>13, <1>14 DEF LanesOK

LEMMA FoldedLanes ==
  ASSUME NEW actions \in Seq(Reviews)
  PROVE  LanesOK(actions, FoldPackageReviews(actions), Len(actions))
<1>. DEFINE N == Len(actions)
            T == {n \in 0 .. N : LanesOK(actions, Folded(actions)[n], n)}
<1>1. N \in Nat /\ actions \in [1 .. N -> Reviews]
  BY SequenceIsFunction
<1>2. 0 \in T
  <2>1. NoReviews \in ReviewState
    BY DEF NoReviews, ReviewState, GeneralLanes, TaskLanes
  <2>2. \A p \in Principals : /\ ~NoReviews.general[p].summary /\ ~NoReviews.general[p].approval
                              /\ ~NoReviews.task[p].approval
    BY DEF NoReviews
  <2>3. LanesOK(actions, NoReviews, 0)
    BY <2>1, <2>2 DEF LanesOK
  <2>4. Folded(actions)[0] = NoReviews
    BY <1>1, FoldedSteps
  <2>. QED BY <1>1, <2>3, <2>4
<1>3. ASSUME NEW n \in Nat, n < N, n \in T PROVE n + 1 \in T
  <2>1. n + 1 \in 1 .. N /\ n + 1 \in 0 .. N /\ (n + 1) - 1 = n
    BY <1>1, <1>3
  <2>2. Folded(actions)[n + 1] = FoldReview(Folded(actions)[n], actions[n + 1])
    BY <1>1, <2>1, FoldedSteps
  <2>3. actions[n + 1].by \in Principals \cup {Nobody} /\ actions[n + 1].blocking \in BOOLEAN
    BY <1>1, <2>1, ReviewsAssumption
  <2>4. LanesOK(actions, FoldReview(Folded(actions)[n], actions[n + 1]), n + 1)
    BY <1>3, <2>3, NextReview
  <2>. QED BY <2>1, <2>2, <2>4
<1>. HIDE DEF T
<1>4. \A n \in 0 .. N : n \in T
  BY <1>1, <1>2, <1>3, InductionUpTo
<1>5. N \in T
  BY <1>1, <1>4
<1>. QED BY <1>5 DEF T, FoldPackageReviews

LEMMA MadeIsCurrent ==
  ASSUME NEW actions \in Seq(Reviews), NEW action, NEW authors, NEW p \in authors,
         Made(actions, action, p, Len(actions))
  PROVE  Current(actions, action, authors)
<1>1. DOMAIN actions = 1 .. Len(actions)
  BY SequenceIsFunction
<1>2. PICK i \in 1 .. Len(actions) :
        /\ actions[i].action = action /\ actions[i].by = p
        /\ ~Objects(actions[i]) /\ StillMade(actions, i, Len(actions))
  BY DEF Made
<1>3. Unanswered(actions, i, Objects)
  BY <1>2 DEF StillMade, Unanswered
<1>. QED BY <1>1, <1>2, <1>3 DEF Current

\* What require_complete accepts, said without the fold: the rule lets no standing
\* objection through and takes no decision that its author has objected to since.
LEMMA CompleteIsReviewed ==
  ASSUME NEW actions \in Seq(Reviews), NEW requireHuman \in BOOLEAN,
         RequireComplete(actions, requireHuman)
  PROVE  /\ ~Standing(actions)
         /\ Current(actions, "code_review_summary", Principals)
         /\ Current(actions, "task_approve", Principals)
         /\ requireHuman => Current(actions, "approve", Humans)
<1>1. PICK s : s = FoldPackageReviews(actions)
  OBVIOUS
<1>2. LanesOK(actions, s, Len(actions))
  BY <1>1, FoldedLanes
<1>3. ~s.invalid /\ \A p \in Principals : ~s.general[p].blocked /\ ~s.task[p].blocked
  BY <1>1 DEF RequireComplete, HasObjection
<1>4. /\ \E p \in Principals : s.general[p].summary
      /\ \E p \in Principals : s.task[p].approval
      /\ requireHuman => \E p \in Principals : s.general[p].approval
  BY <1>1 DEF RequireComplete
<1>5. DOMAIN actions = 1 .. Len(actions)
  BY SequenceIsFunction
<1>6. ASSUME NEW i \in DOMAIN actions
      PROVE  WellFormed(actions[i]) /\ ~(Objects(actions[i]) /\ Unanswered(actions, i, Settles))
  <2>1. WellFormed(actions[i]) /\ actions[i].by \in Principals
    BY <1>2, <1>3, <1>5 DEF LanesOK, WellFormed
  <2>2. ~(Objects(actions[i]) /\ StillOpen(actions, i, Len(actions)))
    BY <1>2, <1>3, <1>5, <2>1 DEF LanesOK
  <2>3. Unanswered(actions, i, Settles) => StillOpen(actions, i, Len(actions))
    BY DEF Unanswered, StillOpen
  <2>. QED BY <2>1, <2>2, <2>3
<1>7. ~Standing(actions)
  BY <1>6 DEF Standing
<1>8. \A p \in Principals :
        /\ s.general[p].summary => Made(actions, "code_review_summary", p, Len(actions))
        /\ s.task[p].approval => Made(actions, "task_approve", p, Len(actions))
        /\ s.general[p].approval => p \in Humans /\ Made(actions, "approve", p, Len(actions))
  BY <1>2, <1>3 DEF LanesOK
<1>9. Current(actions, "code_review_summary", Principals)
  BY <1>4, <1>8, MadeIsCurrent
<1>10. Current(actions, "task_approve", Principals)
  BY <1>4, <1>8, MadeIsCurrent
<1>11. requireHuman => Current(actions, "approve", Humans)
  BY <1>4, <1>8, MadeIsCurrent
<1>. QED BY <1>7, <1>9, <1>10, <1>11

PublishedReviews == \A j \in Jobs : published[j] \in Seq(Reviews)

\* What is published of a job is a sequence of the reviews that were submitted.
LEMMA PublishedStays ==
  ASSUME PackageInv, PublishedReviews, [Next]_vars
  PROVE  PublishedReviews'
<1>1. CASE UNCHANGED published
  BY <1>1 DEF PublishedReviews, Jobs
<1>2. CASE FinishCommit /\ ~UNCHANGED published
  <2>1. published' = [published EXCEPT ![op.job] = exec[op.job].actions] /\ At("finish", "commit")
    BY <1>2 DEF FinishCommit
  <2>2. op.job \in Known /\ Held(op.job) /\ DOMAIN published = Jobs
    BY <2>1 DEF PackageInv, OpOK, Shape, At
  <2>3. exec[op.job] \in Execution
    BY <2>2, KnownJobs DEF PackageInv, Shape, Held
  <2>4. exec[op.job].actions \in Seq(Reviews)
    BY <2>3 DEF Execution
  <2>. QED BY <2>1, <2>2, <2>4 DEF PublishedReviews, Jobs
<1>3. UNCHANGED published \/ FinishCommit
  BY DEF Next, OpStep, ReaderStep, Prepare, Claim, Fail, RunnerDies, Reprepare, Observe, Complete,
         EvidenceCheck, Begin, ReconcileRequest, EvidenceAccept, durable, vars,
         FinishLook, FinishStage, FinishRetain, CleanupOwner, FinishRelease, CleanupStore,
         CleanupLoad, CleanupRemove, CleanupRemoved, Abandon, Restart,
         PinSelect, PinFence, PinCount, Unpin, UnpinLast, ReaderLoad, ReaderRemove
<1>. QED BY <1>1, <1>2, <1>3

\* A job is published with all the reviews accepted for it, and they allow it: no objection
\* stands among them, and a summary, a task approval and, where one is required, a human's
\* approval are newer than the last objection of their author (with_finish_candidate,
\* require_complete).
THEOREM PublicationsReviewed == Spec => []PublishedAsReviewed
<1>1. Init => PublishedReviews
  <2>1. <<>> \in Seq(Reviews)
    OBVIOUS
  <2>. QED BY <2>1 DEF Init, PublishedReviews
<1>2. PackageInv /\ PublishedReviews => PublishedAsReviewed
  <2>1. SUFFICES ASSUME PackageInv, PublishedReviews, NEW j \in Known, job[j].bound
                 PROVE  /\ ~Standing(published[j])
                        /\ Current(published[j], "code_review_summary", Principals)
                        /\ Current(published[j], "task_approve", Principals)
                        /\ RequireHuman => Current(published[j], "approve", Humans)
                        /\ Held(j) => exec[j].actions = published[j]
    BY DEF PublishedAsReviewed
  <2>2. RequireComplete(published[j], RequireHuman)
    BY <2>1 DEF PackageInv, JobOK
  <2>3. Held(j) => exec[j].actions = published[j]
    BY <2>1 DEF PackageInv, JobOK, ExecOK
  <2>4. published[j] \in Seq(Reviews)
    BY <2>1, KnownJobs DEF PublishedReviews, PackageInv
  <2>5. RequireHuman \in BOOLEAN
    BY BoundsAssumption
  <2>. QED BY <2>2, <2>3, <2>4, <2>5, CompleteIsReviewed
<1>. QED BY <1>1, <1>2, PackagesInvariant, PublishedStays, PTL DEF Spec
=============================================================================
