------------------------ MODULE WorkerJobStoreProofs ------------------------
(***************************************************************************)
(* Proofs about WorkerJobStore, for every number of jobs, attempts and     *)
(* faults: a torn record is covered by the journal, answers are true,      *)
(* acknowledged jobs are listed, binding and publication are one, and the  *)
(* store implements WorkerJobTable.                                        *)
(*                                                                         *)
(* All of them follow from StoreInv.  DiskOK is what any crash or error    *)
(* leaves in the files.  While an operation is at work, one of the phases  *)
(* below holds: it says which steps are left and what the files have to do *)
(* with the table the operation found and the one it means to leave.       *)
(***************************************************************************)
EXTENDS WorkerJobStore, SequenceTheorems, TLAPS

-----------------------------------------------------------------------------
(* The steps left, as a path of a graph that ends in a final step.         *)

Path(t, edges, final) ==
  /\ t # <<>> /\ t[Len(t)] \in final
  /\ \A k \in 1 .. (Len(t) - 1) : <<t[k], t[k + 1]>> \in edges
Has(step) == \E k \in DOMAIN todo : todo[k] = step
AtOneOf(steps) == todo # <<>> /\ Head(todo) \in steps

UndoEdges ==
  {<<"restoreRow", "rebuildReady">>, <<"rebuildReady", "rebuildStates">>,
   <<"rebuildStates", "unlink">>, <<"unlink", "syncDirectory">>}
RecoverEdges == UndoEdges \cup
  {<<"removeTemps", "restoreRow">>, <<"removeTemps", "decide">>, <<"removeTemps", "landBegin">>,
   <<"removeTemps", "landAbort">>, <<"syncDirectory", "decide">>,
   <<"syncDirectory", "landBegin">>, <<"syncDirectory", "landAbort">>,
   <<"landAbort", "clearLock">>, <<"landAbort", "cleanRead">>}
RecoverEnds == {"decide", "landBegin", "cleanRead", "clearLock"}
RebuildEdges ==
  {<<"rewrite", "rebuildReady">>, <<"rebuildReady", "rebuildStates">>,
   <<"rebuildReady", "clearLock">>, <<"rebuildStates", "clearLock">>}
ReplaceEdges ==
  {<<"publish", "writeRow">>, <<"writeRow", "putReady">>, <<"writeRow", "putStates">>,
   <<"putReady", "putStates">>, <<"putStates", "unlink">>, <<"unlink", "syncDirectory">>,
   <<"syncDirectory", "clearLock">>}
RollbackEdges == UndoEdges \cup {<<"publish", "restoreRow">>}
EnqueueEdges ==
  {<<"append", "syncRow">>, <<"syncRow", "relate">>, <<"relate", "putReady">>,
   <<"relate", "putStates">>, <<"putReady", "putStates">>, <<"putStates", "clearLock">>}
ReindexEdges == {<<"rebuildReady", "rebuildStates">>}
LandEdges == {<<"landPublish", "landBind">>, <<"landBind", "landCommit">>}

-----------------------------------------------------------------------------
(* The files, whoever is at work.                                          *)

(* The rows of a live job are those of its record; only the record of an   *)
(* enqueue that failed may lack some, and nobody was told of it.           *)
RowsOK(j) == Live(jobs[j]) => \A x \in Indexes :
  /\ Listed(x, j) \subseteq Rows(x, j, jobs[j])
  /\ j \in acked \/ jobs[j] \notin FreshRecords => Listed(x, j) = Rows(x, j, jobs[j])

BoundIn(t) == {j \in DOMAIN t : t[j].bound}

FilesOK ==
  /\ journal # None => journal.job \in DOMAIN jobs
  /\ land # None =>
       /\ journal = None /\ land.job \in DOMAIN jobs /\ Finishable(land.before)
       /\ jobs[land.job] \in {land.before, Bound(land.before)}
  /\ \A j \in DOMAIN jobs : j # journal.job => jobs[j] \in Record /\ RowsOK(j)
  /\ \A x \in Indexes : \A row \in index[x] : row[2] \in DOMAIN jobs
  /\ acked \subseteq DOMAIN jobs

DiskOK == FilesOK /\ BoundIn(Seen) = published \ {land.job}

-----------------------------------------------------------------------------
(* The phases of an operation.                                             *)

Image == [job |-> op.job, before |-> base[op.job]]
(* The records are those of the table found, but for the one replaced.     *)
AgreeElsewhere ==
  /\ DOMAIN jobs = DOMAIN base
  /\ \A i \in DOMAIN jobs : i # op.job => jobs[i] = base[i]
Right(x) == Listed(x, op.job) = Rows(x, op.job, op.record)
Relisted(x) == Listed(x, journal.job) = Rows(x, journal.job, jobs[journal.job])

(* An undo in progress lists the restored record again before it unlinks.  *)
UndoOK ==
  /\ AtOneOf({"restoreRow", "rebuildReady", "rebuildStates", "unlink"}) => journal # None
  /\ AtOneOf({"rebuildReady", "rebuildStates", "unlink"}) => jobs = base
  /\ AtOneOf({"rebuildStates", "unlink"}) => Relisted("ready")
  /\ At("unlink") => Relisted("states")

(* A put that is left out is not needed.                                   *)
PutOK ==
  /\ \A k \in 1 .. (Len(todo) - 1) :
       todo[k] \in {"writeRow", "relate"} /\ todo[k + 1] = "putStates" => Right("ready")
  /\ AtOneOf({"putStates", "unlink", "syncDirectory", "clearLock"}) => Right("ready")
  /\ AtOneOf({"unlink", "syncDirectory", "clearLock"}) => Right("states")

Recovering ==
  /\ ~op.failed /\ onError = <<>> /\ goal = base /\ OnDisk = base
  /\ Path(todo, RecoverEdges, RecoverEnds)
  /\ At("removeTemps") => (todo[2] = "restoreRow" <=> journal # None)
  /\ UndoOK
  /\ AtOneOf({"syncDirectory", "decide", "landBegin", "landAbort", "clearLock"}) => journal = None
  /\ op.name \in Replacements \/ Has("landBegin") => op.job \in DOMAIN base
  /\ op.name \in Replacements \cup {"enqueue", "tombstone_all"} => land = None
  /\ op.name = "enqueue" => Len(base) < MaxJobs
  /\ Has("clearLock") \/ Has("cleanRead") => op.job = 0
  /\ At("clearLock") => land = None

Rebuilding ==
  /\ ~op.failed /\ onError = <<>> /\ journal = None /\ land = None /\ op.job = 0
  /\ Path(todo, RebuildEdges, {"clearLock"})
  /\ goal \in {base, Tombstoned(base)}
  /\ At("rewrite") => goal = Tombstoned(base)
  /\ jobs = IF At("rewrite") THEN base ELSE goal

Replacement ==
  /\ land = None
  /\ op.name \in Replacements /\ op.job \in DOMAIN base
  /\ Admits(op.name, base[op.job]) /\ op.record = Replaced(op.name, base[op.job])
  /\ goal = [base EXCEPT ![op.job] = op.record]

Replacing ==
  /\ Replacement /\ ~op.failed /\ PutOK
  /\ Path(todo, ReplaceEdges, {"clearLock"})
  /\ onError = IF At("publish") THEN <<>> ELSE UndoReplacement
  /\ journal = IF AtOneOf({"publish", "syncDirectory", "clearLock"}) THEN None ELSE Image
  /\ jobs = IF AtOneOf({"publish", "writeRow"}) THEN base ELSE goal

RollingBack ==
  /\ Replacement /\ op.failed /\ onError = <<>>
  /\ Path(todo, RollbackEdges, {"syncDirectory"})
  /\ AgreeElsewhere /\ UndoOK
  /\ At("publish") => \/ journal = Image
                      \/ journal = None /\ jobs = goal
  /\ AtOneOf({"restoreRow", "rebuildReady", "rebuildStates", "unlink"}) => journal = Image
  /\ At("syncDirectory") => journal = None /\ jobs = base

Addition ==
  /\ journal = None /\ land = None
  /\ op.name = "enqueue" /\ op.record \in FreshRecords
  /\ Len(base) < MaxJobs /\ op.job = Len(base) + 1 /\ goal = Append(base, op.record)

Adding ==
  /\ Addition /\ PutOK
  /\ Path(todo, EnqueueEdges, {"clearLock"})
  /\ onError = IF AtOneOf({"append", "syncRow"}) THEN <<>> ELSE <<"rebuildReady", "rebuildStates">>
  /\ jobs = IF At("append") THEN base ELSE goal

Reindexing ==
  /\ Addition /\ op.failed /\ onError = <<>> /\ jobs = goal
  /\ Path(todo, ReindexEdges, {"rebuildStates"})

Publication ==
  /\ journal = None /\ op.job \in DOMAIN base /\ Finishable(base[op.job])
  /\ land = Image
  /\ goal = [base EXCEPT ![op.job] = Bound(base[op.job])]

Landing ==
  /\ Publication /\ ~op.failed /\ onError = <<"landAbort">>
  /\ Path(todo, LandEdges, {"landCommit"})
  /\ jobs = IF At("landCommit") THEN goal ELSE base
  /\ AtOneOf({"landBind", "landCommit"}) => op.job \in published

Aborting ==
  /\ Publication /\ op.failed /\ onError = <<>> /\ todo = <<"landAbort">>
  /\ jobs \in {base, goal}

Working ==
  /\ op \in Operation /\ answer = "none"
  /\ \/ Recovering \/ Rebuilding \/ Replacing \/ RollingBack
     \/ Adding \/ Reindexing \/ Landing \/ Aborting

StoreInv ==
  /\ TypeOK /\ DiskOK
  /\ Idle => todo = <<>> /\ onError = <<>> /\ AnswersHold /\ (server = "starting" => land = None)
  /\ ~Idle => Working

-----------------------------------------------------------------------------
(* Records, tables, images.                                                *)

FileTypes ==
  /\ jobs \in Tables /\ tail \in BOOLEAN
  /\ index \in [Indexes -> SUBSET (JobStates \X Jobs)]
  /\ journal \in BeforeImage \cup {None} /\ land \in BeforeImage \cup {None}
  /\ temps \subseteq {"staging", "ready", "states", "rewrite"}
  /\ published \subseteq Jobs

LEMMA ImageIs ==
  ASSUME NEW image \in BeforeImage \cup {None}
  PROVE  /\ image = None <=> image.job = 0
         /\ image # None => image.job \in Jobs /\ image.before \in Record /\ image \in BeforeImage
         /\ None.job = 0
<1>1. None.job = 0
  BY DEF None
<1>2. ASSUME image \in BeforeImage PROVE image.job \in Jobs /\ image.before \in Record
  BY <1>2 DEF BeforeImage
<1>3. 0 \notin Jobs
  BY TableAssumption DEF Jobs
<1>. QED BY <1>1, <1>2, <1>3

LEMMA MangledIs == Mangled \notin Record
BY DEF Mangled, Record, JobStates

LEMMA TableIs ==
  ASSUME NEW t
  PROVE  /\ t \in Table <=> t \in Seq(Record) /\ Len(t) <= MaxJobs
         /\ t \in Tables <=> t \in Seq(Record \cup {Mangled}) /\ Len(t) <= MaxJobs
BY TableAssumption DEF Table, Tables

LEMMA TableDomain ==
  ASSUME NEW t \in Tables
  PROVE  /\ DOMAIN t = 1 .. Len(t) /\ Len(t) \in Nat /\ Len(t) <= MaxJobs
         /\ DOMAIN t \subseteq Jobs /\ 0 \notin DOMAIN t
         /\ t = [i \in DOMAIN t |-> t[i]]
         /\ \A i \in DOMAIN t : t[i] \in Record \cup {Mangled}
BY TableIs, TableAssumption DEF Jobs

LEMMA FunctionIsTable ==
  ASSUME NEW t \in Tables, NEW u, u = [i \in DOMAIN t |-> u[i]]
  PROVE  /\ (\A i \in DOMAIN t : u[i] \in Record) => u \in Table
         /\ (\A i \in DOMAIN t : u[i] \in Record \cup {Mangled}) => u \in Tables
<1>1. PICK n \in 0 .. MaxJobs : DOMAIN t = 1 .. n
  BY TableDomain
<1>2. ASSUME \A i \in DOMAIN t : u[i] \in Record PROVE u \in [1 .. n -> Record]
  BY <1>1, <1>2
<1>3. ASSUME \A i \in DOMAIN t : u[i] \in Record \cup {Mangled} PROVE u \in [1 .. n -> Record \cup {Mangled}]
  BY <1>1, <1>3
<1>. QED BY <1>1, <1>2, <1>3 DEF Table, Tables

LEMMA TableInTables ==
  ASSUME NEW t \in Table
  PROVE  t \in Tables /\ \A i \in DOMAIN t : t[i] \in Record
BY TableIs

LEMMA Replaces ==
  ASSUME NEW r \in Record, NEW name \in Replacements, Admits(name, r)
  PROVE  /\ Replaced(name, r) \in Record /\ Replaced(name, r).bound = r.bound
         /\ Live(r) /\ Live(Replaced(name, r))
         /\ Replaced(name, r).state # r.state
<1>. USE TableAssumption DEF Record, JobStates, Live, Active, Running, AttemptsLeft
<1>1. CASE name = "begin_attempt"
  <2>1. r.state = "queued" /\ Live(r) /\ r.attempts \in 0 .. MaxAttempts /\ r.attempts < MaxAttempts
    BY <1>1 DEF Admits
  <2>2. r.attempts + 1 \in 0 .. MaxAttempts
    BY <2>1
  <2>3. Replaced(name, r) = [r EXCEPT !.state = "running", !.attempts = r.attempts + 1]
    BY <1>1 DEF Replaced
  <2>. QED BY <2>1, <2>2, <2>3
<1>2. CASE name = "requeue"
  BY <1>2 DEF Replaced, Admits
<1>3. CASE name = "complete"
  BY <1>3 DEF Replaced, Admits
<1>4. CASE name = "fail"
  BY <1>4 DEF Replaced, Admits
<1>5. CASE name = "invalidate"
  BY <1>5 DEF Replaced, Admits
<1>. QED BY <1>1, <1>2, <1>3, <1>4, <1>5 DEF Replacements

LEMMA FreshIs ==
  ASSUME NEW r \in FreshRecords
  PROVE  r \in Record /\ ~r.bound /\ Live(r) /\ ~Finishable(r)
<1>1. PICK p \in BOOLEAN, d \in {"queued", "succeeded"} : r = Fresh(p, d) /\ (p => d = "queued")
  BY DEF FreshRecords
<1>2. 0 \in 0 .. MaxAttempts
  BY TableAssumption
<1>. QED BY <1>1, <1>2 DEF Fresh, Record, JobStates, Live, Finishable

LEMMA BoundRecord ==
  ASSUME NEW r \in Record
  PROVE  /\ Bound(r) \in Record /\ Bound(r).bound
         /\ Bound(r).state = r.state /\ Live(Bound(r)) = Live(r)
BY DEF Record, Bound, Live

LEMMA TombstonedIs ==
  ASSUME NEW t \in Table
  PROVE  /\ Tombstoned(t) \in Table /\ DOMAIN Tombstoned(t) = DOMAIN t
         /\ \A j \in DOMAIN t : ~Live(Tombstoned(t)[j]) /\ Tombstoned(t)[j].bound = t[j].bound
<1>1. \A j \in DOMAIN t : t[j] \in Record
  BY TableInTables
<1>2. \A j \in DOMAIN t : [t[j] EXCEPT !.tomb = TRUE] \in Record
  BY <1>1 DEF Record
<1>3. Tombstoned(t) \in Table
  BY <1>2, TableInTables, FunctionIsTable DEF Tombstoned
<1>. QED BY <1>1, <1>3 DEF Tombstoned, Live, Record

(* The rows of a record.                                                   *)
LEMMA RowsAre ==
  ASSUME NEW x, NEW j, NEW r \in Record
  PROVE  /\ \A row \in Rows(x, j, r) : row[2] = j
         /\ j \in Jobs => Rows(x, j, r) \subseteq JobStates \X Jobs
         /\ ~Live(r) => Rows(x, j, r) = {}
BY DEF Rows, Record

LEMMA SameRows ==
  ASSUME NEW x, NEW j, NEW r \in Record, NEW s \in Record, Live(r) = Live(s), r.state = s.state
  PROVE  Rows(x, j, r) = Rows(x, j, s)
BY DEF Rows

-----------------------------------------------------------------------------
(* Paths.                                                                  *)
LEMMA SeqLength ==
  ASSUME NEW S, NEW t \in Seq(S)
  PROVE  Len(t) \in Nat /\ (t = <<>> <=> Len(t) = 0)
BY EmptySeq

LEMMA PathStep ==
  ASSUME NEW t \in Seq(Steps), NEW edges, NEW final, Path(t, edges, final), Len(t) # 1
  PROVE  /\ Tail(t) \in Seq(Steps) /\ Path(Tail(t), edges, final)
         /\ <<Head(t), Head(Tail(t))>> \in edges
         /\ Tail(t) # <<>> /\ Len(Tail(t)) = Len(t) - 1 /\ Head(Tail(t)) = t[2]
         /\ \A k \in 1 .. (Len(t) - 1) : Tail(t)[k] = t[k + 1]
<1>0. t # <<>>
  BY DEF Path
<1>1. Len(t) \in Nat /\ Len(t) > 1
  <2>1. Len(t) \in Nat /\ Len(t) # 0
    BY <1>0, SeqLength, Zenon
  <2>2. \A n \in Nat : n # 0 /\ n # 1 => n > 1
    OBVIOUS
  <2>. QED BY <2>1, <2>2
<1>2. /\ Tail(t) \in Seq(Steps) /\ Len(Tail(t)) = Len(t) - 1
      /\ \A k \in 1 .. (Len(t) - 1) : Tail(t)[k] = t[k + 1]
  BY <1>1
<1>3. Tail(t) # <<>> /\ Head(Tail(t)) = t[2] /\ Head(t) = t[1]
  <2>1. Len(Tail(t)) # 0 /\ Head(Tail(t)) = Tail(t)[1]
    BY <1>1, <1>2
  <2>2. Tail(t)[1] = t[2]
    BY <1>1, <1>2
  <2>3. Tail(t) # <<>> /\ Head(t) = t[1]
    BY <1>1, <1>2, <2>1, SeqLength
  <2>. QED BY <2>1, <2>2, <2>3
<1>4. <<t[1], t[2]>> \in edges
  BY <1>1 DEF Path
<1>5. Path(Tail(t), edges, final)
  BY <1>1, <1>2, <1>3 DEF Path
<1>. QED BY <1>2, <1>3, <1>4, <1>5

LEMMA PathEnd ==
  ASSUME NEW t \in Seq(Steps), NEW edges, NEW final, Path(t, edges, final)
  PROVE  /\ t # <<>> /\ Head(t) \in Steps
         /\ Len(t) = 1 => Head(t) \in final
BY DEF Path

LEMMA PathHead ==
  ASSUME NEW t \in Seq(Steps), NEW edges, NEW final, Path(t, edges, final)
  PROVE  t # <<>> /\ (Head(t) \in final \/ \E s : <<Head(t), s>> \in edges)
<1>1. CASE Len(t) = 1
  BY <1>1, PathEnd
<1>2. CASE Len(t) # 1
  <2>1. <<Head(t), Head(Tail(t))>> \in edges
    BY <1>2, PathStep
  <2>. QED BY <2>1, PathEnd
<1>. QED BY <1>1, <1>2

(* Paths are joined by an edge; a larger graph has more of them.           *)
LEMMA PathOne ==
  ASSUME NEW s \in Steps, NEW edges
  PROVE  /\ <<s>> \in Seq(Steps) /\ Len(<<s>>) = 1 /\ Head(<<s>>) = s /\ <<s>>[1] = s
         /\ Path(<<s>>, edges, {s})
BY DEF Path

LEMMA PathJoin ==
  ASSUME NEW a \in Seq(Steps), NEW b \in Seq(Steps), NEW edges, NEW s, NEW final,
         Path(a, edges, {s}), Path(b, edges, final), <<s, Head(b)>> \in edges
  PROVE  /\ a \o b \in Seq(Steps) /\ Path(a \o b, edges, final) /\ Head(a \o b) = Head(a)
         /\ Len(a \o b) = Len(a) + Len(b) /\ Len(a \o b) # 1
         /\ (a \o b)[2] = IF Len(a) = 1 THEN Head(b) ELSE a[2]
<1>1. Len(a) \in Nat /\ Len(b) \in Nat /\ Len(a) # 0 /\ Len(b) # 0
  BY SeqLength DEF Path
<1>2. Head(a) = a[1] /\ Head(b) = b[1]
  BY <1>1
<1>. DEFINE c == a \o b
<1>3. /\ c \in Seq(Steps) /\ Len(c) = Len(a) + Len(b)
      /\ \A i \in 1 .. Len(c) : c[i] = IF i <= Len(a) THEN a[i] ELSE b[i - Len(a)]
  BY ConcatProperties
<1>. HIDE DEF c
<1>4. c # <<>> /\ Head(c) = c[1] /\ c[1] = a[1] /\ Len(c) # 1
  BY <1>1, <1>3
<1>5. c[2] = IF Len(a) = 1 THEN Head(b) ELSE a[2]
  <2>1. 2 \in 1 .. Len(c) /\ (Len(a) = 1 => ~(2 <= Len(a)) /\ 2 - Len(a) = 1) /\ (Len(a) # 1 => 2 <= Len(a))
    <3>1. \A m, n \in Nat : m # 0 /\ n # 0 => 2 \in 1 .. (m + n)
      OBVIOUS
    <3>2. \A m \in Nat : (m = 1 => ~(2 <= m) /\ 2 - m = 1) /\ (m # 0 /\ m # 1 => 2 <= m)
      OBVIOUS
    <3>. QED BY <1>1, <1>3, <3>1, <3>2
  <2>2. c[2] = IF 2 <= Len(a) THEN a[2] ELSE b[2 - Len(a)]
    BY <1>3, <2>1
  <2>3. CASE Len(a) = 1
    <3>1. c[2] = b[1]
      BY <2>1, <2>2, <2>3
    <3>. QED BY <1>2, <2>3, <3>1
  <2>. QED BY <2>1, <2>2, <2>3
<1>6. c[Len(c)] = b[Len(b)]
  BY <1>1, <1>3
<1>7. ASSUME NEW k \in 1 .. (Len(c) - 1) PROVE <<c[k], c[k + 1]>> \in edges
  <2>1. CASE k < Len(a)
    <3>1. c[k] = a[k] /\ c[k + 1] = a[k + 1] /\ k \in 1 .. (Len(a) - 1)
      BY <1>1, <1>3, <2>1
    <3>. QED BY <3>1 DEF Path
  <2>2. CASE k = Len(a)
    <3>0. k \in 1 .. Len(c) /\ k + 1 \in 1 .. Len(c) /\ ~(k + 1 <= Len(a)) /\ (k + 1) - Len(a) = 1
      BY <1>1, <1>3, <2>2
    <3>1. c[k] = a[Len(a)]
      BY <1>1, <1>3, <2>2, <3>0
    <3>2. c[k + 1] = b[1]
      BY <1>3, <3>0
    <3>. QED BY <1>2, <3>1, <3>2 DEF Path
  <2>3. CASE k > Len(a)
    <3>1. k \in Nat /\ k - Len(a) \in 1 .. (Len(b) - 1) /\ (k + 1) - Len(a) = (k - Len(a)) + 1
      BY <1>1, <1>3, <2>3
    <3>2. c[k] = b[k - Len(a)] /\ c[k + 1] = b[(k - Len(a)) + 1]
      BY <1>1, <1>3, <2>3, <3>1
    <3>. QED BY <3>1, <3>2 DEF Path
  <2>. QED BY <1>1, <1>3, <2>1, <2>2, <2>3
<1>. QED BY <1>2, <1>3, <1>4, <1>5, <1>6, <1>7 DEF Path, c

LEMMA PathTwo ==
  ASSUME NEW r \in Steps, NEW s \in Steps, NEW edges, <<r, s>> \in edges
  PROVE  /\ <<r, s>> \in Seq(Steps) /\ Head(<<r, s>>) = r /\ Len(<<r, s>>) = 2
         /\ Path(<<r, s>>, edges, {s})
BY DEF Path

LEMMA PathThree ==
  ASSUME NEW q \in Steps, NEW r \in Steps, NEW s \in Steps, NEW edges,
         <<q, r>> \in edges, <<r, s>> \in edges
  PROVE  /\ <<q, r, s>> \in Seq(Steps) /\ Head(<<q, r, s>>) = q /\ Path(<<q, r, s>>, edges, {s})
<1>. DEFINE t == <<q, r, s>>
<1>1. t \in Seq(Steps) /\ Len(t) = 3 /\ t[1] = q /\ t[2] = r /\ t[3] = s /\ Head(t) = q /\ t # <<>>
  OBVIOUS
<1>. HIDE DEF t
<1>2. ASSUME NEW k \in 1 .. (Len(t) - 1) PROVE k = 1 \/ k = 2
  BY <1>1
<1>3. \A k \in 1 .. (Len(t) - 1) : <<t[k], t[k + 1]>> \in edges
  <2>. SUFFICES ASSUME NEW k \in 1 .. (Len(t) - 1) PROVE <<t[k], t[k + 1]>> \in edges
    OBVIOUS
  <2>1. CASE k = 1
    BY <1>1, <2>1
  <2>2. CASE k = 2
    BY <1>1, <2>2
  <2>. QED BY <1>2, <2>1, <2>2
<1>. QED BY <1>1, <1>3 DEF Path, t

LEMMA PathWider ==
  ASSUME NEW t \in Seq(Steps), NEW edges, NEW final, NEW more, NEW ends,
         Path(t, edges, final), edges \subseteq more, final \subseteq ends
  PROVE  Path(t, more, ends)
BY DEF Path

LEMMA PathSteps ==
  ASSUME NEW t \in Seq(Steps), NEW edges, NEW final, Path(t, edges, final), NEW k \in DOMAIN t
  PROVE  t[k] \in final \/ \E s : <<t[k], s>> \in edges
<1>1. CASE k = Len(t)
  BY <1>1 DEF Path
<1>2. CASE k # Len(t)
  <2>1. k \in 1 .. (Len(t) - 1)
    BY <1>2
  <2>. QED BY <2>1 DEF Path
<1>. QED BY <1>1, <1>2

-----------------------------------------------------------------------------
(* What restoring images gives.                                            *)

LEMMA RestoredIs ==
  ASSUME NEW t \in Tables, NEW image \in BeforeImage \cup {None}, image # None => image.job \in DOMAIN t
  PROVE  /\ image = None => Restored(t, image) = t
         /\ Restored(t, image) \in Tables /\ DOMAIN Restored(t, image) = DOMAIN t
         /\ image # None => Restored(t, image)[image.job] = image.before
         /\ \A i \in DOMAIN t : i # image.job => Restored(t, image)[i] = t[i]
<1>1. CASE image = None
  BY <1>1 DEF Restored
<1>2. CASE image # None
  <2>. DEFINE u == Restored(t, image)
  <2>1. u = [t EXCEPT ![image.job] = image.before] /\ image.job \in DOMAIN t /\ image.before \in Record
    BY <1>2, ImageIs DEF Restored
  <2>2. t = [i \in DOMAIN t |-> t[i]] /\ \A i \in DOMAIN t : t[i] \in Record \cup {Mangled}
    BY TableDomain
  <2>3. /\ u = [i \in DOMAIN t |-> u[i]] /\ DOMAIN u = DOMAIN t
        /\ u[image.job] = image.before /\ \A i \in DOMAIN t : i # image.job => u[i] = t[i]
    BY <2>1, <2>2
  <2>. HIDE DEF u
  <2>4. u \in Tables
    <3>1. \A i \in DOMAIN t : u[i] \in Record \cup {Mangled}
      BY <2>1, <2>2, <2>3
    <3>. QED BY <2>3, <3>1, FunctionIsTable
  <2>. QED BY <1>2, <2>3, <2>4 DEF u
<1>. QED BY <1>1, <1>2

LEMMA SameTable ==
  ASSUME NEW t \in Tables, NEW u \in Tables, DOMAIN t = DOMAIN u, \A i \in DOMAIN t : t[i] = u[i]
  PROVE  t = u
BY TableDomain

(* The table before a change, from an image of the record changed.         *)
LEMMA RestoredTo ==
  ASSUME NEW t \in Tables, NEW b \in Tables, NEW image \in BeforeImage,
         DOMAIN t = DOMAIN b, image.job \in DOMAIN b, image.before = b[image.job],
         \A i \in DOMAIN b : i # image.job => t[i] = b[i]
  PROVE  Restored(t, image) = b
<1>1. image # None
  BY ImageIs, TableAssumption DEF BeforeImage, None, Jobs
<1>. QED BY <1>1, RestoredIs, SameTable

LEMMA OnDiskIs ==
  ASSUME FileTypes, FilesOK
  PROVE  /\ journal = None /\ land = None => OnDisk = jobs
         /\ journal # None => OnDisk = Restored(jobs, journal) /\ land = None
         /\ land # None => OnDisk = Restored(jobs, land) /\ journal = None
         /\ OnDisk \in Table /\ DOMAIN OnDisk = DOMAIN jobs
         /\ \A i \in DOMAIN jobs : i \notin {journal.job, land.job} => OnDisk[i] = jobs[i]
<1>1. CASE journal = None
  <2>1. Restored(jobs, journal) = jobs
    BY <1>1 DEF Restored
  <2>2. OnDisk = Restored(jobs, land) /\ (land = None => OnDisk = jobs)
    BY <2>1 DEF OnDisk, Restored
  <2>3. OnDisk \in Tables /\ DOMAIN OnDisk = DOMAIN jobs
        /\ (land # None => OnDisk[land.job] = land.before)
        /\ \A i \in DOMAIN jobs : i # land.job => OnDisk[i] = jobs[i]
    BY <2>2, RestoredIs DEF FileTypes, FilesOK
  <2>4. \A i \in DOMAIN jobs : jobs[i] \in Record
    BY <1>1, ImageIs, TableDomain DEF FileTypes, FilesOK
  <2>5. \A i \in DOMAIN OnDisk : OnDisk[i] \in Record
    <3>1. land # None => land.before \in Record
      BY ImageIs DEF FileTypes
    <3>2. land = None => 0 = land.job
      BY DEF None
    <3>3. 0 \notin DOMAIN jobs
      BY TableDomain DEF FileTypes
    <3>. QED BY <2>3, <2>4, <3>1, <3>2, <3>3
  <2>6. OnDisk \in Table
    BY <2>3, <2>5, FunctionIsTable, TableDomain
  <2>. QED BY <1>1, <2>2, <2>3, <2>6
<1>2. CASE journal # None
  <2>1. land = None
    BY <1>2 DEF FilesOK
  <2>2. OnDisk = Restored(jobs, journal)
    BY <2>1 DEF OnDisk, Restored
  <2>3. OnDisk \in Tables /\ DOMAIN OnDisk = DOMAIN jobs /\ OnDisk[journal.job] = journal.before
        /\ \A i \in DOMAIN jobs : i # journal.job => OnDisk[i] = jobs[i]
    BY <1>2, <2>2, RestoredIs DEF FileTypes, FilesOK
  <2>4. \A i \in DOMAIN OnDisk : OnDisk[i] \in Record
    BY <1>2, <2>3, ImageIs DEF FileTypes, FilesOK
  <2>5. OnDisk \in Table
    BY <2>3, <2>4, FunctionIsTable, TableDomain
  <2>. QED BY <1>2, <2>1, <2>2, <2>3, <2>5
<1>. QED BY <1>1, <1>2

-----------------------------------------------------------------------------
(* What a change of the files keeps.                                       *)

LEMMA SameRowsOK ==
  ASSUME NEW j, RowsOK(j), jobs'[j] = jobs[j], acked' = acked,
         \A x \in Indexes : Listed(x, j)' = Listed(x, j)
  PROVE  RowsOK(j)'
BY DEF RowsOK

LEMMA TempsChange ==
  ASSUME FileTypes, FilesOK, UNCHANGED <<jobs, index, journal, land, published, acked>>,
         tail' \in BOOLEAN, temps' \subseteq {"staging", "ready", "states", "rewrite"}
  PROVE  FileTypes' /\ FilesOK' /\ OnDisk' = OnDisk
<1>1. FileTypes'
  BY DEF FileTypes
<1>2. FilesOK'
  BY SameRowsOK DEF FilesOK, Listed
<1>. QED BY <1>1, <1>2 DEF OnDisk

LEMMA ImageChange ==
  ASSUME FileTypes, FilesOK, UNCHANGED <<jobs, tail, index, land, published, acked>>,
         journal' \in BeforeImage, journal'.job \in DOMAIN jobs, journal.job \in {0, journal'.job},
         land = None, temps' \subseteq {"staging", "ready", "states", "rewrite"}
  PROVE  FileTypes' /\ FilesOK'
<1>1. FileTypes'
  BY DEF FileTypes
<1>2. 0 \notin DOMAIN jobs
  BY TableDomain DEF FileTypes
<1>3. \A j \in DOMAIN jobs : j # journal'.job => jobs[j] \in Record /\ RowsOK(j)'
  BY <1>2, SameRowsOK DEF FilesOK, Listed
<1>. QED BY <1>1, <1>3 DEF FilesOK

LEMMA RowChange ==
  ASSUME FileTypes, FilesOK, journal # None, NEW r \in Record \cup {Mangled},
         jobs' = [jobs EXCEPT ![journal.job] = r],
         UNCHANGED <<tail, index, journal, temps, land, published, acked>>
  PROVE  /\ FileTypes' /\ FilesOK' /\ OnDisk' = OnDisk
         /\ DOMAIN jobs' = DOMAIN jobs /\ jobs'[journal.job] = r
         /\ \A i \in DOMAIN jobs : i # journal.job => jobs'[i] = jobs[i]
<1>1. journal.job \in DOMAIN jobs /\ journal \in BeforeImage /\ land = None
  BY ImageIs DEF FileTypes, FilesOK
<1>2. jobs = [i \in DOMAIN jobs |-> jobs[i]] /\ \A i \in DOMAIN jobs : jobs[i] \in Record \cup {Mangled}
  BY TableDomain DEF FileTypes
<1>3. /\ jobs' = [i \in DOMAIN jobs |-> jobs'[i]] /\ DOMAIN jobs' = DOMAIN jobs
      /\ jobs'[journal.job] = r
      /\ \A i \in DOMAIN jobs : i # journal.job => jobs'[i] = jobs[i]
  BY <1>1, <1>2
<1>4. jobs' \in Tables
  BY <1>2, <1>3, FunctionIsTable DEF FileTypes
<1>5. FileTypes'
  BY <1>4 DEF FileTypes
<1>6. FilesOK'
  <2>1. \A j \in DOMAIN jobs : j # journal.job => jobs'[j] \in Record /\ RowsOK(j)'
    BY <1>3, SameRowsOK DEF FilesOK, Listed
  <2>. QED BY <1>1, <1>3, <2>1 DEF FilesOK
<1>7. OnDisk' = OnDisk
  <2>. DEFINE b == Restored(jobs, journal)
  <2>1. b \in Tables /\ DOMAIN b = DOMAIN jobs /\ b[journal.job] = journal.before
        /\ \A i \in DOMAIN jobs : i # journal.job => b[i] = jobs[i]
    BY <1>1, RestoredIs DEF FileTypes
  <2>. HIDE DEF b
  <2>2. Restored(jobs', journal) = b
    BY <1>1, <1>3, <1>4, <2>1, RestoredTo
  <2>. QED BY <2>2 DEF OnDisk, b
<1>. QED BY <1>3, <1>5, <1>6, <1>7

(* An index is rewritten: for one job, or for all of them.                 *)
LEMMA PutChange ==
  ASSUME FileTypes, FilesOK, NEW x \in Indexes, op.record \in Record, op.job \in DOMAIN jobs,
         index' = [index EXCEPT ![x] = Prepared(x)], op.job # journal.job => jobs[op.job] = op.record,
         UNCHANGED <<jobs, tail, journal, land, published, acked>>,
         temps' \subseteq {"staging", "ready", "states", "rewrite"}
  PROVE  /\ FileTypes' /\ FilesOK' /\ OnDisk' = OnDisk
         /\ {row \in index'[x] : row[2] = op.job} = Rows(x, op.job, op.record)
         /\ \A y \in Indexes : y # x => index'[y] = index[y]
<1>1. op.job \in Jobs
  BY TableDomain DEF FileTypes
<1>2. /\ Rows(x, op.job, op.record) \subseteq JobStates \X Jobs
      /\ \A row \in Rows(x, op.job, op.record) : row[2] = op.job
  BY <1>1, RowsAre
<1>3. /\ index' \in [Indexes -> SUBSET (JobStates \X Jobs)]
      /\ index'[x] = (index[x] \ Listed(x, op.job)) \cup Rows(x, op.job, op.record)
      /\ \A y \in Indexes : y # x => index'[y] = index[y]
  BY <1>2 DEF FileTypes, Prepared
<1>4. FileTypes'
  BY <1>3 DEF FileTypes
<1>5. {row \in index'[x] : row[2] = op.job} = Rows(x, op.job, op.record)
  BY <1>2, <1>3 DEF Listed
<1>6. \A j \in DOMAIN jobs : j # op.job => \A y \in Indexes : Listed(y, j)' = Listed(y, j)
  BY <1>2, <1>3 DEF Listed
<1>7. \A y \in Indexes : \A row \in index'[y] : row[2] \in DOMAIN jobs
  BY <1>2, <1>3 DEF FilesOK
<1>8. \A j \in DOMAIN jobs : j # journal.job => RowsOK(j)'
  <2>. SUFFICES ASSUME NEW j \in DOMAIN jobs, j # journal.job PROVE RowsOK(j)'
    OBVIOUS
  <2>1. CASE j # op.job
    BY <1>6, <2>1, SameRowsOK DEF FilesOK
  <2>2. CASE j = op.job
    <3>1. RowsOK(j) /\ jobs'[j] = jobs[j] /\ jobs[j] = op.record /\ acked' = acked
      BY <2>2 DEF FilesOK
    <3>2. Listed(x, j)' = Rows(x, j, jobs'[j])
      BY <1>5, <2>2, <3>1 DEF Listed
    <3>3. \A y \in Indexes : y # x => Listed(y, j)' = Listed(y, j)
      BY <1>3 DEF Listed
    <3>. QED BY <3>1, <3>2, <3>3 DEF RowsOK
  <2>. QED BY <2>1, <2>2
<1>9. FilesOK'
  BY <1>7, <1>8 DEF FilesOK
<1>. QED BY <1>3, <1>4, <1>5, <1>9 DEF OnDisk, Listed

LEMMA RebuildChange ==
  ASSUME FileTypes, FilesOK, NEW x \in Indexes, \A j \in DOMAIN jobs : jobs[j] \in Record,
         index' = [index EXCEPT ![x] = Expected(x)],
         UNCHANGED <<jobs, tail, journal, land, published, acked>>,
         temps' \subseteq {"staging", "ready", "states", "rewrite"}
  PROVE  /\ FileTypes' /\ FilesOK' /\ OnDisk' = OnDisk
         /\ \A j \in DOMAIN jobs : Listed(x, j)' = Rows(x, j, jobs[j])
         /\ \A y \in Indexes : y # x => index'[y] = index[y]
<1>1. DOMAIN jobs \subseteq Jobs
  BY TableDomain DEF FileTypes
<1>2. \A j \in DOMAIN jobs : /\ Rows(x, j, jobs[j]) \subseteq JobStates \X Jobs
                             /\ \A row \in Rows(x, j, jobs[j]) : row[2] = j
  BY <1>1, RowsAre
<1>3. /\ Expected(x) \subseteq JobStates \X Jobs
      /\ \A j \in DOMAIN jobs : {row \in Expected(x) : row[2] = j} = Rows(x, j, jobs[j])
      /\ \A row \in Expected(x) : row[2] \in DOMAIN jobs
  BY <1>2 DEF Expected
<1>4. /\ index' \in [Indexes -> SUBSET (JobStates \X Jobs)] /\ index'[x] = Expected(x)
      /\ \A y \in Indexes : y # x => index'[y] = index[y]
  BY <1>3 DEF FileTypes
<1>5. FileTypes'
  BY <1>4 DEF FileTypes
<1>6. \A j \in DOMAIN jobs : Listed(x, j)' = Rows(x, j, jobs[j])
  BY <1>3, <1>4 DEF Listed
<1>7. \A y \in Indexes : \A row \in index'[y] : row[2] \in DOMAIN jobs
  BY <1>3, <1>4 DEF FilesOK
<1>8. \A j \in DOMAIN jobs : j # journal.job => RowsOK(j)'
  <2>. SUFFICES ASSUME NEW j \in DOMAIN jobs, j # journal.job PROVE RowsOK(j)'
    OBVIOUS
  <2>1. RowsOK(j) /\ jobs'[j] = jobs[j] /\ acked' = acked
    BY DEF FilesOK
  <2>2. \A y \in Indexes : y # x => Listed(y, j)' = Listed(y, j)
    BY <1>4 DEF Listed
  <2>. QED BY <1>6, <2>1, <2>2 DEF RowsOK
<1>9. FilesOK'
  BY <1>7, <1>8 DEF FilesOK
<1>. QED BY <1>4, <1>5, <1>6, <1>9 DEF OnDisk

LEMMA UnlinkChange ==
  ASSUME FileTypes, FilesOK, journal # None, journal' = None,
         jobs[journal.job] \in Record, \A x \in Indexes : Relisted(x),
         UNCHANGED <<jobs, tail, index, temps, land, published, acked>>
  PROVE  FileTypes' /\ FilesOK' /\ OnDisk' = jobs
<1>1. FileTypes'
  BY DEF FileTypes
<1>2. journal.job \in DOMAIN jobs /\ land = None
  BY DEF FilesOK
<1>3. RowsOK(journal.job)
  BY DEF RowsOK, Relisted
<1>4. \A j \in DOMAIN jobs : jobs[j] \in Record /\ RowsOK(j)'
  BY <1>3, SameRowsOK DEF FilesOK, Listed
<1>5. FilesOK'
  BY <1>2, <1>4 DEF FilesOK
<1>. QED BY <1>1, <1>2, <1>5 DEF OnDisk, Restored

LEMMA RewriteChange ==
  ASSUME FileTypes, FilesOK, journal = None, land = None, jobs' = Tombstoned(jobs),
         UNCHANGED <<tail, index, journal, land, published, acked>>,
         temps' \subseteq {"staging", "ready", "states", "rewrite"}
  PROVE  FileTypes' /\ FilesOK' /\ OnDisk' = Tombstoned(jobs)
<1>1. jobs \in Table
  BY OnDiskIs
<1>2. /\ jobs' \in Table /\ DOMAIN jobs' = DOMAIN jobs
      /\ \A j \in DOMAIN jobs : jobs'[j] \in Record /\ ~Live(jobs'[j])
  BY <1>1, TombstonedIs, TableInTables
<1>3. FileTypes'
  BY <1>2, TableInTables DEF FileTypes
<1>4. \A j \in DOMAIN jobs : RowsOK(j)'
  BY <1>2 DEF RowsOK
<1>5. FilesOK'
  BY <1>2, <1>4 DEF FilesOK
<1>. QED BY <1>3, <1>5 DEF OnDisk, Restored

LEMMA AppendChange ==
  ASSUME FileTypes, FilesOK, journal = None, land = None, NEW r \in FreshRecords,
         NEW n, n = Len(jobs) + 1, n <= MaxJobs, jobs' = Append(jobs, r),
         UNCHANGED <<tail, index, journal, temps, land, published, acked>>
  PROVE  /\ FileTypes' /\ FilesOK' /\ OnDisk' = Append(jobs, r)
         /\ n \in DOMAIN jobs' /\ jobs'[n] = r
<1>1. r \in Record
  BY FreshIs
<1>2. jobs \in Table /\ jobs \in Seq(Record) /\ DOMAIN jobs = 1 .. Len(jobs) /\ Len(jobs) \in Nat
  BY OnDiskIs, TableIs
<1>3. /\ jobs' \in Seq(Record) /\ Len(jobs') = n /\ DOMAIN jobs' = 1 .. n /\ n \in Nat
      /\ n \notin DOMAIN jobs /\ DOMAIN jobs' = DOMAIN jobs \cup {n}
      /\ jobs'[n] = r /\ \A i \in DOMAIN jobs : jobs'[i] = jobs[i]
  BY <1>1, <1>2
<1>4. jobs' \in Table
  BY <1>3, TableIs
<1>5. FileTypes'
  BY <1>4, TableInTables DEF FileTypes
<1>6. n \notin acked /\ \A x \in Indexes : Listed(x, n)' = {}
  BY <1>3 DEF FilesOK, Listed
<1>7. RowsOK(n)'
  BY <1>3, <1>6 DEF RowsOK
<1>8. \A j \in DOMAIN jobs : jobs'[j] \in Record /\ RowsOK(j)'
  <2>. SUFFICES ASSUME NEW j \in DOMAIN jobs PROVE jobs'[j] \in Record /\ RowsOK(j)'
    OBVIOUS
  <2>1. j # journal.job
    BY TableDomain DEF FileTypes, None
  <2>2. jobs[j] \in Record /\ RowsOK(j)
    BY <2>1 DEF FilesOK
  <2>. QED BY <1>3, <2>2, SameRowsOK DEF Listed
<1>9. FilesOK'
  BY <1>1, <1>3, <1>7, <1>8 DEF FilesOK
<1>. QED BY <1>3, <1>5, <1>9 DEF OnDisk, Restored

(* A change in the ServerLand transaction: records keep their rows.        *)
LEMMA LandChange ==
  ASSUME FileTypes, FilesOK, journal = None, jobs' \in Tables, DOMAIN jobs' = DOMAIN jobs,
         \A j \in DOMAIN jobs :
           \/ jobs'[j] = jobs[j]
           \/ /\ jobs'[j] \in Record /\ jobs'[j].state = jobs[j].state /\ Live(jobs'[j]) = Live(jobs[j])
              /\ jobs[j] \notin FreshRecords /\ jobs'[j] \notin FreshRecords,
         land' \in BeforeImage \cup {None},
         land' # None =>
           /\ land'.job \in DOMAIN jobs /\ Finishable(land'.before)
           /\ jobs'[land'.job] \in {land'.before, Bound(land'.before)},
         published' \subseteq Jobs, UNCHANGED <<tail, index, journal, temps, acked>>
  PROVE  FileTypes' /\ FilesOK'
<1>1. FileTypes'
  BY DEF FileTypes
<1>2. \A j \in DOMAIN jobs : jobs[j] \in Record /\ RowsOK(j)
  BY TableDomain DEF FileTypes, FilesOK, None
<1>3. \A j \in DOMAIN jobs : jobs'[j] \in Record /\ RowsOK(j)'
  <2>. SUFFICES ASSUME NEW j \in DOMAIN jobs PROVE jobs'[j] \in Record /\ RowsOK(j)'
    OBVIOUS
  <2>0. jobs[j] \in Record /\ RowsOK(j) /\ \A x \in Indexes : Listed(x, j)' = Listed(x, j)
    BY <1>2 DEF Listed
  <2>1. CASE jobs'[j] = jobs[j]
    BY <2>0, <2>1, SameRowsOK
  <2>2. CASE jobs'[j] # jobs[j]
    <3>1. /\ jobs'[j] \in Record /\ Live(jobs'[j]) = Live(jobs[j])
          /\ jobs[j] \notin FreshRecords /\ jobs'[j] \notin FreshRecords
          /\ jobs'[j].state = jobs[j].state
      BY <2>2
    <3>2. \A x \in Indexes : Rows(x, j, jobs'[j]) = Rows(x, j, jobs[j])
      BY <2>0, <3>1, SameRows
    <3>. QED BY <2>0, <3>1, <3>2 DEF RowsOK
  <2>. QED BY <2>1, <2>2
<1>4. FilesOK'
  BY <1>3 DEF FilesOK
<1>. QED BY <1>1, <1>4

(* A finishable record and the bound one are none that an enqueue wrote.   *)
LEMMA FinishableIs ==
  ASSUME NEW r \in Record, Finishable(r)
  PROVE  /\ r \notin FreshRecords /\ Bound(r) \notin FreshRecords /\ ~r.bound
         /\ Bound(r) \in Record /\ Bound(r).bound
         /\ Bound(r).state = r.state /\ Live(Bound(r)) = Live(r)
BY FreshIs, BoundRecord DEF Finishable

(* What undoing the transaction does to the records.                       *)
LEMMA LandUndone ==
  ASSUME FileTypes, FilesOK, journal = None
  PROVE  LET u == Restored(jobs, land)
         IN  /\ u \in Tables /\ DOMAIN u = DOMAIN jobs
             /\ \A j \in DOMAIN jobs :
                  \/ u[j] = jobs[j]
                  \/ /\ u[j] \in Record /\ u[j].state = jobs[j].state /\ Live(u[j]) = Live(jobs[j])
                     /\ jobs[j] \notin FreshRecords /\ u[j] \notin FreshRecords
<1>. DEFINE u == Restored(jobs, land)
<1>1. /\ u \in Tables /\ DOMAIN u = DOMAIN jobs /\ (land = None => u = jobs)
      /\ land # None => u[land.job] = land.before
      /\ \A i \in DOMAIN jobs : i # land.job => u[i] = jobs[i]
  BY RestoredIs DEF FileTypes, FilesOK
<1>. HIDE DEF u
<1>2. ASSUME land # None
      PROVE  /\ land.before \in Record /\ Finishable(land.before)
             /\ jobs[land.job] \in {land.before, Bound(land.before)}
  BY <1>2, ImageIs DEF FileTypes, FilesOK
<1>3. ASSUME land # None
      PROVE  \/ u[land.job] = jobs[land.job]
             \/ /\ u[land.job] \in Record /\ u[land.job].state = jobs[land.job].state
                /\ Live(u[land.job]) = Live(jobs[land.job])
                /\ jobs[land.job] \notin FreshRecords /\ u[land.job] \notin FreshRecords
  BY <1>1, <1>2, <1>3, FinishableIs
<1>. QED BY <1>1, <1>3 DEF u

-----------------------------------------------------------------------------
(* Control.                                                                *)

LEMMA NoOpIs == NoOp \notin Operation
BY DEF NoOp, Operation, Operations, Replacements

LEMMA Advances ==
  ASSUME todo \in Seq(Steps), NEW edges, NEW final, Path(todo, edges, final), Advance
  PROVE  \/ Len(todo) = 1 /\ Head(todo) \in final /\ Return(IF op.failed THEN "err" ELSE "ok")
         \/ /\ Len(todo) # 1 /\ todo' = Tail(todo) /\ todo' \in Seq(Steps) /\ todo' # <<>>
            /\ Path(todo, edges, final)'
            /\ <<Head(todo), Head(todo')>> \in edges
            /\ UNCHANGED <<server, op, onError, base, goal, answer, acked>>
BY PathStep, PathEnd DEF Advance

LEMMA TailHas ==
  ASSUME todo \in Seq(Steps), NEW edges, NEW final, Path(todo, edges, final), Len(todo) # 1,
         todo' = Tail(todo)
  PROVE  /\ todo' \in Seq(Steps) /\ todo' # <<>> /\ Path(todo', edges, final)
         /\ Head(todo') = todo[2] /\ <<Head(todo), Head(todo')>> \in edges
         /\ \A step : Has(step)' => Has(step)
         /\ \A k \in 1 .. (Len(todo') - 1) : k + 1 \in 1 .. (Len(todo) - 1)
                                          /\ todo'[k] = todo[k + 1] /\ todo'[k + 1] = todo[k + 2]
<1>1. /\ todo' \in Seq(Steps) /\ todo' # <<>> /\ Path(todo', edges, final)
      /\ Len(todo') = Len(todo) - 1 /\ Head(todo') = todo[2] /\ <<Head(todo), Head(todo')>> \in edges
      /\ \A k \in 1 .. (Len(todo) - 1) : todo'[k] = todo[k + 1]
  BY PathStep
<1>2. Len(todo) \in Nat /\ Len(todo') \in Nat /\ DOMAIN todo = 1 .. Len(todo) /\ DOMAIN todo' = 1 .. Len(todo')
  BY <1>1
<1>3. \A k \in 1 .. (Len(todo') - 1) : k + 1 \in 1 .. (Len(todo) - 1)
                                    /\ todo'[k] = todo[k + 1] /\ todo'[k + 1] = todo[k + 2]
  BY <1>1, <1>2
<1>4. \A k \in DOMAIN todo' : k + 1 \in DOMAIN todo /\ todo'[k] = todo[k + 1]
  BY <1>1, <1>2
<1>5. \A step : Has(step)' => Has(step)
  BY <1>4 DEF Has
<1>. QED BY <1>1, <1>3, <1>5

(* Where an operation stops.                                               *)
Stopping ==
  /\ FileTypes' /\ FilesOK'
  /\ OnDisk' \in {base, goal} /\ BoundIn(OnDisk') = published' \ {land'.job}

LEMMA Stops ==
  ASSUME StoreInv, FileTypes', FilesOK', (BoundIn(OnDisk) = published \ {land.job})',
         op' = NoOp, todo' = <<>>, onError' = <<>>, UNCHANGED <<base, goal>>,
         server' \in {"down", "starting", "up"}, faults' \in 0 .. MaxFaults, acked' \subseteq Jobs,
         answer' \in {"none", "ok", "err"}, answer' = "ok" => OnDisk' = goal,
         answer' = "err" => OnDisk' \in {base, goal}, server' = "starting" => land' = None
  PROVE  StoreInv'
<1>1. Idle' /\ Seen' = OnDisk'
  BY DEF Idle, Seen
<1>2. <<>> \in Seq(Steps)
  OBVIOUS
<1>3. TypeOK'
  BY <1>2 DEF StoreInv, TypeOK, FileTypes
<1>4. DiskOK'
  BY <1>1 DEF DiskOK
<1>. QED BY <1>1, <1>3, <1>4 DEF StoreInv, AnswersHold

LEMMA StopsWithError ==
  ASSUME StoreInv, Stopping, Return("err"), faults' \in 0 .. MaxFaults
  PROVE  StoreInv'
<1>1. server' \in {"down", "up"} /\ acked' \subseteq Jobs
  BY DEF Return, StoreInv, TypeOK
<1>. QED BY <1>1, Stops DEF Stopping, Return

LEMMA StopsAtBase ==
  ASSUME StoreInv, ~Idle, FileTypes', FilesOK', OnDisk' = base,
         published' \ {land'.job} = published \ {land.job}
  PROVE  Stopping
BY DEF Stopping, StoreInv, DiskOK, Seen

LEMMA StopsAtGoal ==
  ASSUME StoreInv, ~Idle, FileTypes', FilesOK', OnDisk' = goal, BoundIn(goal) = BoundIn(base),
         published' \ {land'.job} = published \ {land.job}
  PROVE  Stopping
BY DEF Stopping, StoreInv, DiskOK, Seen

(* Where it goes on.                                                       *)
LEMMA GoesOn ==
  ASSUME StoreInv, ~Idle, FileTypes', FilesOK', op' \in Operation,
         todo' \in Seq(Steps), onError' \in Seq(Steps), goal' \in Table,
         UNCHANGED <<server, base, answer, acked>>, faults' \in 0 .. MaxFaults,
         published' \ {land'.job} = published \ {land.job},
         \/ Recovering' \/ Rebuilding' \/ Replacing' \/ RollingBack'
         \/ Adding' \/ Reindexing' \/ Landing' \/ Aborting'
  PROVE  StoreInv'
<1>1. ~Idle' /\ Seen' = base
  BY NoOpIs DEF Idle, Seen
<1>2. TypeOK'
  BY DEF StoreInv, TypeOK, FileTypes
<1>3. DiskOK'
  BY <1>1 DEF StoreInv, DiskOK, Seen
<1>4. Working'
  BY DEF StoreInv, Working
<1>. QED BY <1>1, <1>2, <1>3, <1>4 DEF StoreInv

-----------------------------------------------------------------------------
(* What the phases say of the tables.                                      *)

LEMMA InvFacts ==
  ASSUME StoreInv
  PROVE  /\ FileTypes /\ FilesOK
         /\ todo \in Seq(Steps) /\ onError \in Seq(Steps) /\ base \in Table /\ goal \in Table
         /\ base \in Tables /\ goal \in Tables /\ faults \in 0 .. MaxFaults
         /\ todo # <<>> => ~Idle
         /\ ~Idle => /\ op \in Operation /\ answer = "none" /\ BoundIn(base) = published \ {land.job}
                     /\ \/ Recovering \/ Rebuilding \/ Replacing \/ RollingBack
                        \/ Adding \/ Reindexing \/ Landing \/ Aborting
BY TableInTables DEF StoreInv, TypeOK, FileTypes, DiskOK, Working, Seen

LEMMA OperationIs ==
  ASSUME NEW o \in Operation
  PROVE  /\ o.name \in Operations /\ o.job \in 0 .. MaxJobs /\ o.record \in Record
         /\ o.failed \in BOOLEAN
         /\ [o EXCEPT !.failed = TRUE] \in Operation /\ [o EXCEPT !.failed = TRUE].failed
         /\ [o EXCEPT !.failed = TRUE].name = o.name /\ [o EXCEPT !.failed = TRUE].job = o.job
         /\ [o EXCEPT !.failed = TRUE].record = o.record
BY DEF Operation

LEMMA ImageFacts ==
  ASSUME base \in Table, op.job \in DOMAIN base
  PROVE  /\ Image \in BeforeImage /\ Image # None /\ Image.job = op.job /\ Image.job # 0
         /\ Image.before = base[op.job] /\ base[op.job] \in Record
<1>1. op.job \in Jobs /\ base[op.job] \in Record
  BY TableInTables, TableDomain
<1>2. Image \in BeforeImage /\ Image.job = op.job /\ Image.before = base[op.job]
  BY <1>1 DEF Image, BeforeImage
<1>. QED BY <1>1, <1>2, ImageIs DEF Jobs

(* An except of a table.                                                   *)
LEMMA TableExcept ==
  ASSUME NEW t \in Tables, NEW j \in DOMAIN t, NEW r
  PROVE  /\ DOMAIN [t EXCEPT ![j] = r] = DOMAIN t /\ [t EXCEPT ![j] = r][j] = r
         /\ \A i \in DOMAIN t : i # j => [t EXCEPT ![j] = r][i] = t[i]
         /\ r \in Record \cup {Mangled} => [t EXCEPT ![j] = r] \in Tables
         /\ r \in Record /\ t \in Table => [t EXCEPT ![j] = r] \in Table
<1>. DEFINE u == [t EXCEPT ![j] = r]
<1>1. t = [i \in DOMAIN t |-> t[i]] /\ \A i \in DOMAIN t : t[i] \in Record \cup {Mangled}
  BY TableDomain
<1>2. /\ u = [i \in DOMAIN t |-> u[i]] /\ DOMAIN u = DOMAIN t /\ u[j] = r
      /\ \A i \in DOMAIN t : i # j => u[i] = t[i]
  BY <1>1
<1>. HIDE DEF u
<1>3. ASSUME r \in Record \cup {Mangled} PROVE u \in Tables
  <2>1. \A i \in DOMAIN t : u[i] \in Record \cup {Mangled}
    BY <1>1, <1>2, <1>3
  <2>. QED BY <1>2, <2>1, FunctionIsTable
<1>4. ASSUME r \in Record, t \in Table PROVE u \in Table
  <2>1. \A i \in DOMAIN t : u[i] \in Record
    BY <1>2, <1>4, TableInTables
  <2>. QED BY <1>2, <2>1, FunctionIsTable
<1>. QED BY <1>2, <1>3, <1>4 DEF u

LEMMA ReplacementIs ==
  ASSUME StoreInv, Replacement
  PROVE  /\ op.record \in Record /\ Live(op.record) /\ op.job \in DOMAIN goal
         /\ DOMAIN goal = DOMAIN base /\ goal[op.job] = op.record
         /\ \A i \in DOMAIN base : i # op.job => goal[i] = base[i]
         /\ BoundIn(goal) = BoundIn(base)
<1>1. base \in Table /\ base \in Tables /\ op.job \in DOMAIN base /\ base[op.job] \in Record
  BY InvFacts, TableInTables DEF Replacement
<1>2. op.record \in Record /\ Live(op.record) /\ op.record.bound = base[op.job].bound
  BY <1>1, Replaces DEF Replacement
<1>3. DOMAIN goal = DOMAIN base /\ goal[op.job] = op.record
      /\ \A i \in DOMAIN base : i # op.job => goal[i] = base[i]
  BY <1>1, TableExcept DEF Replacement
<1>4. BoundIn(goal) = BoundIn(base)
  BY <1>2, <1>3 DEF BoundIn
<1>. QED BY <1>1, <1>2, <1>3, <1>4

LEMMA AdditionIs ==
  ASSUME StoreInv, Addition
  PROVE  /\ op.record \in Record /\ op.job \in DOMAIN goal /\ goal[op.job] = op.record
         /\ op.job # 0 /\ op.job \in Nat /\ op.job <= MaxJobs
         /\ BoundIn(goal) = BoundIn(base)
<1>1. base \in Table /\ base \in Seq(Record) /\ Len(base) \in Nat /\ DOMAIN base = 1 .. Len(base)
  BY InvFacts, TableIs
<1>2. op.record \in Record /\ ~op.record.bound
  BY FreshIs DEF Addition
<1>3. /\ op.job = Len(base) + 1 /\ goal = Append(base, op.record) /\ Len(base) < MaxJobs
      /\ MaxJobs \in Nat
  BY TableAssumption DEF Addition
<1>4. /\ DOMAIN goal = 1 .. op.job /\ goal[op.job] = op.record
      /\ \A i \in DOMAIN base : goal[i] = base[i]
  BY <1>1, <1>2, <1>3
<1>5. DOMAIN goal = DOMAIN base \cup {op.job}
  BY <1>1, <1>3, <1>4
<1>6. BoundIn(goal) = BoundIn(base)
  BY <1>2, <1>4, <1>5 DEF BoundIn
<1>. QED BY <1>1, <1>2, <1>3, <1>4, <1>5, <1>6

LEMMA PublicationIs ==
  ASSUME StoreInv, Publication
  PROVE  /\ DOMAIN goal = DOMAIN base /\ goal[op.job] = Bound(base[op.job])
         /\ base[op.job] \in Record /\ op.job # 0 /\ land # None /\ land.job = op.job
         /\ land.before = base[op.job]
         /\ \A i \in DOMAIN base : i # op.job => goal[i] = base[i]
         /\ op.job \notin BoundIn(base) /\ BoundIn(goal) = BoundIn(base) \cup {op.job}
<1>1. base \in Table /\ base \in Tables /\ op.job \in DOMAIN base /\ base[op.job] \in Record
  BY InvFacts, TableInTables DEF Publication
<1>2. DOMAIN goal = DOMAIN base /\ goal[op.job] = Bound(base[op.job])
      /\ \A i \in DOMAIN base : i # op.job => goal[i] = base[i]
  BY <1>1, TableExcept DEF Publication
<1>3. Bound(base[op.job]).bound /\ ~base[op.job].bound
  BY <1>1, FinishableIs DEF Publication
<1>. QED BY <1>1, <1>2, <1>3, ImageFacts DEF Publication, BoundIn

LEMMA RollbackHead ==
  ASSUME StoreInv, RollingBack
  PROVE  /\ todo # <<>>
         /\ Head(todo) \in {"publish", "restoreRow", "rebuildReady", "rebuildStates", "unlink",
                           "syncDirectory"}
<1>0. Path(todo, RollbackEdges, {"syncDirectory"}) /\ todo \in Seq(Steps)
  BY InvFacts DEF RollingBack
<1>1. todo # <<>> /\ (Head(todo) \in {"syncDirectory"} \/ \E s : <<Head(todo), s>> \in RollbackEdges)
  BY <1>0, PathHead
<1>. QED BY <1>1 DEF RollbackEdges, UndoEdges

(* The table seen on disk is always the one found or the one meant.        *)
LEMMA WorkingDisk ==
  ASSUME StoreInv, ~Idle
  PROVE  OnDisk \in {base, goal} /\ BoundIn(OnDisk) = published \ {land.job}
<1>0. FileTypes /\ FilesOK /\ base \in Table /\ base \in Tables /\ goal \in Tables
      /\ BoundIn(base) = published \ {land.job}
  BY InvFacts
<1>1. CASE Recovering
  BY <1>0, <1>1 DEF Recovering
<1>2. CASE Rebuilding
  <2>1. OnDisk \in {base, goal} /\ goal \in {base, Tombstoned(base)}
    BY <1>0, <1>2, OnDiskIs DEF Rebuilding
  <2>2. BoundIn(Tombstoned(base)) = BoundIn(base)
    BY <1>0, TombstonedIs DEF BoundIn
  <2>. QED BY <1>0, <2>1, <2>2
<1>3. CASE Replacing
  <2>1. Replacement /\ BoundIn(goal) = BoundIn(base)
    BY <1>3, ReplacementIs DEF Replacing
  <2>2. CASE journal = None
    BY <1>0, <1>3, <2>1, <2>2, OnDiskIs DEF Replacing, Replacement
  <2>3. CASE journal # None
    <3>1. journal = Image /\ jobs \in {base, goal} /\ OnDisk = Restored(jobs, journal)
      BY <1>0, <1>3, <2>3, OnDiskIs DEF Replacing
    <3>2. Image \in BeforeImage /\ Image.job = op.job /\ Image.before = base[op.job] /\ op.job \in DOMAIN base
      BY <1>0, <2>1, ImageFacts DEF Replacement
    <3>3. DOMAIN jobs = DOMAIN base /\ \A i \in DOMAIN base : i # op.job => jobs[i] = base[i]
      BY <2>1, <3>1, ReplacementIs
    <3>4. OnDisk = base
      BY <1>0, <3>1, <3>2, <3>3, RestoredTo DEF FileTypes
    <3>. QED BY <1>0, <3>4
  <2>. QED BY <2>2, <2>3
<1>4. CASE RollingBack
  <2>1. Replacement /\ BoundIn(goal) = BoundIn(base) /\ land = None /\ AgreeElsewhere
    BY <1>4, ReplacementIs DEF RollingBack, Replacement
  <2>2. CASE journal = None
    <3>1. jobs \in {base, goal}
      BY <1>0, <1>4, <2>1, <2>2, RollbackHead, ImageFacts DEF RollingBack, AtOneOf, At, Replacement
    <3>. QED BY <1>0, <2>1, <2>2, <3>1, OnDiskIs
  <2>3. CASE journal # None
    <3>1. journal = Image
      BY <1>4, <2>3, RollbackHead DEF RollingBack, AtOneOf, At
    <3>2. Image \in BeforeImage /\ Image.job = op.job /\ Image.before = base[op.job] /\ op.job \in DOMAIN base
      BY <1>0, <2>1, ImageFacts DEF Replacement
    <3>3. OnDisk = base
      <4>1. jobs \in Tables /\ OnDisk = Restored(jobs, Image)
        BY <1>0, <2>3, <3>1, OnDiskIs DEF FileTypes
      <4>2. DOMAIN jobs = DOMAIN base /\ \A i \in DOMAIN base : i # op.job => jobs[i] = base[i]
        BY <2>1 DEF AgreeElsewhere
      <4>. QED BY <1>0, <3>2, <4>1, <4>2, RestoredTo
    <3>. QED BY <1>0, <3>3
  <2>. QED BY <2>2, <2>3
<1>5. CASE Adding \/ Reindexing
  <2>1. Addition /\ BoundIn(goal) = BoundIn(base) /\ jobs \in {base, goal}
    BY <1>5, AdditionIs DEF Adding, Reindexing
  <2>. QED BY <1>0, <2>1, OnDiskIs DEF Addition
<1>6. CASE Landing \/ Aborting
  <2>1. Publication /\ jobs \in {base, goal}
    BY <1>6 DEF Landing, Aborting
  <2>2. land = Image /\ land # None /\ OnDisk = Restored(jobs, land) /\ op.job \in DOMAIN base
    BY <1>0, <2>1, OnDiskIs, PublicationIs DEF Publication
  <2>3. DOMAIN jobs = DOMAIN base /\ \A i \in DOMAIN base : i # op.job => jobs[i] = base[i]
    BY <2>1, PublicationIs
  <2>4. OnDisk = base
    BY <1>0, <2>2, <2>3, ImageFacts, RestoredTo DEF FileTypes
  <2>. QED BY <1>0, <2>4
<1>. QED BY <1>1, <1>2, <1>3, <1>4, <1>5, <1>6, InvFacts

-----------------------------------------------------------------------------
(* Which phase a step is of.                                               *)

LEMMA PhaseHeads ==
  ASSUME StoreInv
  PROVE  /\ Recovering => Head(todo) \in
              {"removeTemps", "restoreRow", "rebuildReady", "rebuildStates", "unlink", "syncDirectory",
               "decide", "landBegin", "landAbort", "clearLock", "cleanRead"}
         /\ Rebuilding => Head(todo) \in {"rewrite", "rebuildReady", "rebuildStates", "clearLock"}
         /\ Replacing => Head(todo) \in
              {"publish", "writeRow", "putReady", "putStates", "unlink", "syncDirectory", "clearLock"}
         /\ RollingBack => Head(todo) \in
              {"publish", "restoreRow", "rebuildReady", "rebuildStates", "unlink", "syncDirectory"}
         /\ Adding => Head(todo) \in
              {"append", "syncRow", "relate", "putReady", "putStates", "clearLock"}
         /\ Reindexing => Head(todo) \in {"rebuildReady", "rebuildStates"}
         /\ Landing => Head(todo) \in {"landPublish", "landBind", "landCommit"}
         /\ Aborting => Head(todo) = "landAbort"
<1>0. todo \in Seq(Steps)
  BY InvFacts
<1>1. ASSUME Recovering PROVE Head(todo) \in RecoverEnds \/ \E s : <<Head(todo), s>> \in RecoverEdges
  BY <1>0, <1>1, PathHead DEF Recovering
<1>2. ASSUME Rebuilding PROVE Head(todo) \in {"clearLock"} \/ \E s : <<Head(todo), s>> \in RebuildEdges
  BY <1>0, <1>2, PathHead DEF Rebuilding
<1>3. ASSUME Replacing PROVE Head(todo) \in {"clearLock"} \/ \E s : <<Head(todo), s>> \in ReplaceEdges
  BY <1>0, <1>3, PathHead DEF Replacing
<1>4. ASSUME Adding PROVE Head(todo) \in {"clearLock"} \/ \E s : <<Head(todo), s>> \in EnqueueEdges
  BY <1>0, <1>4, PathHead DEF Adding
<1>5. ASSUME Reindexing PROVE Head(todo) \in {"rebuildStates"} \/ \E s : <<Head(todo), s>> \in ReindexEdges
  BY <1>0, <1>5, PathHead DEF Reindexing
<1>6. ASSUME Landing PROVE Head(todo) \in {"landCommit"} \/ \E s : <<Head(todo), s>> \in LandEdges
  BY <1>0, <1>6, PathHead DEF Landing
<1>7. Recovering => Head(todo) \in
              {"removeTemps", "restoreRow", "rebuildReady", "rebuildStates", "unlink", "syncDirectory",
               "decide", "landBegin", "landAbort", "clearLock", "cleanRead"}
  BY <1>1 DEF RecoverEdges, RecoverEnds, UndoEdges
<1>8. Rebuilding => Head(todo) \in {"rewrite", "rebuildReady", "rebuildStates", "clearLock"}
  BY <1>2 DEF RebuildEdges
<1>9. Replacing => Head(todo) \in
              {"publish", "writeRow", "putReady", "putStates", "unlink", "syncDirectory", "clearLock"}
  BY <1>3 DEF ReplaceEdges
<1>10. Adding => Head(todo) \in {"append", "syncRow", "relate", "putReady", "putStates", "clearLock"}
  BY <1>4 DEF EnqueueEdges
<1>11. Reindexing => Head(todo) \in {"rebuildReady", "rebuildStates"}
  BY <1>5 DEF ReindexEdges
<1>12. Landing => Head(todo) \in {"landPublish", "landBind", "landCommit"}
  BY <1>6 DEF LandEdges
<1>13. Aborting => Head(todo) = "landAbort"
  BY DEF Aborting
<1>. QED BY <1>7, <1>8, <1>9, <1>10, <1>11, <1>12, <1>13, RollbackHead

LEMMA AtomicReplaceIs ==
  ASSUME FileTypes, NEW step \in AtomicReplaces, AtomicReplace(step)
  PROVE  /\ temps' \subseteq {"staging", "ready", "states", "rewrite"}
         /\ UNCHANGED <<tail, land, published>>
         /\ step = "publish" => journal' = Image /\ UNCHANGED <<jobs, index>>
         /\ step = "putReady" =>
              index' = [index EXCEPT !["ready"] = Prepared("ready")] /\ UNCHANGED <<jobs, journal>>
         /\ step = "putStates" =>
              index' = [index EXCEPT !["states"] = Prepared("states")] /\ UNCHANGED <<jobs, journal>>
         /\ step = "rebuildReady" =>
              index' = [index EXCEPT !["ready"] = Expected("ready")] /\ UNCHANGED <<jobs, journal>>
         /\ step = "rebuildStates" =>
              index' = [index EXCEPT !["states"] = Expected("states")] /\ UNCHANGED <<jobs, journal>>
         /\ step = "rewrite" => jobs' = Tombstoned(jobs) /\ UNCHANGED <<index, journal>>
<1>1. temps' \subseteq {"staging", "ready", "states", "rewrite"} /\ UNCHANGED <<tail, land, published>>
  BY DEF AtomicReplace, FileTypes
<1>2. Target(step)
  BY DEF AtomicReplace
<1>3. /\ IndexOf["putReady"] = "ready" /\ IndexOf["rebuildReady"] = "ready"
      /\ IndexOf["putStates"] = "states" /\ IndexOf["rebuildStates"] = "states"
  BY DEF IndexOf
<1>4. step = "publish" => journal' = Image /\ UNCHANGED <<jobs, index>>
  BY <1>2 DEF Target, Image
<1>5. step = "rewrite" => jobs' = Tombstoned(jobs) /\ UNCHANGED <<index, journal>>
  BY <1>2 DEF Target
<1>6. /\ step \in {"putReady", "putStates"} =>
           index' = [index EXCEPT ![IndexOf[step]] = Prepared(IndexOf[step])] /\ UNCHANGED <<jobs, journal>>
      /\ step \in {"rebuildReady", "rebuildStates"} =>
           index' = [index EXCEPT ![IndexOf[step]] = Expected(IndexOf[step])] /\ UNCHANGED <<jobs, journal>>
  BY <1>2 DEF Target
<1>. QED BY <1>1, <1>3, <1>4, <1>5, <1>6

-----------------------------------------------------------------------------
(* Recovery.                                                               *)

LEMMA RecoverMoves ==
  ASSUME StoreInv, Recovering, Len(todo) # 1, todo' = Tail(todo),
         UNCHANGED <<op, onError, base, goal>>, OnDisk' = base, land' \in {land, None}, UndoOK',
         Head(todo') \in {"syncDirectory", "decide", "landBegin", "landAbort", "clearLock"} => journal' = None,
         Head(todo') = "clearLock" => land' = None
  PROVE  Recovering' /\ todo' \in Seq(Steps)
<1>1. /\ todo' \in Seq(Steps) /\ todo' # <<>> /\ Path(todo', RecoverEdges, RecoverEnds)
      /\ <<Head(todo), Head(todo')>> \in RecoverEdges
      /\ \A step : Has(step)' => Has(step)
  BY InvFacts, TailHas DEF Recovering
<1>2. ~At("removeTemps")'
  BY <1>1 DEF At, RecoverEdges, UndoEdges
<1>. QED BY <1>1, <1>2 DEF Recovering, AtOneOf, At

LEMMA RemoveTempsRecovers ==
  ASSUME StoreInv, Recovering, RemoveTemps
  PROVE  StoreInv'
<1>0. /\ At("removeTemps") /\ Advance /\ temps' = {} /\ todo # <<>> /\ Head(todo) = "removeTemps"
      /\ UNCHANGED <<jobs, tail, index, journal, land, published, faults>>
  BY DEF RemoveTemps, At
<1>1. Len(todo) # 1
  BY <1>0, InvFacts, PathEnd DEF Recovering, RecoverEnds
<1>2. /\ todo' = Tail(todo) /\ UNCHANGED <<server, op, onError, base, goal, answer, acked>>
  BY <1>0, <1>1 DEF Advance
<1>3. FileTypes' /\ FilesOK' /\ OnDisk' = OnDisk
  BY <1>0, <1>2, InvFacts, TempsChange DEF FileTypes
<1>4. /\ todo' # <<>> /\ Head(todo') = todo[2] /\ <<"removeTemps", Head(todo')>> \in RecoverEdges
  BY <1>0, <1>1, <1>2, InvFacts, TailHas DEF Recovering
<1>5. Head(todo') \in {"restoreRow", "decide", "landBegin", "landAbort"}
  BY <1>4 DEF RecoverEdges, UndoEdges
<1>6. Head(todo') = "restoreRow" <=> journal # None
  BY <1>0, <1>4 DEF Recovering
<1>7. UndoOK'
  BY <1>0, <1>4, <1>5, <1>6 DEF UndoOK, AtOneOf, At
<1>8. Recovering' /\ todo' \in Seq(Steps)
  BY <1>0, <1>1, <1>2, <1>3, <1>5, <1>6, <1>7, RecoverMoves DEF Recovering
<1>. QED BY <1>0, <1>2, <1>3, <1>8, GoesOn, InvFacts

LEMMA UndoRebuilds ==
  ASSUME StoreInv, jobs = base, journal # None, NEW x \in Indexes,
         index' = [index EXCEPT ![x] = Expected(x)],
         UNCHANGED <<jobs, tail, journal, land, published, acked>>,
         temps' \subseteq {"staging", "ready", "states", "rewrite"}
  PROVE  /\ FileTypes' /\ FilesOK' /\ OnDisk' = OnDisk
         /\ Relisted(x)' /\ \A y \in Indexes : Relisted(y) => Relisted(y)'
<1>1. journal.job \in DOMAIN jobs /\ \A j \in DOMAIN jobs : jobs[j] \in Record
  BY InvFacts, TableInTables DEF FilesOK
<1>2. /\ FileTypes' /\ FilesOK' /\ OnDisk' = OnDisk
      /\ \A j \in DOMAIN jobs : Listed(x, j)' = Rows(x, j, jobs[j])
      /\ \A y \in Indexes : y # x => index'[y] = index[y]
  BY <1>1, InvFacts, RebuildChange
<1>3. Relisted(x)'
  BY <1>1, <1>2 DEF Relisted, Listed
<1>4. \A y \in Indexes : y # x /\ Relisted(y) => Relisted(y)'
  BY <1>2 DEF Relisted, Listed
<1>. QED BY <1>2, <1>3, <1>4

(* The step after the one at work, where it is not the last.               *)
LEMMA RecoverNext ==
  ASSUME StoreInv, Recovering, Advance, Head(todo) \notin RecoverEnds
  PROVE  /\ Len(todo) # 1 /\ todo' = Tail(todo) /\ todo' # <<>>
         /\ <<Head(todo), Head(todo')>> \in RecoverEdges
         /\ UNCHANGED <<server, op, onError, base, goal, answer, acked>>
<1>1. Len(todo) # 1
  BY InvFacts, PathEnd DEF Recovering
<1>2. todo' = Tail(todo) /\ UNCHANGED <<server, op, onError, base, goal, answer, acked>>
  BY <1>1 DEF Advance
<1>. QED BY <1>1, <1>2, InvFacts, TailHas DEF Recovering

LEMMA RestoreRecovers ==
  ASSUME StoreInv, Recovering, At("restoreRow"), NEW r \in Record \cup {Mangled},
         jobs' = [jobs EXCEPT ![journal.job] = r],
         UNCHANGED <<tail, index, journal, temps, land, published, acked>>
  PROVE  /\ FileTypes' /\ FilesOK' /\ OnDisk' = base
         /\ r = journal.before => jobs' = base
<1>1. journal # None /\ OnDisk = base
  BY DEF Recovering, UndoOK, AtOneOf, At
<1>2. FileTypes' /\ FilesOK' /\ OnDisk' = base
  BY <1>1, InvFacts, RowChange
<1>3. ASSUME r = journal.before PROVE jobs' = base
  <2>1. OnDisk = Restored(jobs, journal)
    BY <1>1, InvFacts, OnDiskIs
  <2>. QED BY <1>1, <1>3, <2>1 DEF Restored
<1>. QED BY <1>2, <1>3

LEMMA RestoreRowRecovers ==
  ASSUME StoreInv, Recovering, At("restoreRow"), OverwriteRow
  PROVE  StoreInv'
<1>0. /\ todo # <<>> /\ Head(todo) = "restoreRow" /\ ~op.failed /\ journal # None
      /\ jobs' = [jobs EXCEPT ![journal.job] = journal.before]
      /\ Advance /\ UNCHANGED <<tail, index, journal, temps, land, published, faults>>
  BY DEF OverwriteRow, WriteRow, RowOf, RowAfter, At, AtOneOf, Recovering, UndoOK
<1>1. /\ Len(todo) # 1 /\ todo' = Tail(todo) /\ todo' # <<>>
      /\ <<"restoreRow", Head(todo')>> \in RecoverEdges
      /\ UNCHANGED <<server, op, onError, base, goal, answer, acked>>
  BY <1>0, RecoverNext DEF RecoverEnds
<1>2. Head(todo') = "rebuildReady"
  BY <1>1 DEF RecoverEdges, UndoEdges
<1>3. journal.before \in Record
  BY <1>0, InvFacts, ImageIs DEF FileTypes
<1>4. FileTypes' /\ FilesOK' /\ OnDisk' = base /\ jobs' = base
  BY <1>0, <1>1, <1>3, RestoreRecovers
<1>5. UndoOK'
  BY <1>0, <1>1, <1>2, <1>4 DEF UndoOK, AtOneOf, At
<1>6. Recovering' /\ todo' \in Seq(Steps)
  BY <1>0, <1>1, <1>2, <1>4, <1>5, RecoverMoves
<1>. QED BY <1>0, <1>1, <1>4, <1>6, GoesOn, InvFacts

LEMMA RebuildReadyRecovers ==
  ASSUME StoreInv, Recovering, At("rebuildReady"), AtomicReplace("rebuildReady"), Advance,
         UNCHANGED faults
  PROVE  StoreInv'
<1>0. todo # <<>> /\ Head(todo) = "rebuildReady" /\ journal # None /\ jobs = base /\ OnDisk = base
  BY DEF At, AtOneOf, Recovering, UndoOK
<1>1. /\ Len(todo) # 1 /\ todo' = Tail(todo) /\ todo' # <<>>
      /\ <<"rebuildReady", Head(todo')>> \in RecoverEdges
      /\ UNCHANGED <<server, op, onError, base, goal, answer, acked>>
  BY <1>0, RecoverNext DEF RecoverEnds
<1>2. Head(todo') = "rebuildStates"
  BY <1>1 DEF RecoverEdges, UndoEdges
<1>3. /\ index' = [index EXCEPT !["ready"] = Expected("ready")]
      /\ UNCHANGED <<jobs, journal, tail, land, published>>
      /\ temps' \subseteq {"staging", "ready", "states", "rewrite"}
  BY InvFacts, AtomicReplaceIs DEF AtomicReplaces, TempOf
<1>4. FileTypes' /\ FilesOK' /\ OnDisk' = base /\ Relisted("ready")'
  BY <1>0, <1>1, <1>3, UndoRebuilds DEF Indexes
<1>5. UndoOK'
  BY <1>0, <1>1, <1>2, <1>3, <1>4 DEF UndoOK, AtOneOf, At
<1>6. Recovering' /\ todo' \in Seq(Steps)
  BY <1>1, <1>2, <1>3, <1>4, <1>5, RecoverMoves
<1>. QED BY <1>1, <1>3, <1>4, <1>6, GoesOn, InvFacts

LEMMA RebuildStatesRecovers ==
  ASSUME StoreInv, Recovering, At("rebuildStates"), AtomicReplace("rebuildStates"), Advance,
         UNCHANGED faults
  PROVE  StoreInv'
<1>0. /\ todo # <<>> /\ Head(todo) = "rebuildStates" /\ journal # None /\ jobs = base /\ OnDisk = base
      /\ Relisted("ready")
  BY DEF At, AtOneOf, Recovering, UndoOK
<1>1. /\ Len(todo) # 1 /\ todo' = Tail(todo) /\ todo' # <<>>
      /\ <<"rebuildStates", Head(todo')>> \in RecoverEdges
      /\ UNCHANGED <<server, op, onError, base, goal, answer, acked>>
  BY <1>0, RecoverNext DEF RecoverEnds
<1>2. Head(todo') = "unlink"
  BY <1>1 DEF RecoverEdges, UndoEdges
<1>3. /\ index' = [index EXCEPT !["states"] = Expected("states")]
      /\ UNCHANGED <<jobs, journal, tail, land, published>>
      /\ temps' \subseteq {"staging", "ready", "states", "rewrite"}
  BY InvFacts, AtomicReplaceIs DEF AtomicReplaces, TempOf
<1>4. FileTypes' /\ FilesOK' /\ OnDisk' = base /\ Relisted("ready")' /\ Relisted("states")'
  BY <1>0, <1>1, <1>3, UndoRebuilds DEF Indexes
<1>5. UndoOK'
  BY <1>0, <1>1, <1>2, <1>3, <1>4 DEF UndoOK, AtOneOf, At
<1>6. Recovering' /\ todo' \in Seq(Steps)
  BY <1>1, <1>2, <1>3, <1>4, <1>5, RecoverMoves
<1>. QED BY <1>1, <1>3, <1>4, <1>6, GoesOn, InvFacts

LEMMA UndoUnlinks ==
  ASSUME StoreInv, UndoOK, At("unlink"), journal' = None,
         UNCHANGED <<jobs, tail, index, temps, land, published, acked>>
  PROVE  FileTypes' /\ FilesOK' /\ OnDisk' = base /\ jobs = base
<1>1. journal # None /\ jobs = base /\ Relisted("ready") /\ Relisted("states")
  BY DEF UndoOK, AtOneOf, At
<1>2. jobs[journal.job] \in Record
  BY <1>1, InvFacts, TableInTables DEF FilesOK
<1>3. \A x \in Indexes : Relisted(x)
  BY <1>1 DEF Indexes
<1>. QED BY <1>1, <1>2, <1>3, InvFacts, UnlinkChange

LEMMA UnlinkRecovers ==
  ASSUME StoreInv, Recovering, Unlink
  PROVE  StoreInv'
<1>0. /\ At("unlink") /\ todo # <<>> /\ Head(todo) = "unlink" /\ UndoOK
      /\ journal' = None /\ Advance
      /\ UNCHANGED <<jobs, tail, index, temps, land, published, faults>>
  BY DEF Unlink, At, Recovering
<1>1. /\ Len(todo) # 1 /\ todo' = Tail(todo) /\ todo' # <<>>
      /\ <<"unlink", Head(todo')>> \in RecoverEdges
      /\ UNCHANGED <<server, op, onError, base, goal, answer, acked>>
  BY <1>0, RecoverNext DEF RecoverEnds
<1>2. Head(todo') = "syncDirectory"
  BY <1>1 DEF RecoverEdges, UndoEdges
<1>3. FileTypes' /\ FilesOK' /\ OnDisk' = base
  BY <1>0, <1>1, UndoUnlinks
<1>4. UndoOK'
  BY <1>1, <1>2 DEF UndoOK, AtOneOf, At
<1>5. Recovering' /\ todo' \in Seq(Steps)
  BY <1>0, <1>1, <1>2, <1>3, <1>4, RecoverMoves
<1>. QED BY <1>0, <1>1, <1>3, <1>5, GoesOn, InvFacts

LEMMA SyncRecovers ==
  ASSUME StoreInv, Recovering, At("syncDirectory"), Advance, UNCHANGED <<files, faults>>
  PROVE  StoreInv'
<1>0. /\ todo # <<>> /\ Head(todo) = "syncDirectory" /\ journal = None /\ OnDisk = base
      /\ UNCHANGED <<jobs, tail, index, journal, temps, land, published>>
  BY DEF At, AtOneOf, Recovering, files
<1>1. /\ Len(todo) # 1 /\ todo' = Tail(todo) /\ todo' # <<>>
      /\ <<"syncDirectory", Head(todo')>> \in RecoverEdges
      /\ UNCHANGED <<server, op, onError, base, goal, answer, acked>>
  BY <1>0, RecoverNext DEF RecoverEnds
<1>2. Head(todo') \in {"decide", "landBegin", "landAbort"}
  BY <1>1 DEF RecoverEdges, UndoEdges
<1>3. FileTypes' /\ FilesOK' /\ OnDisk' = base
  BY <1>0, <1>1, InvFacts, TempsChange DEF FileTypes
<1>4. UndoOK'
  BY <1>1, <1>2 DEF UndoOK, AtOneOf, At
<1>5. Recovering' /\ todo' \in Seq(Steps)
  BY <1>0, <1>1, <1>2, <1>3, <1>4, RecoverMoves
<1>. QED BY <1>0, <1>1, <1>3, <1>5, GoesOn, InvFacts

(* An operation on no job is done, and has left the table it means to.     *)
LEMMA DoneForNoJob ==
  ASSUME StoreInv, ~Idle, op.job = 0, OnDisk = goal, land = None, Return("ok"), UNCHANGED <<files, faults>>
  PROVE  StoreInv'
<1>1. /\ UNCHANGED <<jobs, tail, index, journal, temps, land, published, acked, base, goal>>
      /\ op' = NoOp /\ todo' = <<>> /\ onError' = <<>> /\ answer' = "ok" /\ server' = server
  BY DEF files, Return
<1>2. FileTypes' /\ FilesOK' /\ OnDisk' = goal
  BY <1>1, InvFacts, TempsChange DEF FileTypes
<1>3. (BoundIn(OnDisk) = published \ {land.job})'
  BY <1>1, <1>2, WorkingDisk
<1>4. server \in {"down", "starting", "up"} /\ acked \subseteq Jobs
  BY DEF StoreInv, TypeOK
<1>. QED BY <1>1, <1>2, <1>3, <1>4, InvFacts, Stops

LEMMA ClearLockRecovers ==
  ASSUME StoreInv, Recovering, At("clearLock"), Advance, UNCHANGED <<files, faults>>
  PROVE  StoreInv'
<1>0. todo # <<>> /\ Head(todo) = "clearLock" /\ ~op.failed /\ OnDisk = goal /\ land = None
  BY DEF At, Recovering
<1>1. Has("clearLock")
  BY <1>0, InvFacts DEF Has
<1>2. op.job = 0 /\ ~Idle
  BY <1>0, <1>1, InvFacts DEF Recovering
<1>3. Len(todo) = 1
  <2>1. ~\E s : <<"clearLock", s>> \in RecoverEdges
    BY DEF RecoverEdges, UndoEdges
  <2>. QED BY <1>0, <2>1, InvFacts, PathStep DEF Recovering
<1>4. Return("ok")
  BY <1>0, <1>3 DEF Advance
<1>. QED BY <1>0, <1>2, <1>4, DoneForNoJob

-----------------------------------------------------------------------------
(* Calls.                                                                  *)

LEMMA UndoPath ==
  /\ UndoSteps \in Seq(Steps) /\ Path(UndoSteps, UndoEdges, {"syncDirectory"})
  /\ Head(UndoSteps) = "restoreRow" /\ Len(UndoSteps) = 5
<1>1. UndoSteps \in Seq(Steps) /\ Len(UndoSteps) = 5 /\ Head(UndoSteps) = "restoreRow"
  BY DEF UndoSteps, Steps, AtomicReplaces, TempOf, RowWrites
<1>2. Path(UndoSteps, UndoEdges, {"syncDirectory"})
  BY DEF Path, UndoSteps, UndoEdges
<1>. QED BY <1>1, <1>2

LEMMA RecoveryPath ==
  ASSUME NEW t \in Seq(Steps), NEW final, Path(t, RecoverEdges, final),
         Head(t) \in {"decide", "landBegin", "landAbort"}
  PROVE  LET u == RecoverySteps \o t
         IN  /\ u \in Seq(Steps) /\ Path(u, RecoverEdges, final)
             /\ Head(u) = "removeTemps" /\ (u[2] = "restoreRow" <=> journal # None)
<1>. DEFINE a == <<"removeTemps">>
<1>1. "removeTemps" \in Steps
  BY DEF Steps
<1>2. /\ a \in Seq(Steps) /\ Path(a, RecoverEdges, {"removeTemps"}) /\ Head(a) = "removeTemps"
      /\ Len(a) = 1
  BY <1>1, PathOne
<1>. HIDE DEF a
<1>3. CASE journal = None
  <2>1. RecoverySteps = a \o <<>> /\ a \o <<>> = a
    BY <1>2, <1>3, ConcatEmptySeq DEF RecoverySteps, a
  <2>2. <<"removeTemps", Head(t)>> \in RecoverEdges
    BY DEF RecoverEdges
  <2>3. /\ a \o t \in Seq(Steps) /\ Path(a \o t, RecoverEdges, final)
        /\ Head(a \o t) = "removeTemps" /\ (a \o t)[2] = Head(t)
    BY <1>2, <2>2, PathJoin
  <2>. QED BY <1>3, <2>1, <2>3
<1>4. CASE journal # None
  <2>0. RecoverySteps = a \o UndoSteps
    BY <1>4 DEF RecoverySteps, a
  <2>1. Path(UndoSteps, RecoverEdges, {"syncDirectory"})
    BY UndoPath, PathWider DEF RecoverEdges
  <2>2. /\ <<"removeTemps", Head(UndoSteps)>> \in RecoverEdges
        /\ <<"syncDirectory", Head(t)>> \in RecoverEdges
    BY UndoPath DEF RecoverEdges
  <2>3. /\ RecoverySteps \in Seq(Steps) /\ Path(RecoverySteps, RecoverEdges, {"syncDirectory"})
        /\ Head(RecoverySteps) = "removeTemps" /\ RecoverySteps[2] = "restoreRow"
        /\ Len(RecoverySteps) # 1
    BY <1>2, <2>0, <2>1, <2>2, PathJoin, UndoPath
  <2>. QED BY <1>4, <2>2, <2>3, PathJoin
<1>. QED BY <1>3, <1>4

LEMMA Begins ==
  ASSUME StoreInv, NEW name \in Operations, NEW j \in 0 .. MaxJobs, NEW steps \in Seq(Steps),
         NEW final, Begin(name, j, steps), server' \in {"down", "starting", "up"},
         Path(steps, RecoverEdges, final), final \in {{s} : s \in RecoverEnds},
         \/ Head(steps) = "removeTemps" /\ (steps[2] = "restoreRow" <=> journal # None)
         \/ Head(steps) = "cleanRead",
         name \in Replacements \/ final = {"landBegin"} => j \in DOMAIN jobs,
         name \in Replacements \cup {"enqueue", "tombstone_all"} => land = None,
         name = "enqueue" => Len(jobs) < MaxJobs,
         final \in {{"clearLock"}, {"cleanRead"}} => j = 0
  PROVE  StoreInv'
<1>0. /\ op' = [name |-> name, job |-> j, record |-> Fresh(FALSE, "queued"), failed |-> FALSE]
      /\ todo' = steps /\ onError' = <<>> /\ base' = OnDisk /\ goal' = OnDisk /\ answer' = "none"
      /\ UNCHANGED <<jobs, tail, index, journal, temps, land, published, acked, faults>> /\ Idle
  BY DEF Begin, files
<1>1. FileTypes /\ FilesOK
  BY InvFacts
<1>2. FileTypes' /\ FilesOK' /\ OnDisk' = OnDisk
  BY <1>0, <1>1, TempsChange DEF FileTypes
<1>3. OnDisk \in Table /\ DOMAIN OnDisk = DOMAIN jobs /\ Len(OnDisk) = Len(jobs)
  BY <1>1, OnDiskIs, TableIs DEF FileTypes
<1>4. op' \in Operation /\ ~op'.failed /\ op'.job = j /\ op'.name = name
  <2>1. Fresh(FALSE, "queued") \in Record
    BY FreshIs DEF FreshRecords
  <2>. QED BY <1>0, <2>1 DEF Operation
<1>5. ~Idle' /\ Seen' = OnDisk /\ Seen = OnDisk
  BY <1>0, <1>4, NoOpIs DEF Idle, Seen
<1>6. DiskOK'
  BY <1>0, <1>2, <1>5 DEF StoreInv, DiskOK
<1>7. TypeOK'
  BY <1>0, <1>2, <1>3, <1>4 DEF StoreInv, TypeOK, FileTypes
<1>8. todo' # <<>> /\ Path(todo', RecoverEdges, RecoverEnds)
  BY <1>0, PathWider DEF Path
<1>9. Head(todo') \in {"removeTemps", "cleanRead"}
  BY <1>0
<1>10. UndoOK'
  BY <1>9 DEF UndoOK, AtOneOf, At
<1>11. \A s \in {"landBegin", "cleanRead", "clearLock"} : Has(s)' => final = {s}
  <2>1. \A k \in DOMAIN steps : steps[k] \in final \/ \E s : <<steps[k], s>> \in RecoverEdges
    BY PathSteps
  <2>2. \A s \in {"landBegin", "cleanRead", "clearLock"} : ~\E r : <<s, r>> \in RecoverEdges
    BY DEF RecoverEdges, UndoEdges
  <2>. QED BY <1>0, <2>1, <2>2 DEF Has
<1>12. Recovering'
  <2>1. (At("removeTemps") => (todo[2] = "restoreRow" <=> journal # None))'
    BY <1>0 DEF At
  <2>2. ~AtOneOf({"syncDirectory", "decide", "landBegin", "landAbort", "clearLock"})'
    BY <1>9 DEF AtOneOf
  <2>3. (op.name \in Replacements \/ Has("landBegin") => op.job \in DOMAIN base)'
    BY <1>0, <1>3, <1>4, <1>11
  <2>4. (op.name \in Replacements \cup {"enqueue", "tombstone_all"} => land = None)'
    BY <1>0, <1>4
  <2>5. (op.name = "enqueue" => Len(base) < MaxJobs)'
    BY <1>0, <1>3, <1>4
  <2>6. (Has("clearLock") \/ Has("cleanRead") => op.job = 0)'
    BY <1>4, <1>11
  <2>7. ~At("clearLock")'
    BY <1>9 DEF At
  <2>. QED BY <1>0, <1>2, <1>4, <1>8, <1>10, <2>1, <2>2, <2>3, <2>4, <2>5, <2>6, <2>7 DEF Recovering
<1>. QED BY <1>0, <1>4, <1>5, <1>6, <1>7, <1>12 DEF StoreInv, Working

LEMMA RequestKeeps ==
  ASSUME StoreInv, NEW name \in Operations, NEW j \in 0 .. MaxJobs,
         Begin(name, j, RecoverySteps \o <<"decide">>), UNCHANGED server,
         land = None, name \in Replacements => j \in DOMAIN jobs, name = "enqueue" => Len(jobs) < MaxJobs
  PROVE  StoreInv'
<1>. DEFINE t == <<"decide">>
            u == RecoverySteps \o t
<1>1. "decide" \in Steps
  BY DEF Steps
<1>2. t \in Seq(Steps) /\ Path(t, RecoverEdges, {"decide"}) /\ Head(t) = "decide"
  BY <1>1, PathOne
<1>3. Begin(name, j, u)
  OBVIOUS
<1>. HIDE DEF t
<1>4. /\ u \in Seq(Steps) /\ Path(u, RecoverEdges, {"decide"})
      /\ Head(u) = "removeTemps" /\ (u[2] = "restoreRow" <=> journal # None)
  BY <1>2, RecoveryPath
<1>5. server' \in {"down", "starting", "up"}
  BY DEF StoreInv, TypeOK
<1>6. {"decide"} \in {{s} : s \in RecoverEnds} /\ {"decide"} \notin {{"landBegin"}, {"clearLock"}, {"cleanRead"}}
  BY DEF RecoverEnds
<1>. HIDE DEF u
<1>. QED BY <1>3, <1>4, <1>5, <1>6, Begins

LEMMA CallKeeps ==
  ASSUME StoreInv, Call
  PROVE  StoreInv'
<1>0. Replacements \subseteq Operations /\ {"enqueue", "tombstone_all", "finish_prepared_ci", "recover_publication"} \subseteq Operations
  BY DEF Operations
<1>00. 0 \in 0 .. MaxJobs /\ Jobs \subseteq 0 .. MaxJobs
  BY TableAssumption DEF Jobs
<1>01. server \in {"down", "starting", "up"}
  BY DEF StoreInv, TypeOK
<1>1. CASE \E name \in Replacements, j \in Jobs : CallReplace(name, j)
  <2>1. PICK name \in Replacements, j \in Jobs : CallReplace(name, j)
    BY <1>1
  <2>2. /\ Begin(name, j, RecoverySteps \o <<"decide">>) /\ UNCHANGED server /\ land = None
        /\ j \in DOMAIN jobs /\ name # "enqueue"
    BY <2>1 DEF CallReplace, Request, Replacements
  <2>. QED BY <1>0, <1>00, <2>2, RequestKeeps
<1>2. CASE CallEnqueue
  <2>1. /\ Begin("enqueue", 0, RecoverySteps \o <<"decide">>) /\ UNCHANGED server /\ land = None
        /\ Len(jobs) < MaxJobs /\ "enqueue" \notin Replacements
    BY <1>2 DEF CallEnqueue, Request, Replacements
  <2>. QED BY <1>0, <1>00, <2>1, RequestKeeps
<1>3. CASE CallTombstoneAll
  <2>1. /\ Begin("tombstone_all", 0, RecoverySteps \o <<"decide">>) /\ UNCHANGED server /\ land = None
        /\ "tombstone_all" \notin Replacements
    BY <1>3 DEF CallTombstoneAll, Request, Replacements
  <2>. QED BY <1>0, <1>00, <2>1, RequestKeeps
<1>4. CASE CallRecoverPublication
  <2>. DEFINE t == <<"landAbort", "clearLock">>
              u == RecoverySteps \o t
  <2>1. "landAbort" \in Steps /\ "clearLock" \in Steps /\ <<"landAbort", "clearLock">> \in RecoverEdges
    BY DEF Steps, RecoverEdges
  <2>2. t \in Seq(Steps) /\ Path(t, RecoverEdges, {"clearLock"}) /\ Head(t) = "landAbort"
    BY <2>1, PathTwo
  <2>3. Begin("recover_publication", 0, u) /\ UNCHANGED server
    BY <1>4 DEF CallRecoverPublication
  <2>. HIDE DEF t
  <2>4. /\ u \in Seq(Steps) /\ Path(u, RecoverEdges, {"clearLock"})
        /\ Head(u) = "removeTemps" /\ (u[2] = "restoreRow" <=> journal # None)
    BY <2>2, RecoveryPath
  <2>5. {"clearLock"} \in {{s} : s \in RecoverEnds} /\ {"clearLock"} # {"landBegin"}
    BY DEF RecoverEnds
  <2>6. "recover_publication" \notin Replacements \cup {"enqueue", "tombstone_all"}
    BY DEF Replacements
  <2>. HIDE DEF u
  <2>. QED BY <1>0, <1>00, <1>01, <2>3, <2>4, <2>5, <2>6, Begins
<1>5. CASE \E j \in Jobs : CallFinish(j)
  <2>0. PICK j \in Jobs : CallFinish(j)
    BY <1>5
  <2>. DEFINE t == <<"landBegin">>
              u == RecoverySteps \o t
  <2>1. "landBegin" \in Steps
    BY DEF Steps
  <2>2. t \in Seq(Steps) /\ Path(t, RecoverEdges, {"landBegin"}) /\ Head(t) = "landBegin"
    BY <2>1, PathOne
  <2>3. Begin("finish_prepared_ci", j, u) /\ UNCHANGED server /\ j \in DOMAIN jobs
    BY <2>0 DEF CallFinish
  <2>. HIDE DEF t
  <2>4. /\ u \in Seq(Steps) /\ Path(u, RecoverEdges, {"landBegin"})
        /\ Head(u) = "removeTemps" /\ (u[2] = "restoreRow" <=> journal # None)
    BY <2>2, RecoveryPath
  <2>5. {"landBegin"} \in {{s} : s \in RecoverEnds} /\ {"landBegin"} \notin {{"clearLock"}, {"cleanRead"}}
    BY DEF RecoverEnds
  <2>6. "finish_prepared_ci" \notin Replacements \cup {"enqueue", "tombstone_all"}
    BY DEF Replacements
  <2>. HIDE DEF u
  <2>. QED BY <1>0, <1>00, <1>01, <2>3, <2>4, <2>5, <2>6, Begins
<1>. QED BY <1>1, <1>2, <1>3, <1>4, <1>5 DEF Call

LEMMA StartKeeps ==
  ASSUME StoreInv, Start
  PROVE  StoreInv'
<1>. DEFINE t == <<"cleanRead">>
            v == <<"landAbort">>
            u == RecoverySteps \o v
<1>0. "cleanRead" \in Steps /\ "landAbort" \in Steps
  BY DEF Steps
<1>1. t \in Seq(Steps) /\ Path(t, RecoverEdges, {"cleanRead"}) /\ Head(t) = "cleanRead"
  BY <1>0, PathOne
<1>2. v \in Seq(Steps) /\ Path(v, RecoverEdges, {"landAbort"}) /\ Head(v) = "landAbort"
  BY <1>0, PathOne
<1>3. /\ {"cleanRead"} \in {{s} : s \in RecoverEnds} /\ {"cleanRead"} # {"landBegin"}
      /\ "start" \in Operations /\ "start" \notin Replacements \cup {"enqueue", "tombstone_all"}
      /\ 0 \in 0 .. MaxJobs
  BY TableAssumption DEF RecoverEnds, Operations, Replacements
<1>4. Begin("start", 0, (IF land = None THEN <<>> ELSE u) \o t) /\ server' = "starting"
  BY DEF Start
<1>. HIDE DEF t, v
<1>5. /\ u \in Seq(Steps) /\ Path(u, RecoverEdges, {"landAbort"})
      /\ Head(u) = "removeTemps" /\ (u[2] = "restoreRow" <=> journal # None)
  BY <1>2, RecoveryPath
<1>. HIDE DEF u
<1>6. CASE land = None
  <2>1. Begin("start", 0, t)
    BY <1>1, <1>4, <1>6, ConcatEmptySeq
  <2>. QED BY <1>1, <1>3, <1>4, <2>1, Begins
<1>7. CASE land # None
  <2>. DEFINE w == u \o t
  <2>1. <<"landAbort", Head(t)>> \in RecoverEdges
    BY <1>1 DEF RecoverEdges
  <2>2. Len(u) # 1
    BY <1>5 DEF Path
  <2>3. /\ w \in Seq(Steps) /\ Path(w, RecoverEdges, {"cleanRead"}) /\ Head(w) = Head(u)
        /\ w[2] = u[2]
    BY <1>1, <1>5, <2>1, <2>2, PathJoin
  <2>4. Begin("start", 0, w)
    BY <1>4, <1>7
  <2>. HIDE DEF w
  <2>. QED BY <1>3, <1>4, <1>5, <2>3, <2>4, Begins
<1>. QED BY <1>6, <1>7

LEMMA BootKeeps ==
  ASSUME StoreInv, Boot
  PROVE  StoreInv'
<1>1. CASE Start
  BY <1>1, StartKeeps
<1>2. CASE \E j \in Jobs : Invalidate(j)
  <2>1. PICK j \in Jobs : Invalidate(j)
    BY <1>2
  <2>2. /\ Begin("invalidate", j, RecoverySteps \o <<"decide">>) /\ UNCHANGED server
        /\ j \in Orphans /\ Idle
    BY <2>1 DEF Invalidate
  <2>3. j \in DOMAIN jobs
    BY <2>2 DEF Orphans
  <2>4. land = None
    BY <2>1 DEF Invalidate, StoreInv
  <2>5. "invalidate" \in Operations /\ "invalidate" # "enqueue" /\ Jobs \subseteq 0 .. MaxJobs
    BY DEF Operations, Replacements, Jobs
  <2>. QED BY <2>2, <2>3, <2>4, <2>5, RequestKeeps
<1>3. CASE Open
  <2>1. /\ UNCHANGED <<jobs, tail, index, journal, temps, land, published>> /\ server' = "up" /\ Idle
        /\ UNCHANGED <<op, todo, onError, base, goal, answer, acked, faults>>
    BY <1>3 DEF Open, files
  <2>2. FileTypes' /\ FilesOK' /\ OnDisk' = OnDisk
    BY <2>1, InvFacts, TempsChange DEF FileTypes
  <2>3. BoundIn(OnDisk) = published \ {land.job}
    BY <2>1 DEF StoreInv, DiskOK, Seen
  <2>4. /\ answer \in {"none", "ok", "err"} /\ acked \subseteq Jobs /\ op = NoOp /\ todo = <<>> /\ onError = <<>>
        /\ answer = "ok" => OnDisk = goal
        /\ answer = "err" => OnDisk \in {base, goal}
    BY <2>1 DEF StoreInv, TypeOK, Idle, AnswersHold
  <2>. QED BY <2>1, <2>2, <2>3, <2>4, InvFacts, Stops
<1>. QED BY <1>1, <1>2, <1>3 DEF Boot

-----------------------------------------------------------------------------
(* From recovery to the work itself.                                       *)

(* An error with no effect on records, indexes and journals.               *)
LEMMA FailsInPlace ==
  ASSUME StoreInv, ~Idle, Return("err"), UNCHANGED <<jobs, index, journal, land, published>>,
         tail' \in BOOLEAN, temps' \subseteq {"staging", "ready", "states", "rewrite"},
         faults' \in 0 .. MaxFaults
  PROVE  StoreInv'
<1>1. acked' = acked
  BY DEF Return
<1>2. FileTypes' /\ FilesOK' /\ OnDisk' = OnDisk
  BY <1>1, InvFacts, TempsChange
<1>3. Stopping
  BY <1>2, WorkingDisk DEF Stopping
<1>. QED BY <1>3, StopsWithError

LEMMA AbortUndoes ==
  ASSUME StoreInv, journal = None, jobs' = Restored(jobs, land), published' = published \ {land.job},
         land' = None, UNCHANGED <<tail, index, journal, temps, acked>>
  PROVE  /\ FileTypes' /\ FilesOK' /\ OnDisk' = OnDisk
         /\ published' \ {land'.job} = published \ {land.job}
<1>0. FileTypes /\ FilesOK
  BY InvFacts
<1>1. /\ jobs' \in Tables /\ DOMAIN jobs' = DOMAIN jobs
      /\ \A j \in DOMAIN jobs :
           \/ jobs'[j] = jobs[j]
           \/ /\ jobs'[j] \in Record /\ jobs'[j].state = jobs[j].state /\ Live(jobs'[j]) = Live(jobs[j])
              /\ jobs[j] \notin FreshRecords /\ jobs'[j] \notin FreshRecords
  BY <1>0, LandUndone
<1>2. published' \subseteq Jobs
  BY <1>0 DEF FileTypes
<1>3. FileTypes' /\ FilesOK'
  BY <1>0, <1>1, <1>2, LandChange
<1>4. OnDisk' = OnDisk
  BY DEF OnDisk, Restored
<1>5. published' \ {land'.job} = published \ {land.job}
  BY <1>2 DEF None, Jobs
<1>. QED BY <1>3, <1>4, <1>5

LEMMA LandAbortRecovers ==
  ASSUME StoreInv, Recovering, LandAbort
  PROVE  StoreInv'
<1>0. /\ todo # <<>> /\ Head(todo) = "landAbort" /\ Advance /\ journal = None /\ OnDisk = base
      /\ jobs' = Restored(jobs, land) /\ published' = published \ {land.job} /\ land' = None
      /\ UNCHANGED <<tail, index, journal, temps, faults>>
  BY DEF LandAbort, At, AtOneOf, Recovering
<1>1. /\ Len(todo) # 1 /\ todo' = Tail(todo) /\ todo' # <<>>
      /\ <<"landAbort", Head(todo')>> \in RecoverEdges
      /\ UNCHANGED <<server, op, onError, base, goal, answer, acked>>
  BY <1>0, RecoverNext DEF RecoverEnds
<1>2. Head(todo') \in {"clearLock", "cleanRead"}
  BY <1>1 DEF RecoverEdges, UndoEdges
<1>3. FileTypes' /\ FilesOK' /\ OnDisk' = base /\ published' \ {land'.job} = published \ {land.job}
  BY <1>0, <1>1, AbortUndoes
<1>4. UndoOK'
  BY <1>1, <1>2 DEF UndoOK, AtOneOf, At
<1>5. Recovering' /\ todo' \in Seq(Steps)
  BY <1>0, <1>1, <1>2, <1>3, <1>4, RecoverMoves
<1>. QED BY <1>0, <1>1, <1>3, <1>5, GoesOn, InvFacts

LEMMA RepairPath ==
  LET u == RepairSteps \o <<"clearLock">>
  IN  u \in Seq(Steps) /\ Path(u, RebuildEdges, {"clearLock"}) /\ Head(u) # "rewrite"
<1>. DEFINE r == <<"rebuildReady">>
            s == <<"rebuildStates">>
            c == <<"clearLock">>
<1>0. "rebuildReady" \in Steps /\ "rebuildStates" \in Steps /\ "clearLock" \in Steps
  BY DEF Steps, AtomicReplaces, TempOf
<1>1. /\ r \in Seq(Steps) /\ Path(r, RebuildEdges, {"rebuildReady"}) /\ Head(r) = "rebuildReady"
      /\ s \in Seq(Steps) /\ Path(s, RebuildEdges, {"rebuildStates"}) /\ Head(s) = "rebuildStates"
      /\ c \in Seq(Steps) /\ Path(c, RebuildEdges, {"clearLock"}) /\ Head(c) = "clearLock"
  BY <1>0, PathOne
<1>2. /\ <<"rebuildReady", "rebuildStates">> \in RebuildEdges
      /\ <<"rebuildReady", "clearLock">> \in RebuildEdges
      /\ <<"rebuildStates", "clearLock">> \in RebuildEdges
  BY DEF RebuildEdges
<1>3. RepairSteps \in {<<>> \o <<>>, r \o <<>>, <<>> \o s, r \o s}
  BY DEF RepairSteps
<1>. HIDE DEF r, s, c
<1>4. /\ <<>> \in Seq(Steps) /\ <<>> \o <<>> = <<>> /\ r \o <<>> = r /\ <<>> \o s = s /\ <<>> \o c = c
  BY <1>1, ConcatEmptySeq
<1>5. r \o s \in Seq(Steps) /\ Path(r \o s, RebuildEdges, {"rebuildStates"}) /\ Head(r \o s) = "rebuildReady"
  BY <1>1, <1>2, PathJoin
<1>6. r \o c \in Seq(Steps) /\ Path(r \o c, RebuildEdges, {"clearLock"}) /\ Head(r \o c) = "rebuildReady"
  BY <1>1, <1>2, PathJoin
<1>7. s \o c \in Seq(Steps) /\ Path(s \o c, RebuildEdges, {"clearLock"}) /\ Head(s \o c) = "rebuildStates"
  BY <1>1, <1>2, PathJoin
<1>8. /\ (r \o s) \o c \in Seq(Steps) /\ Path((r \o s) \o c, RebuildEdges, {"clearLock"})
      /\ Head((r \o s) \o c) = "rebuildReady"
  BY <1>1, <1>2, <1>5, PathJoin
<1>9. RepairSteps \o c \in {c, r \o c, s \o c, (r \o s) \o c}
  BY <1>3, <1>4
<1>. QED BY <1>1, <1>6, <1>7, <1>8, <1>9 DEF c

LEMMA CleanReadRecovers ==
  ASSUME StoreInv, Recovering, CleanRead
  PROVE  StoreInv'
<1>0. /\ todo # <<>> /\ Head(todo) = "cleanRead" /\ ~op.failed /\ onError = <<>> /\ goal = base /\ OnDisk = base
      /\ UNCHANGED <<jobs, tail, index, journal, temps, land, published, faults>>
  BY DEF CleanRead, At, Recovering, files
<1>1. Has("cleanRead")
  BY <1>0, InvFacts DEF Has
<1>2. ~Idle /\ op.job = 0
  BY <1>0, <1>1, InvFacts DEF Recovering
<1>3. CASE ~Clean \/ tail
  <2>1. Return("err")
    BY <1>3 DEF CleanRead
  <2>. QED BY <1>0, <1>2, <2>1, FailsInPlace, InvFacts DEF FileTypes
<1>4. CASE ~(~Clean \/ tail)
  <2>1. /\ todo' = RepairSteps \o <<"clearLock">> /\ UNCHANGED <<server, op, onError, base, goal, answer, acked>>
        /\ land = None /\ journal = None
    BY <1>4 DEF CleanRead, Clean
  <2>2. todo' \in Seq(Steps) /\ Path(todo', RebuildEdges, {"clearLock"}) /\ Head(todo') # "rewrite"
    BY <2>1, RepairPath
  <2>3. FileTypes' /\ FilesOK' /\ jobs = base
    BY <1>0, <2>1, InvFacts, TempsChange, OnDiskIs DEF FileTypes
  <2>4. Rebuilding'
    BY <1>0, <1>2, <2>1, <2>2, <2>3 DEF Rebuilding, At
  <2>. QED BY <1>0, <1>2, <2>1, <2>2, <2>3, <2>4, GoesOn, InvFacts
<1>. QED BY <1>3, <1>4

LEMMA LandBeginRecovers ==
  ASSUME StoreInv, Recovering, LandBegin
  PROVE  StoreInv'
<1>0. /\ todo # <<>> /\ Head(todo) = "landBegin" /\ journal = None /\ OnDisk = base /\ goal = base
      /\ ~op.failed
      /\ jobs' = Restored(jobs, land) /\ published' = published \ {land.job}
      /\ UNCHANGED <<tail, index, journal, temps, faults>>
  BY DEF LandBegin, At, AtOneOf, Recovering
<1>1. Has("landBegin")
  BY <1>0, InvFacts DEF Has
<1>2. ~Idle /\ op.job \in DOMAIN base /\ FileTypes /\ FilesOK /\ base \in Table /\ op \in Operation
  BY <1>0, <1>1, InvFacts DEF Recovering
<1>3. jobs' = base
  BY <1>0 DEF OnDisk, Restored
<1>4. /\ jobs' \in Tables /\ DOMAIN jobs' = DOMAIN jobs
      /\ \A j \in DOMAIN jobs :
           \/ jobs'[j] = jobs[j]
           \/ /\ jobs'[j] \in Record /\ jobs'[j].state = jobs[j].state /\ Live(jobs'[j]) = Live(jobs[j])
              /\ jobs[j] \notin FreshRecords /\ jobs'[j] \notin FreshRecords
  BY <1>0, <1>2, LandUndone
<1>5. published' \subseteq Jobs
  BY <1>0, <1>2 DEF FileTypes
<1>6. CASE Finishable(jobs'[op.job])
  <2>1. /\ land' = [job |-> op.job, before |-> jobs'[op.job]]
        /\ todo' = <<"landPublish", "landBind", "landCommit">> /\ onError' = <<"landAbort">>
        /\ goal' = [jobs' EXCEPT ![op.job] = Bound(jobs'[op.job])]
        /\ UNCHANGED <<server, op, base, answer, acked>>
    BY <1>6 DEF LandBegin
  <2>2. land' = Image /\ Finishable(base[op.job])
    BY <1>3, <1>6, <2>1 DEF Image
  <2>3. /\ Image \in BeforeImage /\ Image # None /\ Image.job = op.job /\ Image.before = base[op.job]
        /\ base[op.job] \in Record
    BY <1>2, ImageFacts
  <2>4. /\ land' \in BeforeImage \cup {None} /\ land'.job \in DOMAIN jobs /\ Finishable(land'.before)
        /\ jobs'[land'.job] = land'.before
    BY <1>2, <1>3, <1>4, <2>2, <2>3
  <2>5. FileTypes' /\ FilesOK'
    BY <1>0, <1>2, <1>4, <1>5, <2>1, <2>4, LandChange
  <2>6. /\ "landPublish" \in Steps /\ "landBind" \in Steps /\ "landCommit" \in Steps /\ "landAbort" \in Steps
        /\ <<"landPublish", "landBind">> \in LandEdges /\ <<"landBind", "landCommit">> \in LandEdges
    BY DEF Steps, LandEdges
  <2>7. todo' \in Seq(Steps) /\ Head(todo') = "landPublish" /\ Path(todo', LandEdges, {"landCommit"})
    BY <2>1, <2>6, PathThree
  <2>8. onError' \in Seq(Steps)
    BY <2>1, <2>6
  <2>9. goal' \in Table /\ goal' = [base EXCEPT ![op.job] = Bound(base[op.job])]
    BY <1>2, <1>3, <2>1, <2>3, BoundRecord, TableExcept, TableInTables
  <2>10. published' \ {land'.job} = published \ {land.job}
    <3>1. BoundIn(base) = published \ {land.job} /\ op.job \notin BoundIn(base)
      BY <1>2, <2>2, InvFacts DEF BoundIn, Finishable
    <3>. QED BY <1>0, <2>2, <2>3, <3>1
  <2>11. Publication'
    BY <1>0, <1>2, <2>1, <2>2, <2>9 DEF Publication, Image
  <2>12. Landing'
    BY <1>0, <1>3, <2>1, <2>7, <2>11 DEF Landing, At, AtOneOf
  <2>. QED BY <1>0, <1>2, <2>1, <2>5, <2>7, <2>8, <2>9, <2>10, <2>12, GoesOn, InvFacts
<1>7. CASE ~Finishable(jobs'[op.job])
  <2>1. land' = None /\ Return("err")
    BY <1>7 DEF LandBegin
  <2>2. acked' = acked
    BY <2>1 DEF Return
  <2>3. /\ FileTypes' /\ FilesOK' /\ OnDisk' = OnDisk
        /\ published' \ {land'.job} = published \ {land.job}
    BY <1>0, <2>1, <2>2, AbortUndoes
  <2>4. Stopping
    BY <1>0, <1>2, <2>3, StopsAtBase
  <2>. QED BY <1>0, <2>1, <2>4, StopsWithError, InvFacts
<1>. QED BY <1>6, <1>7

LEMMA PutPath ==
  ASSUME NEW edges, NEW old, NEW new, <<"putReady", "putStates">> \in edges,
         old["states"] # new["states"]
  PROVE  LET c == PutSteps(old, new)
         IN  /\ c \in Seq(Steps) /\ Path(c, edges, {"putStates"})
             /\ Head(c) = IF old["ready"] # new["ready"] THEN "putReady" ELSE "putStates"
<1>. DEFINE p == <<"putReady">>
            q == <<"putStates">>
<1>0. "putReady" \in Steps /\ "putStates" \in Steps
  BY DEF Steps, AtomicReplaces, TempOf
<1>1. /\ p \in Seq(Steps) /\ Path(p, edges, {"putReady"}) /\ Head(p) = "putReady"
      /\ q \in Seq(Steps) /\ Path(q, edges, {"putStates"}) /\ Head(q) = "putStates"
  BY <1>0, PathOne
<1>2. PutSteps(old, new) = (IF old["ready"] # new["ready"] THEN p ELSE <<>>) \o q
  BY DEF PutSteps
<1>. HIDE DEF p, q
<1>3. p \o q \in Seq(Steps) /\ Path(p \o q, edges, {"putStates"}) /\ Head(p \o q) = "putReady"
  BY <1>1, PathJoin
<1>4. <<>> \o q = q
  BY <1>1, ConcatEmptySeq
<1>. QED BY <1>1, <1>2, <1>3, <1>4

(* The rows of a record in the two indexes.                                *)
LEMMA RowsDiffer ==
  ASSUME NEW j, NEW r \in Record, NEW s \in Record, Live(r), Live(s), r.state # s.state
  PROVE  /\ Rows("states", j, r) # Rows("states", j, s)
         /\ Rows("ready", j, r) = Rows("ready", j, s) => Rows("ready", j, r) = {}
<1>1. Rows("states", j, r) = {<<r.state, j>>} /\ Rows("states", j, s) = {<<s.state, j>>}
  BY DEF Rows
<1>2. Rows("ready", j, r) = (IF r.state = "queued" THEN {<<r.state, j>>} ELSE {})
  BY DEF Rows
<1>3. Rows("ready", j, s) = (IF s.state = "queued" THEN {<<s.state, j>>} ELSE {})
  BY DEF Rows
<1>4. <<r.state, j>> # <<s.state, j>>
  OBVIOUS
<1>5. Rows("states", j, r) # Rows("states", j, s)
  BY <1>1, <1>4
<1>6. ASSUME Rows("ready", j, r) = Rows("ready", j, s) PROVE Rows("ready", j, r) = {}
  BY <1>2, <1>3, <1>4, <1>6
<1>. QED BY <1>5, <1>6

LEMMA ReplacePath ==
  ASSUME NEW old, NEW new, old["states"] # new["states"]
  PROVE  LET u == ReplaceSteps(old, new)
         IN  /\ u \in Seq(Steps) /\ Path(u, ReplaceEdges, {"clearLock"}) /\ Head(u) = "publish"
             /\ \A k \in 1 .. (Len(u) - 1) :
                  u[k] \in {"writeRow", "relate"} /\ u[k + 1] = "putStates" => old["ready"] = new["ready"]
<1>. DEFINE a == <<"publish", "writeRow">>
            b == <<"unlink", "syncDirectory", "clearLock">>
            u == ReplaceSteps(old, new)
            edges == IF old["ready"] # new["ready"] THEN ReplaceEdges \ {<<"writeRow", "putStates">>} ELSE ReplaceEdges
<1>0. {"publish", "writeRow", "unlink", "syncDirectory", "clearLock"} \subseteq Steps
  BY DEF Steps, AtomicReplaces, TempOf, RowWrites
<1>1. /\ <<"publish", "writeRow">> \in edges /\ <<"unlink", "syncDirectory">> \in edges
      /\ <<"syncDirectory", "clearLock">> \in edges
      /\ <<"putReady", "putStates">> \in edges /\ <<"putStates", "unlink">> \in edges
      /\ old["ready"] # new["ready"] => <<"writeRow", "putReady">> \in edges
      /\ old["ready"] = new["ready"] => <<"writeRow", "putStates">> \in edges
  BY DEF ReplaceEdges
<1>2. /\ edges \subseteq ReplaceEdges
      /\ <<"writeRow", "putStates">> \in edges => old["ready"] = new["ready"]
      /\ <<"relate", "putStates">> \notin edges
  BY DEF ReplaceEdges
<1>. HIDE DEF edges
<1>3. a \in Seq(Steps) /\ Path(a, edges, {"writeRow"}) /\ Head(a) = "publish"
  BY <1>0, <1>1, PathTwo
<1>4. b \in Seq(Steps) /\ Path(b, edges, {"clearLock"}) /\ Head(b) = "unlink"
  BY <1>0, <1>1, PathThree
<1>. DEFINE c == PutSteps(old, new)
<1>5. u = (a \o c) \o b
  BY DEF ReplaceSteps
<1>. HIDE DEF a, b, u, c
<1>51. /\ c \in Seq(Steps) /\ Path(c, edges, {"putStates"})
       /\ <<"writeRow", Head(c)>> \in edges /\ <<"putStates", Head(b)>> \in edges
  <2>1. <<"putReady", "putStates">> \in edges
    BY <1>1
  <2>2. /\ c \in Seq(Steps) /\ Path(c, edges, {"putStates"})
        /\ Head(c) = IF old["ready"] # new["ready"] THEN "putReady" ELSE "putStates"
    BY <2>1, PutPath DEF c
  <2>3. <<"writeRow", Head(c)>> \in edges
    BY <1>1, <2>2
  <2>. QED BY <1>1, <1>4, <2>2, <2>3
<1>52. a \o c \in Seq(Steps) /\ Path(a \o c, edges, {"putStates"}) /\ Head(a \o c) = "publish"
  BY <1>3, <1>51, PathJoin
<1>6. u \in Seq(Steps) /\ Path(u, edges, {"clearLock"}) /\ Head(u) = "publish"
  BY <1>4, <1>5, <1>51, <1>52, PathJoin
<1>7. Path(u, ReplaceEdges, {"clearLock"})
  BY <1>2, <1>6, PathWider
<1>8. \A k \in 1 .. (Len(u) - 1) :
        u[k] \in {"writeRow", "relate"} /\ u[k + 1] = "putStates" => old["ready"] = new["ready"]
  BY <1>2, <1>6 DEF Path
<1>. QED BY <1>6, <1>7, <1>8 DEF u

(* What the decision starts from.                                          *)
LEMMA DecisionIs ==
  ASSUME StoreInv, Recovering, At("decide"), op.name \in Replacements \cup {"enqueue", "tombstone_all"}
  PROVE  /\ ~Idle /\ op \in Operation /\ journal = None /\ land = None /\ jobs = base
         /\ ~op.failed /\ onError = <<>> /\ FileTypes /\ FilesOK /\ base \in Table /\ base \in Tables
         /\ \A i \in DOMAIN jobs : RowsOK(i)
<1>1. /\ todo # <<>> /\ Head(todo) = "decide" /\ journal = None /\ land = None /\ OnDisk = base
      /\ ~op.failed /\ onError = <<>>
  BY DEF At, AtOneOf, Recovering
<1>2. FileTypes /\ FilesOK /\ base \in Table /\ base \in Tables /\ ~Idle /\ op \in Operation
  BY <1>1, InvFacts
<1>3. jobs = base
  BY <1>1, <1>2, OnDiskIs
<1>4. \A i \in DOMAIN jobs : i # journal.job
  BY <1>1, <1>2, TableDomain DEF FileTypes, None
<1>. QED BY <1>1, <1>2, <1>3, <1>4 DEF FilesOK

LEMMA DecideReplaceRecovers ==
  ASSUME StoreInv, Recovering, DecideReplace
  PROVE  StoreInv'
<1>. DEFINE j == op.job
            r == jobs[j]
            s == Replaced(op.name, r)
<1>0. At("decide") /\ op.name \in Replacements
  BY DEF DecideReplace
<1>1. /\ ~Idle /\ op \in Operation /\ journal = None /\ land = None /\ jobs = base
      /\ ~op.failed /\ onError = <<>> /\ FileTypes /\ FilesOK /\ base \in Table /\ base \in Tables
      /\ \A i \in DOMAIN jobs : RowsOK(i)
  BY <1>0, DecisionIs
<1>2. j \in DOMAIN base /\ r \in Record
  BY <1>0, <1>1, TableInTables DEF Recovering
<1>3. CASE ~(Admits(op.name, r) /\ NotStale(j, RowsOf(j, r), RowsOf(j, s)))
  <2>1. Return("err") /\ UNCHANGED <<jobs, tail, index, journal, temps, land, published, faults>>
    BY <1>3 DEF DecideReplace, files
  <2>. QED BY <1>1, <2>1, FailsInPlace, InvFacts DEF FileTypes
<1>4. CASE Admits(op.name, r) /\ NotStale(j, RowsOf(j, r), RowsOf(j, s))
  <2>1. Proceed(s, [jobs EXCEPT ![j] = s], j, ReplaceSteps(RowsOf(j, r), RowsOf(j, s)))
    BY <1>4 DEF DecideReplace
  <2>2. s \in Record /\ Live(r) /\ Live(s) /\ s.state # r.state
    BY <1>0, <1>2, <1>4, Replaces
  <2>3. /\ op' = [op EXCEPT !.job = j, !.record = s] /\ goal' = [jobs EXCEPT ![j] = s]
        /\ todo' = ReplaceSteps(RowsOf(j, r), RowsOf(j, s))
        /\ UNCHANGED <<jobs, tail, index, journal, temps, land, published>>
        /\ UNCHANGED <<server, onError, base, answer, acked, faults>>
    BY <2>1 DEF Proceed, files
  <2>4. /\ op' \in Operation /\ op'.job = j /\ op'.record = s /\ op'.name = op.name /\ ~op'.failed
    BY <1>1, <2>2, <2>3 DEF Operation
  <2>5. goal' \in Table
    BY <1>1, <1>2, <2>2, <2>3, TableExcept
  <2>. HIDE DEF s
  <2>6. /\ Rows("states", j, r) # Rows("states", j, s)
        /\ Rows("ready", j, r) = Rows("ready", j, s) => Rows("ready", j, r) = {}
    BY <1>2, <2>2, RowsDiffer
  <2>7. /\ RowsOf(j, r)["states"] = Rows("states", j, r) /\ RowsOf(j, s)["states"] = Rows("states", j, s)
        /\ RowsOf(j, r)["ready"] = Rows("ready", j, r) /\ RowsOf(j, s)["ready"] = Rows("ready", j, s)
    BY DEF RowsOf, Indexes
  <2>8. /\ todo' \in Seq(Steps) /\ Path(todo', ReplaceEdges, {"clearLock"}) /\ Head(todo') = "publish"
        /\ \A k \in 1 .. (Len(todo') - 1) :
             todo'[k] \in {"writeRow", "relate"} /\ todo'[k + 1] = "putStates"
               => Rows("ready", j, r) = Rows("ready", j, s)
    BY <2>3, <2>6, <2>7, ReplacePath
  <2>9. ASSUME Rows("ready", j, r) = Rows("ready", j, s) PROVE Right("ready")'
    <3>1. RowsOK(j)
      BY <1>1, <1>2
    <3>2. Listed("ready", j) \subseteq Rows("ready", j, r)
      BY <2>2, <3>1 DEF RowsOK, Indexes
    <3>3. Listed("ready", j) = Rows("ready", j, s)
      BY <2>6, <2>9, <3>2
    <3>. QED BY <2>3, <2>4, <3>3 DEF Right, Listed
  <2>10. PutOK'
    BY <2>8, <2>9 DEF PutOK, AtOneOf
  <2>11. Replacement'
    BY <1>0, <1>1, <1>2, <1>4, <2>3, <2>4 DEF Replacement, s
  <2>12. Replacing'
    BY <1>1, <2>3, <2>4, <2>8, <2>10, <2>11 DEF Replacing, At, AtOneOf, Path
  <2>13. FileTypes' /\ FilesOK'
    BY <1>1, <2>3, TempsChange DEF FileTypes
  <2>. QED BY <1>1, <2>3, <2>4, <2>5, <2>8, <2>12, <2>13, GoesOn, InvFacts
<1>. QED BY <1>3, <1>4

LEMMA EnqueuePath ==
  ASSUME NEW old, NEW new, old["states"] # new["states"]
  PROVE  LET u == <<"append", "syncRow", "relate">> \o PutSteps(old, new) \o <<"clearLock">>
         IN  /\ u \in Seq(Steps) /\ Path(u, EnqueueEdges, {"clearLock"}) /\ Head(u) = "append"
             /\ \A k \in 1 .. (Len(u) - 1) :
                  u[k] \in {"writeRow", "relate"} /\ u[k + 1] = "putStates" => old["ready"] = new["ready"]
<1>. DEFINE a == <<"append", "syncRow", "relate">>
            b == <<"clearLock">>
            c == PutSteps(old, new)
            u == (a \o c) \o b
            edges == IF old["ready"] # new["ready"] THEN EnqueueEdges \ {<<"relate", "putStates">>} ELSE EnqueueEdges
<1>0. {"append", "syncRow", "relate", "clearLock"} \subseteq Steps
  BY DEF Steps
<1>1. /\ <<"append", "syncRow">> \in edges /\ <<"syncRow", "relate">> \in edges
      /\ <<"putReady", "putStates">> \in edges /\ <<"putStates", "clearLock">> \in edges
      /\ old["ready"] # new["ready"] => <<"relate", "putReady">> \in edges
      /\ old["ready"] = new["ready"] => <<"relate", "putStates">> \in edges
  BY DEF EnqueueEdges
<1>2. /\ edges \subseteq EnqueueEdges
      /\ <<"relate", "putStates">> \in edges => old["ready"] = new["ready"]
      /\ <<"writeRow", "putStates">> \notin edges
  BY DEF EnqueueEdges
<1>. HIDE DEF edges
<1>3. a \in Seq(Steps) /\ Path(a, edges, {"relate"}) /\ Head(a) = "append"
  BY <1>0, <1>1, PathThree
<1>4. b \in Seq(Steps) /\ Path(b, edges, {"clearLock"}) /\ Head(b) = "clearLock"
  BY <1>0, PathOne
<1>. HIDE DEF a, b, c
<1>5. /\ c \in Seq(Steps) /\ Path(c, edges, {"putStates"})
      /\ <<"relate", Head(c)>> \in edges /\ <<"putStates", Head(b)>> \in edges
  <2>1. <<"putReady", "putStates">> \in edges
    BY <1>1
  <2>2. /\ c \in Seq(Steps) /\ Path(c, edges, {"putStates"})
        /\ Head(c) = IF old["ready"] # new["ready"] THEN "putReady" ELSE "putStates"
    BY <2>1, PutPath DEF c
  <2>3. <<"relate", Head(c)>> \in edges
    BY <1>1, <2>2
  <2>. QED BY <1>1, <1>4, <2>2, <2>3
<1>6. a \o c \in Seq(Steps) /\ Path(a \o c, edges, {"putStates"}) /\ Head(a \o c) = "append"
  BY <1>3, <1>5, PathJoin
<1>7. u \in Seq(Steps) /\ Path(u, edges, {"clearLock"}) /\ Head(u) = "append"
  BY <1>4, <1>5, <1>6, PathJoin
<1>. HIDE DEF u
<1>8. Path(u, EnqueueEdges, {"clearLock"})
  BY <1>2, <1>7, PathWider
<1>9. \A k \in 1 .. (Len(u) - 1) :
        u[k] \in {"writeRow", "relate"} /\ u[k + 1] = "putStates" => old["ready"] = new["ready"]
  BY <1>2, <1>7 DEF Path
<1>. QED BY <1>7, <1>8, <1>9 DEF u, a, b, c

LEMMA DecideEnqueueRecovers ==
  ASSUME StoreInv, Recovering, DecideEnqueue
  PROVE  StoreInv'
<1>0. PICK r \in FreshRecords :
        /\ At("decide") /\ op.name = "enqueue"
        /\ LET j == Len(jobs) + 1
           IN  IF NotStale(j, NoRows, RowsOf(j, r))
               THEN Proceed(r, Append(jobs, r), j,
                      <<"append", "syncRow", "relate">> \o PutSteps(NoRows, RowsOf(j, r)) \o <<"clearLock">>)
               ELSE Return("err") /\ UNCHANGED <<files, faults>>
  BY DEF DecideEnqueue
<1>. DEFINE j == Len(jobs) + 1
            steps == <<"append", "syncRow", "relate">> \o PutSteps(NoRows, RowsOf(j, r)) \o <<"clearLock">>
<1>1. /\ ~Idle /\ op \in Operation /\ journal = None /\ land = None /\ jobs = base
      /\ ~op.failed /\ onError = <<>> /\ FileTypes /\ FilesOK /\ base \in Table
  BY <1>0, DecisionIs
<1>2. Len(base) \in Nat /\ Len(base) < MaxJobs /\ MaxJobs \in Nat /\ base \in Seq(Record) /\ DOMAIN base = 1 .. Len(base)
  BY <1>0, <1>1, TableIs, TableAssumption DEF Recovering
<1>3. CASE ~NotStale(j, NoRows, RowsOf(j, r))
  <2>1. Return("err") /\ UNCHANGED <<jobs, tail, index, journal, temps, land, published, faults>>
    BY <1>0, <1>3 DEF files
  <2>. QED BY <1>1, <2>1, FailsInPlace, InvFacts DEF FileTypes
<1>4. CASE NotStale(j, NoRows, RowsOf(j, r))
  <2>1. Proceed(r, Append(jobs, r), j, steps)
    BY <1>0, <1>4
  <2>. HIDE DEF steps
  <2>2. /\ op' = [op EXCEPT !.job = j, !.record = r] /\ goal' = Append(jobs, r) /\ todo' = steps
        /\ UNCHANGED <<jobs, tail, index, journal, temps, land, published>>
        /\ UNCHANGED <<server, onError, base, answer, acked, faults>>
    BY <2>1 DEF Proceed, files
  <2>3. r \in Record /\ Live(r)
    BY FreshIs
  <2>4. j \in 0 .. MaxJobs /\ j \notin DOMAIN jobs
    BY <1>1, <1>2
  <2>5. /\ op' \in Operation /\ op'.job = j /\ op'.record = r /\ op'.name = "enqueue" /\ ~op'.failed
    BY <1>0, <1>1, <2>2, <2>3, <2>4 DEF Operation
  <2>6. goal' \in Table
    <3>1. Append(base, r) \in Seq(Record) /\ Len(Append(base, r)) = Len(base) + 1
      BY <1>2, <2>3
    <3>2. Len(base) + 1 <= MaxJobs
      BY <1>2
    <3>3. Append(base, r) \in Table
      BY <3>1, <3>2, TableIs
    <3>. QED BY <1>1, <2>2, <3>3
  <2>7. /\ NoRows["states"] = {} /\ NoRows["ready"] = {}
        /\ RowsOf(j, r)["states"] = Rows("states", j, r) /\ RowsOf(j, r)["ready"] = Rows("ready", j, r)
    BY DEF NoRows, RowsOf, Indexes
  <2>8. Rows("states", j, r) # {}
    BY <2>3 DEF Rows
  <2>9. /\ todo' \in Seq(Steps) /\ Path(todo', EnqueueEdges, {"clearLock"}) /\ Head(todo') = "append"
        /\ \A k \in 1 .. (Len(todo') - 1) :
             todo'[k] \in {"writeRow", "relate"} /\ todo'[k + 1] = "putStates" => Rows("ready", j, r) = {}
    BY <2>2, <2>7, <2>8, EnqueuePath DEF steps
  <2>10. Listed("ready", j) = {}
    BY <1>1, <2>4 DEF FilesOK, Listed, Indexes
  <2>11. Rows("ready", j, r) = {} => Right("ready")'
    BY <2>2, <2>5, <2>10 DEF Right, Listed
  <2>12. PutOK'
    BY <2>9, <2>11 DEF PutOK, AtOneOf
  <2>13. Addition'
    BY <1>1, <1>2, <2>2, <2>5 DEF Addition
  <2>14. Adding'
    BY <1>1, <2>2, <2>9, <2>12, <2>13 DEF Adding, At, AtOneOf, Path
  <2>15. FileTypes' /\ FilesOK'
    BY <1>1, <2>2, TempsChange DEF FileTypes
  <2>. QED BY <1>1, <2>2, <2>5, <2>6, <2>9, <2>14, <2>15, GoesOn, InvFacts
<1>. QED BY <1>3, <1>4

LEMMA DecideTombstoneRecovers ==
  ASSUME StoreInv, Recovering, DecideTombstone
  PROVE  StoreInv'
<1>. DEFINE a == <<"rewrite">>
            b == <<"rebuildReady", "rebuildStates", "clearLock">>
<1>0. /\ At("decide") /\ op.name = "tombstone_all"
      /\ Proceed(op.record, Tombstoned(jobs), 0, (IF jobs = Tombstoned(jobs) THEN <<>> ELSE a) \o b)
  BY DEF DecideTombstone
<1>1. /\ ~Idle /\ op \in Operation /\ journal = None /\ land = None /\ jobs = base
      /\ ~op.failed /\ onError = <<>> /\ FileTypes /\ FilesOK /\ base \in Table
  BY <1>0, DecisionIs
<1>2. /\ {"rewrite", "rebuildReady", "rebuildStates", "clearLock"} \subseteq Steps
      /\ <<"rebuildReady", "rebuildStates">> \in RebuildEdges
      /\ <<"rebuildStates", "clearLock">> \in RebuildEdges
      /\ <<"rewrite", "rebuildReady">> \in RebuildEdges
  BY DEF Steps, AtomicReplaces, TempOf, RebuildEdges
<1>3. b \in Seq(Steps) /\ Path(b, RebuildEdges, {"clearLock"}) /\ Head(b) = "rebuildReady"
  BY <1>2, PathThree
<1>4. a \in Seq(Steps) /\ Path(a, RebuildEdges, {"rewrite"}) /\ Head(a) = "rewrite"
  BY <1>2, PathOne
<1>. HIDE DEF a, b
<1>5. a \o b \in Seq(Steps) /\ Path(a \o b, RebuildEdges, {"clearLock"}) /\ Head(a \o b) = "rewrite"
  BY <1>2, <1>3, <1>4, PathJoin
<1>6. <<>> \o b = b
  BY <1>3, ConcatEmptySeq
<1>7. /\ op' = [op EXCEPT !.job = 0, !.record = op.record] /\ goal' = Tombstoned(base)
      /\ todo' = IF base = Tombstoned(base) THEN b ELSE a \o b
      /\ UNCHANGED <<jobs, tail, index, journal, temps, land, published>>
      /\ UNCHANGED <<server, onError, base, answer, acked, faults>>
  BY <1>0, <1>1, <1>6 DEF Proceed, files
<1>8. op' \in Operation /\ op'.job = 0 /\ ~op'.failed
  <2>1. 0 \in 0 .. MaxJobs
    BY TableAssumption
  <2>2. op' = [op EXCEPT !.job = 0]
    BY <1>1, <1>7 DEF Operation
  <2>. QED BY <1>1, <2>1, <2>2 DEF Operation
<1>9. /\ todo' \in Seq(Steps) /\ Path(todo', RebuildEdges, {"clearLock"})
      /\ Head(todo') = IF base = Tombstoned(base) THEN "rebuildReady" ELSE "rewrite"
  BY <1>3, <1>5, <1>7
<1>10. goal' \in Table
  BY <1>1, <1>7, TombstonedIs
<1>11. jobs' = IF Head(todo') = "rewrite" THEN base ELSE goal'
  BY <1>1, <1>7, <1>9
<1>12. Rebuilding'
  BY <1>1, <1>7, <1>8, <1>9, <1>11 DEF Rebuilding, At, Path
<1>13. FileTypes' /\ FilesOK'
  BY <1>1, <1>7, TempsChange DEF FileTypes
<1>. QED BY <1>1, <1>7, <1>8, <1>9, <1>10, <1>12, <1>13, GoesOn, InvFacts

-----------------------------------------------------------------------------
(* The steps of a phase, one after the other.                              *)

LEMMA NextStep ==
  ASSUME StoreInv, NEW edges, NEW final, Path(todo, edges, final), Head(todo) \notin final, Advance
  PROVE  /\ Len(todo) # 1 /\ todo' = Tail(todo) /\ todo' \in Seq(Steps) /\ todo' # <<>>
         /\ Path(todo', edges, final) /\ <<Head(todo), Head(todo')>> \in edges
         /\ UNCHANGED <<server, op, onError, base, goal, answer, acked>>
<1>0. todo \in Seq(Steps)
  BY InvFacts
<1>1. Len(todo) # 1
  BY <1>0, PathEnd
<1>2. todo' = Tail(todo) /\ UNCHANGED <<server, op, onError, base, goal, answer, acked>>
  BY <1>1 DEF Advance
<1>. QED BY <1>0, <1>1, <1>2, TailHas

LEMMA LastStep ==
  ASSUME StoreInv, NEW edges, NEW final, Path(todo, edges, final), Advance,
         ~\E s : <<Head(todo), s>> \in edges
  PROVE  Return(IF op.failed THEN "err" ELSE "ok")
<1>0. todo \in Seq(Steps)
  BY InvFacts
<1>1. Len(todo) = 1
  BY <1>0, PathStep
<1>. QED BY <1>1 DEF Advance

-----------------------------------------------------------------------------
(* The table is rewritten, or only its indexes.                            *)

LEMMA RebuildingFacts ==
  ASSUME StoreInv, Rebuilding
  PROVE  /\ ~Idle /\ todo # <<>> /\ ~op.failed /\ journal = None /\ land = None /\ op.job = 0
         /\ FileTypes /\ FilesOK /\ Path(todo, RebuildEdges, {"clearLock"}) /\ OnDisk = jobs
         /\ base \in Table /\ jobs \in Table /\ op \in Operation
<1>1. todo # <<>> /\ ~op.failed /\ journal = None /\ land = None /\ op.job = 0
      /\ Path(todo, RebuildEdges, {"clearLock"})
  BY DEF Rebuilding, Path
<1>2. ~Idle /\ FileTypes /\ FilesOK /\ base \in Table /\ op \in Operation
  BY <1>1, InvFacts
<1>. QED BY <1>1, <1>2, OnDiskIs

LEMMA RewriteRebuilds ==
  ASSUME StoreInv, Rebuilding, At("rewrite"), AtomicReplace("rewrite"), Advance, UNCHANGED faults
  PROVE  StoreInv'
<1>0. /\ ~Idle /\ ~op.failed /\ journal = None /\ land = None /\ op.job = 0 /\ FileTypes /\ FilesOK
      /\ Path(todo, RebuildEdges, {"clearLock"}) /\ op \in Operation
  BY RebuildingFacts
<1>1. Head(todo) = "rewrite" /\ jobs = base /\ goal = Tombstoned(base) /\ onError = <<>>
  BY DEF At, Rebuilding
<1>2. /\ todo' \in Seq(Steps) /\ todo' # <<>> /\ Path(todo', RebuildEdges, {"clearLock"})
      /\ <<"rewrite", Head(todo')>> \in RebuildEdges
      /\ UNCHANGED <<server, op, onError, base, goal, answer, acked>>
  BY <1>0, <1>1, NextStep
<1>3. Head(todo') = "rebuildReady"
  BY <1>2 DEF RebuildEdges
<1>4. /\ jobs' = Tombstoned(jobs) /\ UNCHANGED <<tail, index, journal, land, published>>
      /\ temps' \subseteq {"staging", "ready", "states", "rewrite"}
  BY <1>0, AtomicReplaceIs DEF AtomicReplaces, TempOf
<1>5. FileTypes' /\ FilesOK'
  BY <1>0, <1>2, <1>4, RewriteChange
<1>6. Rebuilding'
  BY <1>0, <1>1, <1>2, <1>3, <1>4 DEF Rebuilding, At
<1>. QED BY <1>0, <1>2, <1>4, <1>5, <1>6, GoesOn, InvFacts

LEMMA IndexRebuilds ==
  ASSUME StoreInv, Rebuilding, NEW step \in {"rebuildReady", "rebuildStates"}, At(step),
         AtomicReplace(step), Advance, UNCHANGED faults
  PROVE  StoreInv'
<1>0. /\ ~Idle /\ ~op.failed /\ journal = None /\ land = None /\ op.job = 0 /\ FileTypes /\ FilesOK
      /\ Path(todo, RebuildEdges, {"clearLock"}) /\ op \in Operation /\ jobs \in Table
  BY RebuildingFacts
<1>1. Head(todo) = step /\ jobs = goal /\ onError = <<>> /\ goal \in {base, Tombstoned(base)}
  BY DEF At, Rebuilding
<1>2. /\ todo' \in Seq(Steps) /\ todo' # <<>> /\ Path(todo', RebuildEdges, {"clearLock"})
      /\ <<step, Head(todo')>> \in RebuildEdges
      /\ UNCHANGED <<server, op, onError, base, goal, answer, acked>>
  BY <1>0, <1>1, NextStep
<1>3. Head(todo') # "rewrite"
  BY <1>2 DEF RebuildEdges
<1>4. PICK x \in Indexes :
        /\ index' = [index EXCEPT ![x] = Expected(x)] /\ UNCHANGED <<jobs, tail, journal, land, published>>
        /\ temps' \subseteq {"staging", "ready", "states", "rewrite"}
  BY <1>0, AtomicReplaceIs DEF AtomicReplaces, TempOf, Indexes
<1>5. \A j \in DOMAIN jobs : jobs[j] \in Record
  BY <1>0, TableInTables
<1>6. FileTypes' /\ FilesOK'
  BY <1>0, <1>2, <1>4, <1>5, RebuildChange
<1>7. Rebuilding'
  BY <1>0, <1>1, <1>2, <1>3, <1>4 DEF Rebuilding, At
<1>. QED BY <1>0, <1>2, <1>4, <1>6, <1>7, GoesOn, InvFacts

LEMMA ClearLockRebuilds ==
  ASSUME StoreInv, Rebuilding, At("clearLock"), Advance, UNCHANGED <<files, faults>>
  PROVE  StoreInv'
<1>0. /\ ~Idle /\ ~op.failed /\ land = None /\ op.job = 0 /\ OnDisk = jobs
      /\ Path(todo, RebuildEdges, {"clearLock"})
  BY RebuildingFacts
<1>1. Head(todo) = "clearLock" /\ jobs = goal
  BY DEF At, Rebuilding
<1>2. ~\E s : <<Head(todo), s>> \in RebuildEdges
  BY <1>1 DEF RebuildEdges
<1>3. Return("ok")
  BY <1>0, <1>2, LastStep
<1>. QED BY <1>0, <1>1, <1>3, DoneForNoJob

-----------------------------------------------------------------------------
(* A record is replaced.                                                   *)

LEMMA ReplacingFacts ==
  ASSUME StoreInv, Replacing
  PROVE  /\ ~Idle /\ todo # <<>> /\ ~op.failed /\ land = None /\ FileTypes /\ FilesOK /\ op \in Operation
         /\ Path(todo, ReplaceEdges, {"clearLock"}) /\ base \in Table /\ base \in Tables
         /\ op.job \in DOMAIN base /\ op.record \in Record /\ DOMAIN jobs = DOMAIN base
         /\ Image \in BeforeImage /\ Image # None /\ Image.job = op.job
         /\ goal = [base EXCEPT ![op.job] = op.record] /\ goal[op.job] = op.record
         /\ Replacement /\ PutOK
<1>1. /\ Replacement /\ PutOK /\ todo # <<>> /\ ~op.failed /\ Path(todo, ReplaceEdges, {"clearLock"})
      /\ jobs \in {base, goal}
  BY DEF Replacing, Path
<1>2. /\ land = None /\ op.job \in DOMAIN base /\ goal = [base EXCEPT ![op.job] = op.record]
  BY <1>1 DEF Replacement
<1>3. ~Idle /\ FileTypes /\ FilesOK /\ op \in Operation /\ base \in Table /\ base \in Tables
  BY <1>1, InvFacts
<1>4. op.record \in Record /\ DOMAIN goal = DOMAIN base /\ goal[op.job] = op.record
  BY <1>1, ReplacementIs
<1>. QED BY <1>1, <1>2, <1>3, <1>4, ImageFacts

(* A put that is left out stays unneeded.                                  *)
LEMMA PutMoves ==
  ASSUME StoreInv, NEW edges, NEW final, Path(todo, edges, final), PutOK, Len(todo) # 1,
         todo' = Tail(todo), Right("ready") => Right("ready")',
         Head(todo') \in {"putStates", "unlink", "syncDirectory", "clearLock"} => Right("ready")',
         Head(todo') \in {"unlink", "syncDirectory", "clearLock"} => Right("states")'
  PROVE  PutOK'
<1>1. \A k \in 1 .. (Len(todo') - 1) : k + 1 \in 1 .. (Len(todo) - 1)
                                    /\ todo'[k] = todo[k + 1] /\ todo'[k + 1] = todo[k + 2]
  BY InvFacts, TailHas
<1>2. ASSUME NEW k \in 1 .. (Len(todo') - 1), todo'[k] \in {"writeRow", "relate"}, todo'[k + 1] = "putStates"
      PROVE  Right("ready")'
  <2>1. k + 1 \in 1 .. (Len(todo) - 1) /\ todo[k + 1] \in {"writeRow", "relate"} /\ todo[k + 2] = "putStates"
    BY <1>1, <1>2
  <2>2. (k + 1) + 1 = k + 2
    BY <1>2
  <2>3. Right("ready")
    BY <2>1, <2>2 DEF PutOK
  <2>. QED BY <2>3
<1>. QED BY <1>2 DEF PutOK, AtOneOf

(* The put after the row, if the ready index needs none.                   *)
LEMMA PutFollows ==
  ASSUME StoreInv, NEW edges, NEW final, Path(todo, edges, final), PutOK, Len(todo) # 1,
         Head(todo) \in {"writeRow", "relate"}, todo' = Tail(todo)
  PROVE  Head(todo') = "putStates" => Right("ready")
<1>1. Head(todo') = todo[2] /\ todo # <<>>
  BY InvFacts, TailHas DEF Path
<1>2. 1 \in 1 .. (Len(todo) - 1) /\ Head(todo) = todo[1]
  <2>1. Len(todo) \in Nat /\ Len(todo) # 0
    BY <1>1, InvFacts, SeqLength
  <2>2. \A n \in Nat : n # 0 /\ n # 1 => 1 \in 1 .. (n - 1)
    OBVIOUS
  <2>3. 1 \in 1 .. (Len(todo) - 1)
    BY <2>1, <2>2
  <2>4. todo \in Seq(Steps)
    BY InvFacts
  <2>. QED BY <1>1, <2>3, <2>4
<1>3. 1 + 1 = 2
  OBVIOUS
<1>. QED BY <1>1, <1>2, <1>3 DEF PutOK

LEMMA UndoReplacementIs ==
  /\ UndoReplacement \in Seq(Steps) /\ Path(UndoReplacement, RollbackEdges, {"syncDirectory"})
  /\ Head(UndoReplacement) = "publish" /\ UndoReplacement # <<>>
<1>. DEFINE a == <<"publish">>
<1>0. "publish" \in Steps /\ <<"publish", "restoreRow">> \in RollbackEdges
  BY DEF Steps, AtomicReplaces, TempOf, RollbackEdges
<1>1. a \in Seq(Steps) /\ Path(a, RollbackEdges, {"publish"}) /\ Head(a) = "publish"
  BY <1>0, PathOne
<1>2. UndoReplacement = a \o UndoSteps
  BY DEF UndoReplacement
<1>. HIDE DEF a
<1>3. UndoSteps \in Seq(Steps) /\ Path(UndoSteps, RollbackEdges, {"syncDirectory"}) /\ Head(UndoSteps) = "restoreRow"
  BY UndoPath, PathWider DEF RollbackEdges
<1>4. /\ a \o UndoSteps \in Seq(Steps) /\ Path(a \o UndoSteps, RollbackEdges, {"syncDirectory"})
      /\ Head(a \o UndoSteps) = "publish"
  BY <1>0, <1>1, <1>3, PathJoin
<1>. QED BY <1>2, <1>4 DEF Path

LEMMA PublishReplaces ==
  ASSUME StoreInv, Replacing, Publish
  PROVE  StoreInv'
<1>0. /\ ~Idle /\ todo # <<>> /\ ~op.failed /\ land = None /\ FileTypes /\ FilesOK /\ op \in Operation
      /\ Path(todo, ReplaceEdges, {"clearLock"}) /\ op.job \in DOMAIN base /\ DOMAIN jobs = DOMAIN base
      /\ Image \in BeforeImage /\ Image # None /\ Image.job = op.job /\ Replacement /\ PutOK
  BY ReplacingFacts
<1>1. /\ Head(todo) = "publish" /\ AtomicReplace("publish") /\ todo' = Tail(todo)
      /\ onError' = UndoReplacement /\ UNCHANGED <<server, op, base, goal, answer, acked, faults>>
  BY <1>0 DEF Publish, At
<1>2. journal = None /\ jobs = base
  BY <1>0, <1>1 DEF Replacing, AtOneOf
<1>3. /\ journal' = Image /\ UNCHANGED <<jobs, index, tail, land, published>>
      /\ temps' \subseteq {"staging", "ready", "states", "rewrite"}
  BY <1>0, <1>1, AtomicReplaceIs DEF AtomicReplaces, TempOf
<1>4. FileTypes' /\ FilesOK'
  BY <1>0, <1>1, <1>2, <1>3, ImageChange DEF None
<1>5. Len(todo) # 1
  BY <1>0, <1>1, InvFacts, PathEnd
<1>6. /\ todo' \in Seq(Steps) /\ todo' # <<>> /\ Path(todo', ReplaceEdges, {"clearLock"})
      /\ <<"publish", Head(todo')>> \in ReplaceEdges
  BY <1>0, <1>1, <1>5, InvFacts, TailHas
<1>7. Head(todo') = "writeRow"
  BY <1>6 DEF ReplaceEdges
<1>8. Right("ready") => Right("ready")'
  BY <1>1, <1>3 DEF Right, Listed
<1>9. PutOK'
  BY <1>0, <1>1, <1>5, <1>7, <1>8, PutMoves
<1>10. Replacement'
  BY <1>0, <1>1, <1>3 DEF Replacement
<1>11. Image' = Image
  BY <1>1 DEF Image
<1>12. Replacing'
  BY <1>0, <1>1, <1>2, <1>3, <1>6, <1>7, <1>9, <1>10, <1>11 DEF Replacing, At, AtOneOf
<1>13. onError' \in Seq(Steps)
  BY <1>1, UndoReplacementIs
<1>. QED BY <1>0, <1>1, <1>3, <1>4, <1>6, <1>12, <1>13, GoesOn, InvFacts

(* A step of a replacement after which records, indexes and journal are    *)
(* as they have to be.                                                     *)
LEMMA ReplacingMoves ==
  ASSUME StoreInv, Replacing, Head(todo) \notin {"publish", "clearLock"}, Advance, FileTypes', FilesOK',
         UNCHANGED <<land, published, faults>>, Right("ready") => Right("ready")',
         Head(todo') \in {"putStates", "unlink", "syncDirectory", "clearLock"} => Right("ready")',
         Head(todo') \in {"unlink", "syncDirectory", "clearLock"} => Right("states")',
         journal' = (IF Head(todo') \in {"publish", "syncDirectory", "clearLock"} THEN None ELSE Image),
         jobs' = (IF Head(todo') \in {"publish", "writeRow"} THEN base ELSE goal)
  PROVE  StoreInv'
<1>0. /\ ~Idle /\ ~op.failed /\ land = None /\ Replacement /\ PutOK /\ op \in Operation
      /\ Path(todo, ReplaceEdges, {"clearLock"})
  BY ReplacingFacts
<1>1. /\ Len(todo) # 1 /\ todo' = Tail(todo) /\ todo' \in Seq(Steps) /\ todo' # <<>>
      /\ Path(todo', ReplaceEdges, {"clearLock"}) /\ <<Head(todo), Head(todo')>> \in ReplaceEdges
      /\ UNCHANGED <<server, op, onError, base, goal, answer, acked>>
  BY <1>0, NextStep
<1>2. Head(todo') # "publish"
  BY <1>1 DEF ReplaceEdges
<1>3. PutOK'
  BY <1>0, <1>1, PutMoves
<1>4. Replacement' /\ Image' = Image
  BY <1>0, <1>1 DEF Replacement, Image
<1>5. onError = UndoReplacement
  BY DEF Replacing, At
<1>6. Replacing'
  BY <1>0, <1>1, <1>2, <1>3, <1>4, <1>5 DEF Replacing, At, AtOneOf
<1>. QED BY <1>0, <1>1, <1>6, GoesOn, InvFacts

LEMMA ReplacingNext ==
  ASSUME StoreInv, Replacing, Advance
  PROVE  /\ Head(todo) = "writeRow" => /\ Head(todo') \in {"putReady", "putStates"}
                                       /\ Head(todo') = "putStates" => Right("ready")
         /\ Head(todo) = "putReady" => Head(todo') = "putStates"
         /\ Head(todo) = "putStates" => Head(todo') = "unlink"
         /\ Head(todo) = "unlink" => Head(todo') = "syncDirectory"
         /\ Head(todo) = "syncDirectory" => Head(todo') = "clearLock"
         /\ Head(todo) # "clearLock" => UNCHANGED <<op, base, goal, acked>>
<1>0. PutOK /\ Path(todo, ReplaceEdges, {"clearLock"})
  BY ReplacingFacts
<1>1. CASE Head(todo) # "clearLock"
  <2>1. /\ Len(todo) # 1 /\ todo' = Tail(todo) /\ <<Head(todo), Head(todo')>> \in ReplaceEdges
        /\ UNCHANGED <<op, base, goal, acked>>
    BY <1>0, <1>1, NextStep
  <2>2. Head(todo) = "writeRow" /\ Head(todo') = "putStates" => Right("ready")
    BY <1>0, <2>1, PutFollows
  <2>. QED BY <2>1, <2>2 DEF ReplaceEdges
<1>. QED BY <1>1

LEMMA WriteRowReplaces ==
  ASSUME StoreInv, Replacing, At("writeRow"), OverwriteRow
  PROVE  StoreInv'
<1>0. /\ ~op.failed /\ FileTypes /\ FilesOK /\ op.job \in DOMAIN base /\ op.record \in Record
      /\ Image # None /\ Image.job = op.job /\ goal = [base EXCEPT ![op.job] = op.record]
  BY ReplacingFacts
<1>1. /\ Head(todo) = "writeRow" /\ jobs' = [jobs EXCEPT ![op.job] = op.record] /\ Advance
      /\ UNCHANGED <<tail, index, journal, temps, land, published, faults>>
  BY DEF OverwriteRow, At, WriteRow, RowOf, RowAfter
<1>2. journal = Image /\ jobs = base
  BY <1>1 DEF Replacing, AtOneOf, At
<1>3. /\ Head(todo') \in {"putReady", "putStates"} /\ (Head(todo') = "putStates" => Right("ready"))
      /\ UNCHANGED <<op, acked>>
  BY <1>1, ReplacingNext
<1>4. FileTypes' /\ FilesOK'
  BY <1>0, <1>1, <1>2, <1>3, RowChange
<1>5. Right("ready") => Right("ready")'
  BY <1>1, <1>3 DEF Right, Listed
<1>. QED BY <1>0, <1>1, <1>2, <1>3, <1>4, <1>5, ReplacingMoves

LEMMA PutReadyReplaces ==
  ASSUME StoreInv, Replacing, At("putReady"), AtomicReplace("putReady"), Advance, UNCHANGED faults
  PROVE  StoreInv'
<1>0. /\ FileTypes /\ FilesOK /\ op.job \in DOMAIN base /\ op.record \in Record
      /\ Image.job = op.job /\ DOMAIN jobs = DOMAIN base
  BY ReplacingFacts
<1>1. Head(todo) = "putReady" /\ journal = Image /\ jobs = goal
  BY DEF Replacing, AtOneOf, At
<1>2. Head(todo') = "putStates" /\ UNCHANGED <<op, acked>>
  BY <1>1, ReplacingNext
<1>3. /\ index' = [index EXCEPT !["ready"] = Prepared("ready")]
      /\ UNCHANGED <<jobs, journal, tail, land, published>>
      /\ temps' \subseteq {"staging", "ready", "states", "rewrite"}
  BY <1>0, AtomicReplaceIs DEF AtomicReplaces, TempOf
<1>4. "ready" \in Indexes
  BY DEF Indexes
<1>5. /\ FileTypes' /\ FilesOK'
      /\ {row \in index'["ready"] : row[2] = op.job} = Rows("ready", op.job, op.record)
  BY <1>0, <1>1, <1>2, <1>3, <1>4, PutChange
<1>6. Right("ready")'
  BY <1>2, <1>5 DEF Right, Listed
<1>. QED BY <1>1, <1>2, <1>3, <1>5, <1>6, ReplacingMoves

LEMMA PutStatesReplaces ==
  ASSUME StoreInv, Replacing, At("putStates"), AtomicReplace("putStates"), Advance, UNCHANGED faults
  PROVE  StoreInv'
<1>0. /\ FileTypes /\ FilesOK /\ op.job \in DOMAIN base /\ op.record \in Record
      /\ Image.job = op.job /\ DOMAIN jobs = DOMAIN base /\ PutOK
  BY ReplacingFacts
<1>1. Head(todo) = "putStates" /\ journal = Image /\ jobs = goal
  BY DEF Replacing, AtOneOf, At
<1>2. Head(todo') = "unlink" /\ UNCHANGED <<op, acked>>
  BY <1>1, ReplacingNext
<1>3. /\ index' = [index EXCEPT !["states"] = Prepared("states")]
      /\ UNCHANGED <<jobs, journal, tail, land, published>>
      /\ temps' \subseteq {"staging", "ready", "states", "rewrite"}
  BY <1>0, AtomicReplaceIs DEF AtomicReplaces, TempOf
<1>4. "states" \in Indexes /\ "ready" \in Indexes /\ "ready" # "states"
  BY DEF Indexes
<1>5. /\ FileTypes' /\ FilesOK'
      /\ {row \in index'["states"] : row[2] = op.job} = Rows("states", op.job, op.record)
      /\ index'["ready"] = index["ready"]
  BY <1>0, <1>1, <1>2, <1>3, <1>4, PutChange
<1>6. Right("states")'
  BY <1>2, <1>5 DEF Right, Listed
<1>7. Right("ready") /\ Right("ready")'
  BY <1>0, <1>1, <1>2, <1>5 DEF Right, Listed, PutOK, AtOneOf, At
<1>. QED BY <1>1, <1>2, <1>3, <1>5, <1>6, <1>7, ReplacingMoves

LEMMA UnlinkReplaces ==
  ASSUME StoreInv, Replacing, Unlink
  PROVE  StoreInv'
<1>0. /\ FileTypes /\ FilesOK /\ op.job \in DOMAIN base /\ op.record \in Record
      /\ Image.job = op.job /\ Image # None /\ goal[op.job] = op.record /\ PutOK
  BY ReplacingFacts
<1>1. /\ Head(todo) = "unlink" /\ todo # <<>> /\ journal = Image /\ jobs = goal /\ journal' = None /\ Advance
      /\ UNCHANGED <<jobs, tail, index, temps, land, published, faults>>
  BY DEF Replacing, AtOneOf, At, Unlink
<1>2. Head(todo') = "syncDirectory" /\ UNCHANGED <<op, acked>>
  BY <1>1, ReplacingNext
<1>3. Right("ready") /\ Right("states")
  BY <1>0, <1>1 DEF PutOK, AtOneOf
<1>4. jobs[journal.job] \in Record /\ \A x \in Indexes : Relisted(x)
  BY <1>0, <1>1, <1>3 DEF Relisted, Right, Indexes
<1>5. FileTypes' /\ FilesOK'
  BY <1>0, <1>1, <1>2, <1>4, UnlinkChange
<1>6. Right("ready")' /\ Right("states")'
  BY <1>1, <1>2, <1>3 DEF Right, Listed
<1>. QED BY <1>1, <1>2, <1>5, <1>6, ReplacingMoves

LEMMA SyncReplaces ==
  ASSUME StoreInv, Replacing, At("syncDirectory"), Advance, UNCHANGED <<files, faults>>
  PROVE  StoreInv'
<1>0. FileTypes /\ FilesOK /\ PutOK
  BY ReplacingFacts
<1>1. /\ Head(todo) = "syncDirectory" /\ todo # <<>> /\ journal = None /\ jobs = goal
      /\ UNCHANGED <<jobs, tail, index, journal, temps, land, published, faults>>
  BY DEF Replacing, AtOneOf, At, files
<1>2. Head(todo') = "clearLock" /\ UNCHANGED <<op, acked>>
  BY <1>1, ReplacingNext
<1>3. Right("ready") /\ Right("states")
  BY <1>0, <1>1 DEF PutOK, AtOneOf
<1>4. FileTypes' /\ FilesOK'
  BY <1>0, <1>1, <1>2, TempsChange DEF FileTypes
<1>5. Right("ready")' /\ Right("states")'
  BY <1>1, <1>2, <1>3 DEF Right, Listed
<1>. QED BY <1>1, <1>2, <1>4, <1>5, ReplacingMoves

(* The caller of a request learns of its job.                              *)
LEMMA AckChange ==
  ASSUME FileTypes, FilesOK, NEW j \in DOMAIN jobs, \A x \in Indexes : Listed(x, j) = Rows(x, j, jobs[j]),
         UNCHANGED <<jobs, tail, index, journal, temps, published>>, land' \in {land, None},
         acked' = acked \cup {j}
  PROVE  FileTypes' /\ FilesOK'
<1>1. FileTypes'
  BY DEF FileTypes
<1>2. \A i \in DOMAIN jobs : RowsOK(i) => RowsOK(i)'
  BY DEF RowsOK, Listed
<1>. QED BY <1>1, <1>2 DEF FilesOK

LEMMA DoneForJob ==
  ASSUME StoreInv, ~Idle, op.job \in DOMAIN jobs, Right("ready"), Right("states"),
         jobs[op.job] = op.record, jobs = goal, journal = None, land = None, Return("ok"),
         UNCHANGED <<files, faults>>
  PROVE  StoreInv'
<1>0. FileTypes /\ FilesOK /\ BoundIn(OnDisk) = published \ {land.job} /\ OnDisk = jobs
  BY InvFacts, WorkingDisk, OnDiskIs
<1>1. op.job # 0 /\ op.job \in Jobs
  BY <1>0, TableDomain DEF FileTypes
<1>2. /\ UNCHANGED <<jobs, tail, index, journal, temps, land, published, base, goal, server>>
      /\ acked' = acked \cup {op.job} /\ op' = NoOp /\ todo' = <<>> /\ onError' = <<>> /\ answer' = "ok"
  BY <1>1 DEF files, Return
<1>3. \A x \in Indexes : Listed(x, op.job) = Rows(x, op.job, jobs[op.job])
  BY DEF Right, Indexes
<1>4. FileTypes' /\ FilesOK'
  BY <1>0, <1>2, <1>3, AckChange
<1>5. OnDisk' = OnDisk
  BY <1>2 DEF OnDisk
<1>6. server' \in {"down", "starting", "up"} /\ acked' \subseteq Jobs
  BY <1>1, <1>2 DEF StoreInv, TypeOK
<1>. QED BY <1>0, <1>2, <1>4, <1>5, <1>6, InvFacts, Stops

LEMMA ClearLockReplaces ==
  ASSUME StoreInv, Replacing, At("clearLock"), Advance, UNCHANGED <<files, faults>>
  PROVE  StoreInv'
<1>0. /\ ~Idle /\ ~op.failed /\ land = None /\ Path(todo, ReplaceEdges, {"clearLock"}) /\ PutOK
      /\ op.job \in DOMAIN base /\ DOMAIN jobs = DOMAIN base /\ goal[op.job] = op.record
  BY ReplacingFacts
<1>1. Head(todo) = "clearLock" /\ todo # <<>> /\ journal = None /\ jobs = goal
  BY DEF Replacing, AtOneOf, At
<1>2. Right("ready") /\ Right("states")
  BY <1>0, <1>1 DEF PutOK, AtOneOf
<1>3. ~\E s : <<Head(todo), s>> \in ReplaceEdges
  BY <1>1 DEF ReplaceEdges
<1>4. Return("ok")
  BY <1>0, <1>3, LastStep
<1>. QED BY <1>0, <1>1, <1>2, <1>4, DoneForJob

-----------------------------------------------------------------------------
(* A replacement is rolled back.                                           *)

LEMMA RollingBackFacts ==
  ASSUME StoreInv, RollingBack
  PROVE  /\ ~Idle /\ todo # <<>> /\ op.failed /\ land = None /\ FileTypes /\ FilesOK /\ op \in Operation
         /\ Path(todo, RollbackEdges, {"syncDirectory"}) /\ base \in Table /\ base \in Tables
         /\ op.job \in DOMAIN base /\ DOMAIN jobs = DOMAIN base /\ base[op.job] \in Record
         /\ \A i \in DOMAIN jobs : i # op.job => jobs[i] = base[i]
         /\ Image \in BeforeImage /\ Image # None /\ Image.job = op.job /\ Image.before = base[op.job]
         /\ Replacement /\ UndoOK /\ onError = <<>>
<1>1. /\ Replacement /\ UndoOK /\ AgreeElsewhere /\ todo # <<>> /\ op.failed /\ onError = <<>>
      /\ Path(todo, RollbackEdges, {"syncDirectory"})
  BY DEF RollingBack, Path
<1>2. land = None /\ op.job \in DOMAIN base /\ DOMAIN jobs = DOMAIN base
      /\ \A i \in DOMAIN jobs : i # op.job => jobs[i] = base[i]
  BY <1>1 DEF Replacement, AgreeElsewhere
<1>3. ~Idle /\ FileTypes /\ FilesOK /\ op \in Operation /\ base \in Table /\ base \in Tables
  BY <1>1, InvFacts
<1>. QED BY <1>1, <1>2, <1>3, ImageFacts

LEMMA RollingBackMoves ==
  ASSUME StoreInv, RollingBack, Len(todo) # 1, todo' = Tail(todo),
         UNCHANGED <<server, op, onError, base, goal, answer, acked>>,
         FileTypes', FilesOK', UNCHANGED <<land, published, faults>>, UndoOK', DOMAIN jobs' = DOMAIN base,
         \A i \in DOMAIN base : i # op.job => jobs'[i] = base[i],
         Head(todo') \in {"restoreRow", "rebuildReady", "rebuildStates", "unlink"} => journal' = Image,
         Head(todo') = "syncDirectory" => journal' = None /\ jobs' = base
  PROVE  StoreInv'
<1>0. /\ ~Idle /\ op.failed /\ land = None /\ op \in Operation /\ onError = <<>>
      /\ Path(todo, RollbackEdges, {"syncDirectory"}) /\ Replacement
  BY RollingBackFacts
<1>1. /\ todo' \in Seq(Steps) /\ todo' # <<>> /\ Path(todo', RollbackEdges, {"syncDirectory"})
      /\ <<Head(todo), Head(todo')>> \in RollbackEdges
  BY <1>0, InvFacts, TailHas
<1>2. Head(todo') # "publish"
  BY <1>1 DEF RollbackEdges, UndoEdges
<1>3. Replacement' /\ Image' = Image
  BY <1>0 DEF Replacement, Image
<1>4. AgreeElsewhere'
  BY DEF AgreeElsewhere
<1>5. RollingBack'
  BY <1>0, <1>1, <1>2, <1>3, <1>4 DEF RollingBack, At, AtOneOf
<1>. QED BY <1>0, <1>1, <1>5, GoesOn, InvFacts

LEMMA RollingBackNext ==
  ASSUME StoreInv, RollingBack, Head(todo) # "syncDirectory", Advance
  PROVE  /\ Len(todo) # 1 /\ todo' = Tail(todo) /\ todo' # <<>>
         /\ UNCHANGED <<server, op, onError, base, goal, answer, acked>>
         /\ Head(todo) = "restoreRow" => Head(todo') = "rebuildReady"
         /\ Head(todo) = "rebuildReady" => Head(todo') = "rebuildStates"
         /\ Head(todo) = "rebuildStates" => Head(todo') = "unlink"
         /\ Head(todo) = "unlink" => Head(todo') = "syncDirectory"
<1>0. Path(todo, RollbackEdges, {"syncDirectory"})
  BY RollingBackFacts
<1>1. /\ Len(todo) # 1 /\ todo' = Tail(todo) /\ todo' # <<>> /\ <<Head(todo), Head(todo')>> \in RollbackEdges
      /\ UNCHANGED <<server, op, onError, base, goal, answer, acked>>
  BY <1>0, NextStep
<1>. QED BY <1>1 DEF RollbackEdges, UndoEdges

LEMMA PublishRollsBack ==
  ASSUME StoreInv, RollingBack, Publish
  PROVE  StoreInv'
<1>0. /\ ~Idle /\ op.failed /\ land = None /\ FileTypes /\ FilesOK /\ op \in Operation /\ onError = <<>>
      /\ Path(todo, RollbackEdges, {"syncDirectory"}) /\ op.job \in DOMAIN base /\ DOMAIN jobs = DOMAIN base
      /\ Image \in BeforeImage /\ Image # None /\ Image.job = op.job
      /\ \A i \in DOMAIN jobs : i # op.job => jobs[i] = base[i]
  BY RollingBackFacts
<1>1. /\ Head(todo) = "publish" /\ todo # <<>> /\ AtomicReplace("publish") /\ todo' = Tail(todo)
      /\ onError' = <<>> /\ UNCHANGED <<server, op, base, goal, answer, acked, faults>>
  BY <1>0 DEF Publish, At
<1>2. journal.job \in {0, op.job}
  BY <1>0, <1>1 DEF RollingBack, At, None
<1>3. /\ journal' = Image /\ UNCHANGED <<jobs, index, tail, land, published>>
      /\ temps' \subseteq {"staging", "ready", "states", "rewrite"}
  BY <1>0, <1>1, AtomicReplaceIs DEF AtomicReplaces, TempOf
<1>4. FileTypes' /\ FilesOK'
  BY <1>0, <1>1, <1>2, <1>3, ImageChange
<1>5. Len(todo) # 1
  BY <1>0, <1>1, InvFacts, PathEnd
<1>6. <<"publish", Head(todo')>> \in RollbackEdges
  BY <1>0, <1>1, <1>5, InvFacts, TailHas
<1>7. Head(todo') = "restoreRow"
  BY <1>6 DEF RollbackEdges, UndoEdges
<1>8. UndoOK'
  BY <1>0, <1>3, <1>7 DEF UndoOK, AtOneOf, At
<1>. QED BY <1>0, <1>1, <1>3, <1>4, <1>5, <1>7, <1>8, RollingBackMoves

LEMMA RestoreRollsBack ==
  ASSUME StoreInv, RollingBack, At("restoreRow"), NEW r \in Record \cup {Mangled},
         jobs' = [jobs EXCEPT ![op.job] = r],
         UNCHANGED <<tail, index, journal, temps, land, published, acked>>
  PROVE  /\ FileTypes' /\ FilesOK' /\ OnDisk' = OnDisk
         /\ r = base[op.job] => jobs' = base
<1>0. /\ FileTypes /\ FilesOK /\ op.job \in DOMAIN base /\ DOMAIN jobs = DOMAIN base /\ base \in Tables
      /\ Image # None /\ Image.job = op.job /\ \A i \in DOMAIN jobs : i # op.job => jobs[i] = base[i]
  BY RollingBackFacts
<1>1. journal = Image
  BY DEF RollingBack, AtOneOf, At
<1>2. /\ FileTypes' /\ FilesOK' /\ OnDisk' = OnDisk
      /\ DOMAIN jobs' = DOMAIN jobs /\ jobs'[op.job] = r
      /\ \A i \in DOMAIN jobs : i # op.job => jobs'[i] = jobs[i]
  BY <1>0, <1>1, RowChange
<1>3. ASSUME r = base[op.job] PROVE jobs' = base
  <2>1. jobs' \in Tables
    BY <1>2 DEF FileTypes
  <2>2. \A i \in DOMAIN jobs' : jobs'[i] = base[i]
    BY <1>0, <1>2, <1>3
  <2>. QED BY <1>0, <1>2, <2>1, <2>2, SameTable
<1>. QED BY <1>2, <1>3

LEMMA RestoreRowRollsBack ==
  ASSUME StoreInv, RollingBack, At("restoreRow"), OverwriteRow
  PROVE  StoreInv'
<1>0. op.failed /\ base[op.job] \in Record /\ Image # None
  BY RollingBackFacts
<1>1. /\ Head(todo) = "restoreRow" /\ journal = Image /\ jobs' = [jobs EXCEPT ![op.job] = base[op.job]] /\ Advance
      /\ UNCHANGED <<tail, index, journal, temps, land, published, faults>>
  BY <1>0 DEF OverwriteRow, At, WriteRow, RowOf, RowAfter, RollingBack, AtOneOf
<1>2. /\ Len(todo) # 1 /\ todo' = Tail(todo) /\ todo' # <<>> /\ Head(todo') = "rebuildReady"
      /\ UNCHANGED <<server, op, onError, base, goal, answer, acked>>
  BY <1>1, RollingBackNext
<1>3. FileTypes' /\ FilesOK' /\ jobs' = base
  BY <1>0, <1>1, <1>2, RestoreRollsBack
<1>4. UndoOK'
  BY <1>0, <1>1, <1>2, <1>3 DEF UndoOK, AtOneOf, At
<1>. QED BY <1>1, <1>2, <1>3, <1>4, RollingBackMoves

LEMMA RebuildReadyRollsBack ==
  ASSUME StoreInv, RollingBack, At("rebuildReady"), AtomicReplace("rebuildReady"), Advance, UNCHANGED faults
  PROVE  StoreInv'
<1>0. FileTypes /\ UndoOK /\ Image # None
  BY RollingBackFacts
<1>1. Head(todo) = "rebuildReady" /\ todo # <<>> /\ journal = Image /\ jobs = base
  BY <1>0 DEF RollingBack, UndoOK, At, AtOneOf
<1>2. /\ Len(todo) # 1 /\ todo' = Tail(todo) /\ todo' # <<>> /\ Head(todo') = "rebuildStates"
      /\ UNCHANGED <<server, op, onError, base, goal, answer, acked>>
  BY <1>1, RollingBackNext
<1>3. /\ index' = [index EXCEPT !["ready"] = Expected("ready")]
      /\ UNCHANGED <<jobs, journal, tail, land, published>>
      /\ temps' \subseteq {"staging", "ready", "states", "rewrite"}
  BY <1>0, AtomicReplaceIs DEF AtomicReplaces, TempOf
<1>4. FileTypes' /\ FilesOK' /\ Relisted("ready")'
  BY <1>0, <1>1, <1>2, <1>3, UndoRebuilds DEF Indexes
<1>5. UndoOK'
  BY <1>0, <1>1, <1>2, <1>3, <1>4 DEF UndoOK, AtOneOf, At
<1>. QED BY <1>1, <1>2, <1>3, <1>4, <1>5, RollingBackMoves

LEMMA RebuildStatesRollsBack ==
  ASSUME StoreInv, RollingBack, At("rebuildStates"), AtomicReplace("rebuildStates"), Advance, UNCHANGED faults
  PROVE  StoreInv'
<1>0. FileTypes /\ UndoOK /\ Image # None
  BY RollingBackFacts
<1>1. Head(todo) = "rebuildStates" /\ todo # <<>> /\ journal = Image /\ jobs = base /\ Relisted("ready")
  BY <1>0 DEF RollingBack, UndoOK, At, AtOneOf
<1>2. /\ Len(todo) # 1 /\ todo' = Tail(todo) /\ todo' # <<>> /\ Head(todo') = "unlink"
      /\ UNCHANGED <<server, op, onError, base, goal, answer, acked>>
  BY <1>1, RollingBackNext
<1>3. /\ index' = [index EXCEPT !["states"] = Expected("states")]
      /\ UNCHANGED <<jobs, journal, tail, land, published>>
      /\ temps' \subseteq {"staging", "ready", "states", "rewrite"}
  BY <1>0, AtomicReplaceIs DEF AtomicReplaces, TempOf
<1>4. FileTypes' /\ FilesOK' /\ Relisted("ready")' /\ Relisted("states")'
  BY <1>0, <1>1, <1>2, <1>3, UndoRebuilds DEF Indexes
<1>5. UndoOK'
  BY <1>0, <1>1, <1>2, <1>3, <1>4 DEF UndoOK, AtOneOf, At
<1>. QED BY <1>1, <1>2, <1>3, <1>4, <1>5, RollingBackMoves

LEMMA UnlinkRollsBack ==
  ASSUME StoreInv, RollingBack, Unlink
  PROVE  StoreInv'
<1>0. UndoOK
  BY RollingBackFacts
<1>1. /\ At("unlink") /\ Head(todo) = "unlink" /\ todo # <<>> /\ journal' = None /\ Advance
      /\ UNCHANGED <<jobs, tail, index, temps, land, published, faults>>
  BY DEF Unlink, At
<1>2. /\ Len(todo) # 1 /\ todo' = Tail(todo) /\ todo' # <<>> /\ Head(todo') = "syncDirectory"
      /\ UNCHANGED <<server, op, onError, base, goal, answer, acked>>
  BY <1>1, RollingBackNext
<1>3. FileTypes' /\ FilesOK' /\ jobs = base
  BY <1>0, <1>1, <1>2, UndoUnlinks
<1>4. UndoOK'
  BY <1>2 DEF UndoOK, AtOneOf, At
<1>. QED BY <1>1, <1>2, <1>3, <1>4, RollingBackMoves

LEMMA SyncRollsBack ==
  ASSUME StoreInv, RollingBack, At("syncDirectory"), Advance, UNCHANGED <<files, faults>>
  PROVE  StoreInv'
<1>0. ~Idle /\ op.failed /\ Path(todo, RollbackEdges, {"syncDirectory"}) /\ FileTypes
  BY RollingBackFacts
<1>1. /\ Head(todo) = "syncDirectory" /\ UNCHANGED <<jobs, tail, index, journal, temps, land, published, faults>>
  BY DEF At, files
<1>2. ~\E s : <<Head(todo), s>> \in RollbackEdges
  BY <1>1 DEF RollbackEdges, UndoEdges
<1>3. Return("err")
  BY <1>0, <1>2, LastStep
<1>. QED BY <1>0, <1>1, <1>3, FailsInPlace, InvFacts DEF FileTypes

-----------------------------------------------------------------------------
(* A record is appended.                                                   *)

LEMMA AddingFacts ==
  ASSUME StoreInv, Adding
  PROVE  /\ ~Idle /\ todo # <<>> /\ journal = None /\ land = None /\ FileTypes /\ FilesOK /\ op \in Operation
         /\ Path(todo, EnqueueEdges, {"clearLock"}) /\ Addition /\ PutOK
         /\ op.record \in Record /\ op.record \in FreshRecords /\ op.job \in DOMAIN goal
         /\ goal[op.job] = op.record /\ goal = Append(base, op.record)
         /\ op.job = Len(base) + 1 /\ op.job <= MaxJobs
<1>1. Addition /\ PutOK /\ todo # <<>> /\ Path(todo, EnqueueEdges, {"clearLock"})
  BY DEF Adding, Path
<1>2. ~Idle /\ FileTypes /\ FilesOK /\ op \in Operation
  BY <1>1, InvFacts
<1>3. /\ journal = None /\ land = None /\ op.record \in FreshRecords /\ goal = Append(base, op.record)
      /\ op.job = Len(base) + 1
  BY <1>1 DEF Addition
<1>. QED BY <1>1, <1>2, <1>3, AdditionIs

LEMMA AddingMoves ==
  ASSUME StoreInv, Adding, Len(todo) # 1, todo' = Tail(todo), FileTypes', FilesOK', op' \in Operation,
         op'.name = op.name, op'.job = op.job, op'.record = op.record, onError' \in Seq(Steps),
         UNCHANGED <<journal, land, published, server, base, goal, answer, acked>>, faults' \in 0 .. MaxFaults,
         Right("ready") => Right("ready")',
         Head(todo') \in {"putStates", "unlink", "syncDirectory", "clearLock"} => Right("ready")',
         Head(todo') \in {"unlink", "syncDirectory", "clearLock"} => Right("states")',
         onError' = (IF Head(todo') \in {"append", "syncRow"} THEN <<>> ELSE <<"rebuildReady", "rebuildStates">>),
         jobs' = goal
  PROVE  StoreInv'
<1>0. ~Idle /\ Addition /\ PutOK /\ Path(todo, EnqueueEdges, {"clearLock"})
  BY AddingFacts
<1>1. /\ todo' \in Seq(Steps) /\ todo' # <<>> /\ Path(todo', EnqueueEdges, {"clearLock"})
      /\ <<Head(todo), Head(todo')>> \in EnqueueEdges
  BY <1>0, InvFacts, TailHas
<1>2. Head(todo') # "append"
  BY <1>1 DEF EnqueueEdges
<1>3. PutOK'
  BY <1>0, PutMoves
<1>4. Addition'
  BY <1>0 DEF Addition
<1>5. Adding'
  BY <1>1, <1>2, <1>3, <1>4 DEF Adding, At, AtOneOf
<1>. QED BY <1>0, <1>1, <1>5, GoesOn, InvFacts

LEMMA AddingNext ==
  ASSUME StoreInv, Adding, Head(todo) # "clearLock", todo' = Tail(todo)
  PROVE  /\ Len(todo) # 1
         /\ Head(todo) = "append" => Head(todo') = "syncRow"
         /\ Head(todo) = "syncRow" => Head(todo') = "relate"
         /\ Head(todo) = "relate" => /\ Head(todo') \in {"putReady", "putStates"}
                                     /\ Head(todo') = "putStates" => Right("ready")
         /\ Head(todo) = "putReady" => Head(todo') = "putStates"
         /\ Head(todo) = "putStates" => Head(todo') = "clearLock"
<1>0. PutOK /\ Path(todo, EnqueueEdges, {"clearLock"})
  BY AddingFacts
<1>1. Len(todo) # 1
  BY <1>0, InvFacts, PathEnd
<1>2. <<Head(todo), Head(todo')>> \in EnqueueEdges
  BY <1>0, <1>1, InvFacts, TailHas
<1>3. Head(todo) = "relate" /\ Head(todo') = "putStates" => Right("ready")
  BY <1>0, <1>1, PutFollows
<1>. QED BY <1>1, <1>2, <1>3 DEF EnqueueEdges

LEMMA AddingAdvances ==
  ASSUME StoreInv, Adding, Head(todo) # "clearLock", Advance
  PROVE  todo' = Tail(todo) /\ UNCHANGED <<server, op, onError, base, goal, answer, acked>>
<1>0. Path(todo, EnqueueEdges, {"clearLock"})
  BY AddingFacts
<1>. QED BY <1>0, NextStep

LEMMA AppendAdds ==
  ASSUME StoreInv, Adding, AppendRow
  PROVE  StoreInv'
<1>0. /\ journal = None /\ land = None /\ FileTypes /\ FilesOK /\ op \in Operation
      /\ op.record \in FreshRecords /\ goal = Append(base, op.record)
      /\ op.job = Len(base) + 1 /\ op.job <= MaxJobs
  BY AddingFacts
<1>1. /\ Head(todo) = "append" /\ todo # <<>> /\ jobs' = Append(jobs, op.record) /\ Advance
      /\ UNCHANGED <<tail, index, journal, temps, land, published, faults>>
  BY DEF AppendRow, At
<1>2. jobs = base /\ onError = <<>>
  BY <1>1 DEF Adding, At, AtOneOf
<1>3. todo' = Tail(todo) /\ UNCHANGED <<server, op, onError, base, goal, answer, acked>>
  BY <1>1, AddingAdvances
<1>4. Len(todo) # 1 /\ Head(todo') = "syncRow"
  BY <1>1, <1>3, AddingNext
<1>5. FileTypes' /\ FilesOK'
  BY <1>0, <1>1, <1>2, <1>3, AppendChange
<1>6. Right("ready") => Right("ready")'
  BY <1>1, <1>3 DEF Right, Listed
<1>7. onError' \in Seq(Steps)
  BY <1>3, InvFacts
<1>. QED BY <1>0, <1>1, <1>2, <1>3, <1>4, <1>5, <1>6, <1>7, AddingMoves, InvFacts

LEMMA ReindexPath ==
  LET u == <<"rebuildReady", "rebuildStates">>
  IN  /\ u \in Seq(Steps) /\ u # <<>> /\ Head(u) = "rebuildReady"
      /\ Path(u, ReindexEdges, {"rebuildStates"})
<1>1. "rebuildReady" \in Steps /\ "rebuildStates" \in Steps /\ <<"rebuildReady", "rebuildStates">> \in ReindexEdges
  BY DEF Steps, AtomicReplaces, TempOf, ReindexEdges
<1>. QED BY <1>1, PathTwo DEF Path

LEMMA SyncRowAdds ==
  ASSUME StoreInv, Adding, SyncRow
  PROVE  StoreInv'
<1>0. FileTypes /\ FilesOK /\ op \in Operation
  BY AddingFacts
<1>1. /\ Head(todo) = "syncRow" /\ todo # <<>> /\ todo' = Tail(todo)
      /\ onError' = <<"rebuildReady", "rebuildStates">>
      /\ UNCHANGED <<jobs, tail, index, journal, temps, land, published>>
      /\ UNCHANGED <<server, op, base, goal, answer, acked, faults>>
  BY DEF SyncRow, At, files
<1>2. jobs = goal
  BY <1>1 DEF Adding, At
<1>3. Len(todo) # 1 /\ Head(todo') = "relate"
  BY <1>1, AddingNext
<1>4. FileTypes' /\ FilesOK'
  BY <1>0, <1>1, TempsChange DEF FileTypes
<1>5. Right("ready") => Right("ready")'
  BY <1>1 DEF Right, Listed
<1>6. onError' \in Seq(Steps)
  BY <1>1, ReindexPath
<1>. QED BY <1>0, <1>1, <1>2, <1>3, <1>4, <1>5, <1>6, AddingMoves, InvFacts

LEMMA RelateAdds ==
  ASSUME StoreInv, Adding, Relate
  PROVE  StoreInv'
<1>0. FileTypes /\ FilesOK /\ op \in Operation
  BY AddingFacts
<1>1. /\ Head(todo) = "relate" /\ todo # <<>> /\ todo' = Tail(todo)
      /\ UNCHANGED <<jobs, tail, index, journal, temps, land, published>>
      /\ UNCHANGED <<server, onError, base, goal, answer, acked>>
  BY DEF Relate, At, files
<1>2. jobs = goal /\ onError = <<"rebuildReady", "rebuildStates">>
  BY <1>1 DEF Adding, At, AtOneOf
<1>3. /\ Len(todo) # 1 /\ Head(todo') \in {"putReady", "putStates"}
      /\ Head(todo') = "putStates" => Right("ready")
  BY <1>1, AddingNext
<1>4. FileTypes' /\ FilesOK'
  BY <1>0, <1>1, TempsChange DEF FileTypes
<1>5. /\ op' \in Operation /\ op'.name = op.name /\ op'.job = op.job /\ op'.record = op.record
  <2>1. op' = op \/ op' = [op EXCEPT !.failed = TRUE]
    BY DEF Relate
  <2>2. CASE op' = [op EXCEPT !.failed = TRUE]
    BY <1>0, <2>2 DEF Operation
  <2>. QED BY <1>0, <2>1, <2>2
<1>6. faults' \in 0 .. MaxFaults
  BY InvFacts, FaultAssumption DEF Relate
<1>7. Right("ready") => Right("ready")'
  BY <1>1, <1>5 DEF Right, Listed
<1>8. onError' \in Seq(Steps)
  BY <1>1, InvFacts
<1>. QED BY <1>1, <1>2, <1>3, <1>4, <1>5, <1>6, <1>7, <1>8, AddingMoves

LEMMA PutReadyAdds ==
  ASSUME StoreInv, Adding, At("putReady"), AtomicReplace("putReady"), Advance, UNCHANGED faults
  PROVE  StoreInv'
<1>0. /\ FileTypes /\ FilesOK /\ op.job \in DOMAIN goal /\ op.record \in Record /\ op \in Operation
      /\ goal[op.job] = op.record
  BY AddingFacts
<1>1. Head(todo) = "putReady" /\ jobs = goal /\ onError = <<"rebuildReady", "rebuildStates">>
  BY DEF Adding, AtOneOf, At
<1>2. todo' = Tail(todo) /\ UNCHANGED <<server, op, onError, base, goal, answer, acked>>
  BY <1>1, AddingAdvances
<1>3. Len(todo) # 1 /\ Head(todo') = "putStates"
  BY <1>1, <1>2, AddingNext
<1>4. /\ index' = [index EXCEPT !["ready"] = Prepared("ready")]
      /\ UNCHANGED <<jobs, journal, tail, land, published>>
      /\ temps' \subseteq {"staging", "ready", "states", "rewrite"}
  BY <1>0, AtomicReplaceIs DEF AtomicReplaces, TempOf
<1>5. "ready" \in Indexes
  BY DEF Indexes
<1>6. /\ FileTypes' /\ FilesOK'
      /\ {row \in index'["ready"] : row[2] = op.job} = Rows("ready", op.job, op.record)
  BY <1>0, <1>1, <1>2, <1>4, <1>5, PutChange
<1>7. Right("ready")'
  BY <1>2, <1>6 DEF Right, Listed
<1>8. onError' \in Seq(Steps)
  BY <1>2, InvFacts
<1>. QED BY <1>0, <1>1, <1>2, <1>3, <1>4, <1>6, <1>7, <1>8, AddingMoves, InvFacts

LEMMA PutStatesAdds ==
  ASSUME StoreInv, Adding, At("putStates"), AtomicReplace("putStates"), Advance, UNCHANGED faults
  PROVE  StoreInv'
<1>0. /\ FileTypes /\ FilesOK /\ op.job \in DOMAIN goal /\ op.record \in Record /\ op \in Operation
      /\ goal[op.job] = op.record /\ PutOK
  BY AddingFacts
<1>1. Head(todo) = "putStates" /\ jobs = goal /\ onError = <<"rebuildReady", "rebuildStates">>
  BY DEF Adding, AtOneOf, At
<1>2. todo' = Tail(todo) /\ UNCHANGED <<server, op, onError, base, goal, answer, acked>>
  BY <1>1, AddingAdvances
<1>3. Len(todo) # 1 /\ Head(todo') = "clearLock"
  BY <1>1, <1>2, AddingNext
<1>4. /\ index' = [index EXCEPT !["states"] = Prepared("states")]
      /\ UNCHANGED <<jobs, journal, tail, land, published>>
      /\ temps' \subseteq {"staging", "ready", "states", "rewrite"}
  BY <1>0, AtomicReplaceIs DEF AtomicReplaces, TempOf
<1>5. "states" \in Indexes /\ "ready" \in Indexes /\ "ready" # "states"
  BY DEF Indexes
<1>6. /\ FileTypes' /\ FilesOK'
      /\ {row \in index'["states"] : row[2] = op.job} = Rows("states", op.job, op.record)
      /\ index'["ready"] = index["ready"]
  BY <1>0, <1>1, <1>2, <1>4, <1>5, PutChange
<1>7. Right("states")'
  BY <1>2, <1>6 DEF Right, Listed
<1>8. Right("ready")'
  BY <1>0, <1>1, <1>2, <1>6 DEF Right, Listed, PutOK, AtOneOf, At
<1>9. onError' \in Seq(Steps)
  BY <1>2, InvFacts
<1>. QED BY <1>0, <1>1, <1>2, <1>3, <1>4, <1>6, <1>7, <1>8, <1>9, AddingMoves, InvFacts

LEMMA ClearLockAdds ==
  ASSUME StoreInv, Adding, At("clearLock"), Advance, UNCHANGED <<files, faults>>
  PROVE  StoreInv'
<1>0. /\ ~Idle /\ journal = None /\ land = None /\ Path(todo, EnqueueEdges, {"clearLock"}) /\ PutOK
      /\ op.job \in DOMAIN goal /\ goal[op.job] = op.record /\ FileTypes /\ op \in Operation
  BY AddingFacts
<1>1. /\ Head(todo) = "clearLock" /\ todo # <<>> /\ jobs = goal
      /\ UNCHANGED <<jobs, tail, index, journal, temps, land, published, faults>>
  BY DEF Adding, At, files
<1>2. Right("ready") /\ Right("states")
  BY <1>0, <1>1 DEF PutOK, AtOneOf
<1>3. ~\E s : <<Head(todo), s>> \in EnqueueEdges
  BY <1>1 DEF EnqueueEdges
<1>4. Return(IF op.failed THEN "err" ELSE "ok")
  BY <1>0, <1>3, LastStep
<1>5. CASE op.failed
  BY <1>0, <1>1, <1>4, <1>5, FailsInPlace, InvFacts DEF FileTypes
<1>6. CASE ~op.failed
  BY <1>0, <1>1, <1>2, <1>4, <1>6, DoneForJob DEF files
<1>. QED BY <1>5, <1>6

(* A failed enqueue rebuilds the indexes.                                  *)
LEMMA IndexReindexes ==
  ASSUME StoreInv, Reindexing, NEW step \in {"rebuildReady", "rebuildStates"}, At(step),
         AtomicReplace(step), Advance, UNCHANGED faults
  PROVE  StoreInv'
<1>0. /\ Addition /\ op.failed /\ onError = <<>> /\ jobs = goal /\ Head(todo) = step /\ todo # <<>>
      /\ Path(todo, ReindexEdges, {"rebuildStates"})
  BY DEF Reindexing, At
<1>1. ~Idle /\ FileTypes /\ FilesOK /\ op \in Operation /\ goal \in Table
  BY <1>0, InvFacts
<1>2. PICK x \in Indexes :
        /\ index' = [index EXCEPT ![x] = Expected(x)] /\ UNCHANGED <<jobs, tail, journal, land, published>>
        /\ temps' \subseteq {"staging", "ready", "states", "rewrite"}
  BY <1>1, AtomicReplaceIs DEF AtomicReplaces, TempOf, Indexes
<1>3. \A j \in DOMAIN jobs : jobs[j] \in Record
  BY <1>0, <1>1, TableInTables
<1>4. ASSUME acked' = acked PROVE FileTypes' /\ FilesOK' /\ OnDisk' = OnDisk
  BY <1>1, <1>2, <1>3, <1>4, RebuildChange
<1>5. CASE step = "rebuildReady"
  <2>1. /\ todo' \in Seq(Steps) /\ todo' # <<>> /\ Path(todo', ReindexEdges, {"rebuildStates"})
        /\ UNCHANGED <<server, op, onError, base, goal, answer, acked>>
    BY <1>0, <1>5, NextStep
  <2>2. Addition'
    BY <1>0, <1>2, <2>1 DEF Addition
  <2>3. Reindexing'
    BY <1>0, <1>2, <2>1, <2>2 DEF Reindexing
  <2>. QED BY <1>1, <1>2, <1>4, <2>1, <2>3, GoesOn, InvFacts
<1>6. CASE step = "rebuildStates"
  <2>1. ~\E s : <<Head(todo), s>> \in ReindexEdges
    BY <1>0, <1>6 DEF ReindexEdges
  <2>2. Return("err")
    BY <1>0, <2>1, LastStep
  <2>3. acked' = acked
    BY <2>2 DEF Return
  <2>4. Stopping
    BY <1>1, <1>2, <1>4, <2>3, WorkingDisk DEF Stopping
  <2>. QED BY <2>2, <2>4, StopsWithError, InvFacts
<1>. QED BY <1>5, <1>6

-----------------------------------------------------------------------------
(* A job is bound and its Patchset published.                              *)

LEMMA LandingFacts ==
  ASSUME StoreInv, Landing
  PROVE  /\ ~Idle /\ todo # <<>> /\ ~op.failed /\ journal = None /\ FileTypes /\ FilesOK /\ op \in Operation
         /\ Path(todo, LandEdges, {"landCommit"}) /\ Publication /\ onError = <<"landAbort">>
         /\ base \in Table /\ base \in Tables /\ op.job \in DOMAIN base /\ op.job \in Jobs /\ op.job # 0
         /\ land = Image /\ land # None /\ land.job = op.job /\ land.before = base[op.job]
         /\ base[op.job] \in Record /\ Finishable(base[op.job])
         /\ DOMAIN jobs = DOMAIN base
<1>1. /\ Publication /\ todo # <<>> /\ ~op.failed /\ Path(todo, LandEdges, {"landCommit"})
      /\ onError = <<"landAbort">> /\ jobs \in {base, goal}
  BY DEF Landing, Path
<1>2. ~Idle /\ FileTypes /\ FilesOK /\ op \in Operation /\ base \in Table /\ base \in Tables
  BY <1>1, InvFacts
<1>3. journal = None /\ op.job \in DOMAIN base /\ land = Image /\ Finishable(base[op.job])
  BY <1>1 DEF Publication
<1>4. op.job \in Jobs
  BY <1>2, <1>3, TableDomain
<1>. QED BY <1>1, <1>2, <1>3, <1>4, PublicationIs

LEMMA LandingMoves ==
  ASSUME StoreInv, Landing, Head(todo) # "landCommit", Advance, FileTypes', FilesOK',
         UNCHANGED <<journal, land, faults>>, published' \ {op.job} = published \ {op.job},
         jobs' = IF Head(todo) = "landBind" THEN goal ELSE base, op.job \in published'
  PROVE  StoreInv'
<1>0. /\ ~Idle /\ ~op.failed /\ op \in Operation /\ Publication /\ onError = <<"landAbort">>
      /\ Path(todo, LandEdges, {"landCommit"}) /\ land.job = op.job
  BY LandingFacts
<1>1. /\ todo' \in Seq(Steps) /\ todo' # <<>> /\ Path(todo', LandEdges, {"landCommit"})
      /\ <<Head(todo), Head(todo')>> \in LandEdges
      /\ UNCHANGED <<server, op, onError, base, goal, answer, acked>>
  BY <1>0, NextStep
<1>2. Head(todo') = "landCommit" <=> Head(todo) = "landBind"
  BY <1>1 DEF LandEdges
<1>3. Publication'
  BY <1>0, <1>1 DEF Publication, Image
<1>4. Landing'
  BY <1>0, <1>1, <1>2, <1>3 DEF Landing, At, AtOneOf
<1>. QED BY <1>0, <1>1, <1>4, GoesOn, InvFacts

LEMMA LandPublishLands ==
  ASSUME StoreInv, Landing, LandPublish
  PROVE  StoreInv'
<1>0. /\ journal = None /\ FileTypes /\ FilesOK /\ op.job \in Jobs /\ land.job = op.job
      /\ Path(todo, LandEdges, {"landCommit"})
  BY LandingFacts
<1>1. /\ Head(todo) = "landPublish" /\ published' = published \cup {op.job} /\ Advance
      /\ UNCHANGED <<jobs, tail, index, journal, temps, land, faults>>
  BY DEF LandPublish, At
<1>2. jobs = base
  BY <1>1 DEF Landing, At
<1>3. acked' = acked
  BY <1>0, <1>1, NextStep
<1>4. published' \subseteq Jobs /\ jobs \in Tables /\ land \in BeforeImage \cup {None}
  BY <1>0, <1>1 DEF FileTypes
<1>5. land # None => /\ land.job \in DOMAIN jobs /\ Finishable(land.before)
                     /\ jobs[land.job] \in {land.before, Bound(land.before)}
  BY <1>0 DEF FilesOK
<1>6. FileTypes' /\ FilesOK'
  BY <1>0, <1>1, <1>3, <1>4, <1>5, LandChange
<1>. QED BY <1>1, <1>2, <1>6, LandingMoves

LEMMA LandBindLands ==
  ASSUME StoreInv, Landing, LandBind
  PROVE  StoreInv'
<1>0. /\ journal = None /\ FileTypes /\ FilesOK /\ op.job \in Jobs /\ land.job = op.job /\ land # None
      /\ Path(todo, LandEdges, {"landCommit"}) /\ op.job \in DOMAIN base /\ base[op.job] \in Record
      /\ land.before = base[op.job] /\ Finishable(base[op.job]) /\ base \in Tables
  BY LandingFacts
<1>1. /\ Head(todo) = "landBind" /\ todo # <<>> /\ jobs' = [jobs EXCEPT ![op.job] = Bound(jobs[op.job])] /\ Advance
      /\ UNCHANGED <<tail, index, journal, temps, land, published, faults>>
  BY DEF LandBind, At
<1>2. jobs = base /\ op.job \in published
  BY <1>1 DEF Landing, At, AtOneOf
<1>3. acked' = acked
  BY <1>0, <1>1, NextStep
<1>4. published' \subseteq Jobs /\ land \in BeforeImage \cup {None}
  BY <1>0, <1>1 DEF FileTypes
<1>5. goal = [base EXCEPT ![op.job] = Bound(base[op.job])]
  BY DEF Landing, Publication
<1>. DEFINE r == base[op.job]
<1>6. /\ Bound(r) \in Record /\ Bound(r).state = r.state /\ Live(Bound(r)) = Live(r)
      /\ r \notin FreshRecords /\ Bound(r) \notin FreshRecords
  BY <1>0, FinishableIs
<1>7. /\ jobs' \in Tables /\ DOMAIN jobs' = DOMAIN jobs /\ jobs'[op.job] = Bound(r)
      /\ \A i \in DOMAIN jobs : i # op.job => jobs'[i] = jobs[i]
  BY <1>0, <1>1, <1>2, <1>6, TableExcept
<1>8. \A j \in DOMAIN jobs :
        \/ jobs'[j] = jobs[j]
        \/ /\ jobs'[j] \in Record /\ jobs'[j].state = jobs[j].state /\ Live(jobs'[j]) = Live(jobs[j])
           /\ jobs[j] \notin FreshRecords /\ jobs'[j] \notin FreshRecords
  BY <1>2, <1>6, <1>7
<1>9. /\ land.job \in DOMAIN jobs /\ Finishable(land.before)
      /\ jobs'[land.job] \in {land.before, Bound(land.before)}
  BY <1>0, <1>2, <1>7
<1>10. FileTypes' /\ FilesOK'
  BY <1>0, <1>1, <1>3, <1>4, <1>7, <1>8, <1>9, LandChange
<1>. QED BY <1>1, <1>2, <1>5, <1>10, LandingMoves

LEMMA LandCommitLands ==
  ASSUME StoreInv, Landing, LandCommit
  PROVE  StoreInv'
<1>0. /\ ~Idle /\ ~op.failed /\ journal = None /\ FileTypes /\ FilesOK /\ op.job \in Jobs /\ op.job # 0
      /\ land.job = op.job /\ Publication /\ Path(todo, LandEdges, {"landCommit"})
      /\ op.job \in DOMAIN base /\ base[op.job] \in Record /\ Finishable(base[op.job])
  BY LandingFacts
<1>1. /\ Head(todo) = "landCommit" /\ todo # <<>> /\ land' = None /\ Advance
      /\ UNCHANGED <<jobs, tail, index, journal, temps, published, faults>>
  BY DEF LandCommit, At
<1>2. jobs = goal /\ op.job \in published
  BY <1>1 DEF Landing, At, AtOneOf
<1>3. ~\E s : <<Head(todo), s>> \in LandEdges
  BY <1>1 DEF LandEdges
<1>4. Return("ok")
  BY <1>0, <1>1, <1>3, LastStep
<1>5. /\ UNCHANGED <<base, goal, server>>
      /\ acked' = acked \cup {op.job} /\ op' = NoOp /\ todo' = <<>> /\ onError' = <<>> /\ answer' = "ok"
  BY <1>0, <1>4 DEF Return
<1>6. op.job \in DOMAIN jobs /\ jobs[op.job] = Bound(base[op.job]) /\ BoundIn(goal) = BoundIn(base) \cup {op.job}
  BY <1>0, <1>2, PublicationIs
<1>7. \A x \in Indexes : Listed(x, op.job) = Rows(x, op.job, jobs[op.job])
  <2>1. jobs[op.job] \notin FreshRecords /\ Live(jobs[op.job])
    BY <1>0, <1>6, FinishableIs DEF Finishable
  <2>2. RowsOK(op.job)
    BY <1>0, <1>6 DEF FilesOK, None
  <2>. QED BY <2>1, <2>2 DEF RowsOK
<1>8. FileTypes' /\ FilesOK'
  BY <1>0, <1>1, <1>5, <1>6, <1>7, AckChange
<1>9. OnDisk' = goal
  BY <1>0, <1>1, <1>2 DEF OnDisk, Restored
<1>10. (BoundIn(OnDisk) = published \ {land.job})'
  <2>1. BoundIn(base) = published \ {op.job} /\ 0 \notin published
    <3>1. 0 \notin Jobs
      BY DEF Jobs
    <3>. QED BY <1>0, <3>1, InvFacts DEF FileTypes
  <2>2. BoundIn(goal) = published
    BY <1>2, <1>6, <2>1
  <2>3. published' \ {land'.job} = published
    BY <1>1, <2>1 DEF None
  <2>. QED BY <1>9, <2>2, <2>3 DEF BoundIn
<1>11. server' \in {"down", "starting", "up"} /\ acked' \subseteq Jobs
  BY <1>0, <1>5 DEF StoreInv, TypeOK
<1>. QED BY <1>1, <1>5, <1>8, <1>9, <1>10, <1>11, InvFacts, Stops

LEMMA LandAbortAborts ==
  ASSUME StoreInv, Aborting, LandAbort
  PROVE  StoreInv'
<1>0. /\ op.failed /\ todo = <<"landAbort">> /\ journal = None /\ Advance
      /\ jobs' = Restored(jobs, land) /\ published' = published \ {land.job} /\ land' = None
      /\ UNCHANGED <<tail, index, journal, temps, faults>>
  BY DEF LandAbort, Aborting, Publication
<1>1. Len(todo) = 1 /\ todo # <<>>
  BY <1>0
<1>2. Return("err")
  BY <1>0, <1>1 DEF Advance
<1>3. acked' = acked
  BY <1>2 DEF Return
<1>4. ~Idle
  BY <1>1, InvFacts
<1>5. FileTypes' /\ FilesOK' /\ OnDisk' = OnDisk /\ published' \ {land'.job} = published \ {land.job}
  BY <1>0, <1>3, AbortUndoes
<1>6. Stopping
  BY <1>4, <1>5, WorkingDisk DEF Stopping
<1>. QED BY <1>0, <1>2, <1>6, StopsWithError, InvFacts

-----------------------------------------------------------------------------
(* Every step that succeeds.                                               *)

LEMMA PhaseOf ==
  ASSUME StoreInv, NEW step, At(step)
  PROVE  /\ Head(todo) = step /\ todo # <<>> /\ ~Idle
         /\ \/ Recovering /\ step \in
                 {"removeTemps", "restoreRow", "rebuildReady", "rebuildStates", "unlink", "syncDirectory",
                  "decide", "landBegin", "landAbort", "clearLock", "cleanRead"}
            \/ Rebuilding /\ step \in {"rewrite", "rebuildReady", "rebuildStates", "clearLock"}
            \/ Replacing /\ step \in
                 {"publish", "writeRow", "putReady", "putStates", "unlink", "syncDirectory", "clearLock"}
            \/ RollingBack /\ step \in
                 {"publish", "restoreRow", "rebuildReady", "rebuildStates", "unlink", "syncDirectory"}
            \/ Adding /\ step \in {"append", "syncRow", "relate", "putReady", "putStates", "clearLock"}
            \/ Reindexing /\ step \in {"rebuildReady", "rebuildStates"}
            \/ Landing /\ step \in {"landPublish", "landBind", "landCommit"}
            \/ Aborting /\ step = "landAbort"
<1>1. Head(todo) = step /\ todo # <<>>
  BY DEF At
<1>2. ~Idle
  BY <1>1, InvFacts
<1>. QED BY <1>1, <1>2, InvFacts, PhaseHeads

LEMMA ReplaceFileKeeps ==
  ASSUME StoreInv, ReplaceFile
  PROVE  StoreInv'
<1>0. PICK step \in AtomicReplaces \ {"publish"} : At(step) /\ AtomicReplace(step) /\ Advance /\ UNCHANGED faults
  BY DEF ReplaceFile
<1>1. step \in {"putReady", "rebuildReady", "putStates", "rebuildStates", "rewrite"}
  BY DEF AtomicReplaces, TempOf
<1>2. CASE step = "putReady"
  <2>1. Replacing \/ Adding
    BY <1>0, <1>2, PhaseOf
  <2>. QED BY <1>0, <1>2, <2>1, PutReadyReplaces, PutReadyAdds
<1>3. CASE step = "putStates"
  <2>1. Replacing \/ Adding
    BY <1>0, <1>3, PhaseOf
  <2>. QED BY <1>0, <1>3, <2>1, PutStatesReplaces, PutStatesAdds
<1>4. CASE step = "rebuildReady"
  <2>1. Recovering \/ Rebuilding \/ RollingBack \/ Reindexing
    BY <1>0, <1>4, PhaseOf
  <2>. QED BY <1>0, <1>4, <2>1, RebuildReadyRecovers, IndexRebuilds, RebuildReadyRollsBack, IndexReindexes
<1>5. CASE step = "rebuildStates"
  <2>1. Recovering \/ Rebuilding \/ RollingBack \/ Reindexing
    BY <1>0, <1>5, PhaseOf
  <2>. QED BY <1>0, <1>5, <2>1, RebuildStatesRecovers, IndexRebuilds, RebuildStatesRollsBack, IndexReindexes
<1>6. CASE step = "rewrite"
  <2>1. Rebuilding
    BY <1>0, <1>6, PhaseOf
  <2>. QED BY <1>0, <1>6, <2>1, RewriteRebuilds
<1>. QED BY <1>1, <1>2, <1>3, <1>4, <1>5, <1>6

LEMMA StepKeeps ==
  ASSUME StoreInv, Step
  PROVE  StoreInv'
<1>1. CASE RemoveTemps
  <2>1. At("removeTemps")
    BY <1>1 DEF RemoveTemps
  <2>2. Recovering
    BY <2>1, PhaseOf
  <2>. QED BY <1>1, <2>2, RemoveTempsRecovers
<1>2. CASE DecideReplace \/ DecideEnqueue \/ DecideTombstone
  <2>1. At("decide")
    BY <1>2 DEF DecideReplace, DecideEnqueue, DecideTombstone
  <2>2. Recovering
    BY <2>1, PhaseOf
  <2>. QED BY <1>2, <2>2, DecideReplaceRecovers, DecideEnqueueRecovers, DecideTombstoneRecovers
<1>3. CASE Publish
  <2>1. At("publish")
    BY <1>3 DEF Publish
  <2>2. Replacing \/ RollingBack
    BY <2>1, PhaseOf
  <2>. QED BY <1>3, <2>2, PublishReplaces, PublishRollsBack
<1>4. CASE ReplaceFile
  BY <1>4, ReplaceFileKeeps
<1>5. CASE OverwriteRow
  <2>1. At("writeRow") \/ At("restoreRow")
    BY <1>5 DEF OverwriteRow, RowWrites
  <2>2. At("writeRow") => Replacing
    BY PhaseOf
  <2>3. At("restoreRow") => Recovering \/ RollingBack
    BY PhaseOf
  <2>. QED BY <1>5, <2>1, <2>2, <2>3, WriteRowReplaces, RestoreRowRecovers, RestoreRowRollsBack
<1>6. CASE AppendRow
  <2>1. At("append")
    BY <1>6 DEF AppendRow
  <2>2. Adding
    BY <2>1, PhaseOf
  <2>. QED BY <1>6, <2>2, AppendAdds
<1>7. CASE SyncRow
  <2>1. At("syncRow")
    BY <1>7 DEF SyncRow
  <2>2. Adding
    BY <2>1, PhaseOf
  <2>. QED BY <1>7, <2>2, SyncRowAdds
<1>8. CASE Relate
  <2>1. At("relate")
    BY <1>8 DEF Relate
  <2>2. Adding
    BY <2>1, PhaseOf
  <2>. QED BY <1>8, <2>2, RelateAdds
<1>9. CASE Unlink
  <2>1. At("unlink")
    BY <1>9 DEF Unlink
  <2>2. Recovering \/ Replacing \/ RollingBack
    BY <2>1, PhaseOf
  <2>. QED BY <1>9, <2>2, UnlinkRecovers, UnlinkReplaces, UnlinkRollsBack
<1>10. CASE Barrier
  <2>1. /\ At("syncDirectory") \/ At("clearLock")
        /\ Advance /\ UNCHANGED <<files, faults>>
    BY <1>10 DEF Barrier
  <2>2. At("syncDirectory") => Recovering \/ Replacing \/ RollingBack
    BY PhaseOf
  <2>3. At("clearLock") => Recovering \/ Rebuilding \/ Replacing \/ Adding
    BY PhaseOf
  <2>4. CASE At("syncDirectory")
    BY <2>1, <2>2, <2>4, SyncRecovers, SyncReplaces, SyncRollsBack
  <2>5. CASE At("clearLock")
    BY <2>1, <2>3, <2>5, ClearLockRecovers, ClearLockRebuilds, ClearLockReplaces, ClearLockAdds
  <2>. QED BY <2>1, <2>4, <2>5
<1>11. CASE CleanRead
  <2>1. At("cleanRead")
    BY <1>11 DEF CleanRead
  <2>2. Recovering
    BY <2>1, PhaseOf
  <2>. QED BY <1>11, <2>2, CleanReadRecovers
<1>12. CASE LandBegin
  <2>1. At("landBegin")
    BY <1>12 DEF LandBegin
  <2>2. Recovering
    BY <2>1, PhaseOf
  <2>. QED BY <1>12, <2>2, LandBeginRecovers
<1>13. CASE LandPublish \/ LandBind \/ LandCommit
  <2>1. At("landPublish") \/ At("landBind") \/ At("landCommit")
    BY <1>13 DEF LandPublish, LandBind, LandCommit
  <2>2. Landing
    BY <2>1, PhaseOf
  <2>. QED BY <1>13, <2>2, LandPublishLands, LandBindLands, LandCommitLands
<1>14. CASE LandAbort
  <2>1. At("landAbort")
    BY <1>14 DEF LandAbort
  <2>2. Recovering \/ Aborting
    BY <2>1, PhaseOf
  <2>. QED BY <1>14, <2>2, LandAbortRecovers, LandAbortAborts
<1>. QED BY <1>1, <1>2, <1>3, <1>4, <1>5, <1>6, <1>7, <1>8, <1>9, <1>10, <1>11, <1>12, <1>13, <1>14 DEF Step

-----------------------------------------------------------------------------
(* Errors that start an undo.                                              *)

LEMMA UndoStarts ==
  ASSUME StoreInv, Replacing, Head(todo) # "publish", Errored, FileTypes', FilesOK',
         UNCHANGED <<land, published>>, faults' \in 0 .. MaxFaults, DOMAIN jobs' = DOMAIN base,
         \A i \in DOMAIN base : i # op.job => jobs'[i] = base[i],
         journal' = Image \/ (journal' = None /\ jobs' = goal)
  PROVE  StoreInv'
<1>0. ~Idle /\ op \in Operation /\ land = None /\ Replacement
  BY ReplacingFacts
<1>1. onError = UndoReplacement
  BY DEF Replacing, At
<1>2. /\ todo' = UndoReplacement /\ onError' = <<>> /\ op' = [op EXCEPT !.failed = TRUE]
      /\ UNCHANGED <<server, base, goal, answer, acked>>
  BY <1>1, UndoReplacementIs DEF Errored
<1>3. /\ op' \in Operation /\ op'.failed /\ op'.name = op.name /\ op'.job = op.job /\ op'.record = op.record
  BY <1>0, <1>2 DEF Operation
<1>4. /\ todo' \in Seq(Steps) /\ Path(todo', RollbackEdges, {"syncDirectory"}) /\ Head(todo') = "publish"
      /\ onError' \in Seq(Steps)
  BY <1>2, UndoReplacementIs
<1>5. Replacement' /\ Image' = Image
  BY <1>0, <1>2, <1>3 DEF Replacement, Image
<1>6. AgreeElsewhere'
  BY <1>2, <1>3 DEF AgreeElsewhere
<1>7. UndoOK'
  BY <1>4 DEF UndoOK, AtOneOf, At
<1>8. RollingBack'
  BY <1>2, <1>3, <1>4, <1>5, <1>6, <1>7 DEF RollingBack, At, AtOneOf
<1>. QED BY <1>0, <1>2, <1>3, <1>4, <1>8, GoesOn, InvFacts

LEMMA ReindexStarts ==
  ASSUME StoreInv, Adding, Head(todo) \notin {"append", "syncRow"}, Errored, FileTypes', FilesOK',
         UNCHANGED <<jobs, journal, land, published>>, faults' \in 0 .. MaxFaults
  PROVE  StoreInv'
<1>0. ~Idle /\ op \in Operation /\ Addition
  BY AddingFacts
<1>1. onError = <<"rebuildReady", "rebuildStates">> /\ jobs = goal
  BY DEF Adding, At, AtOneOf
<1>2. onError \in Seq(Steps) /\ onError # <<>> /\ Path(onError, ReindexEdges, {"rebuildStates"})
  BY <1>1, ReindexPath
<1>3. /\ todo' = onError /\ onError' = <<>> /\ op' = [op EXCEPT !.failed = TRUE]
      /\ UNCHANGED <<server, base, goal, answer, acked>>
  BY <1>2 DEF Errored
<1>4. /\ op' \in Operation /\ op'.failed /\ op'.name = op.name /\ op'.job = op.job /\ op'.record = op.record
  BY <1>0, <1>3 DEF Operation
<1>5. Addition'
  BY <1>0, <1>3, <1>4 DEF Addition
<1>6. Reindexing'
  BY <1>1, <1>2, <1>3, <1>4, <1>5 DEF Reindexing
<1>7. onError' \in Seq(Steps)
  BY <1>3
<1>. QED BY <1>0, <1>2, <1>3, <1>4, <1>6, <1>7, GoesOn, InvFacts

LEMMA AbortStarts ==
  ASSUME StoreInv, Landing, Errored, FileTypes', FilesOK',
         UNCHANGED <<jobs, journal, land, published>>, faults' \in 0 .. MaxFaults
  PROVE  StoreInv'
<1>0. ~Idle /\ op \in Operation /\ Publication /\ onError = <<"landAbort">>
  BY LandingFacts
<1>1. jobs \in {base, goal}
  BY DEF Landing
<1>2. /\ todo' = <<"landAbort">> /\ onError' = <<>> /\ op' = [op EXCEPT !.failed = TRUE]
      /\ UNCHANGED <<server, base, goal, answer, acked>>
  BY <1>0 DEF Errored
<1>3. /\ op' \in Operation /\ op'.failed /\ op'.job = op.job
  BY <1>0, <1>2 DEF Operation
<1>4. todo' \in Seq(Steps) /\ onError' \in Seq(Steps)
  BY <1>2 DEF Steps
<1>5. Publication'
  BY <1>0, <1>2, <1>3 DEF Publication, Image
<1>6. Aborting'
  BY <1>1, <1>2, <1>3, <1>5 DEF Aborting
<1>. QED BY <1>0, <1>2, <1>3, <1>4, <1>6, GoesOn, InvFacts

(* A step fails without effect on records, indexes and journals.           *)
LEMMA ErrsInPlace ==
  ASSUME StoreInv, ~Idle, Errored, UNCHANGED <<jobs, index, journal, land, published>>,
         tail' \in BOOLEAN, temps' \subseteq {"staging", "ready", "states", "rewrite"},
         faults' \in 0 .. MaxFaults
  PROVE  StoreInv'
<1>1. CASE onError = <<>>
  BY <1>1, FailsInPlace DEF Errored
<1>2. CASE onError # <<>>
  <2>0. acked' = acked
    BY <1>2 DEF Errored
  <2>1. FileTypes' /\ FilesOK'
    BY <2>0, InvFacts, TempsChange
  <2>2. CASE Replacing
    <3>1. Head(todo) # "publish" /\ todo # <<>> /\ jobs \in {base, goal}
      BY <1>2, <2>2 DEF Replacing, At, Path
    <3>2. journal = Image \/ (journal = None /\ jobs = goal)
      BY <2>2, <3>1 DEF Replacing, At, AtOneOf
    <3>3. DOMAIN jobs = DOMAIN base /\ \A i \in DOMAIN base : i # op.job => jobs[i] = base[i]
      BY <2>2, <3>1, ReplacementIs DEF Replacing
    <3>. QED BY <2>1, <2>2, <3>1, <3>2, <3>3, UndoStarts
  <2>3. CASE Adding
    <3>1. Head(todo) \notin {"append", "syncRow"}
      BY <1>2, <2>3 DEF Adding, AtOneOf, Path
    <3>. QED BY <2>1, <2>3, <3>1, ReindexStarts
  <2>4. CASE Landing
    BY <2>1, <2>4, AbortStarts
  <2>. QED BY <1>2, <2>2, <2>3, <2>4, InvFacts DEF Recovering, Rebuilding, RollingBack, Reindexing, Aborting
<1>. QED BY <1>1, <1>2

-----------------------------------------------------------------------------
(* Faults.                                                                 *)

LEMMA FaultCounts ==
  ASSUME StoreInv, NEW kind, Fault(kind)
  PROVE  faults' \in 0 .. MaxFaults
BY InvFacts, FaultAssumption DEF Fault

(* An error of an operation that has no error path.                        *)
LEMMA ErrsAndStops ==
  ASSUME StoreInv, ~Idle, Errored, onError = <<>>, FileTypes', FilesOK', faults' \in 0 .. MaxFaults,
         OnDisk' \in {base, goal}, BoundIn(OnDisk') = published' \ {land'.job}
  PROVE  StoreInv'
<1>1. Return("err")
  BY DEF Errored
<1>2. Stopping
  BY DEF Stopping
<1>. QED BY <1>1, <1>2, StopsWithError

LEMMA ErrorKeepsAcked ==
  ASSUME Errored
  PROVE  acked' = acked
<1>1. CASE onError = <<>>
  BY <1>1 DEF Errored, Return
<1>2. CASE onError # <<>>
  BY <1>2 DEF Errored
<1>. QED BY <1>1, <1>2

(* The journal holds the record the operation found.                       *)
LEMMA ImageDisk ==
  ASSUME StoreInv, Replacement, FileTypes', FilesOK', journal' = Image, DOMAIN jobs' = DOMAIN base,
         \A i \in DOMAIN base : i # op.job => jobs'[i] = base[i]
  PROVE  OnDisk' = base
<1>0. op.job \in DOMAIN base /\ base \in Table /\ base \in Tables
  BY InvFacts DEF Replacement
<1>1. /\ Image \in BeforeImage /\ Image # None /\ Image.job = op.job /\ Image.before = base[op.job]
  BY <1>0, ImageFacts
<1>2. land' = None /\ jobs' \in Tables
  BY <1>1 DEF FilesOK, FileTypes
<1>3. OnDisk' = Restored(jobs', Image)
  BY <1>2 DEF OnDisk, Restored
<1>. QED BY <1>0, <1>1, <1>2, <1>3, RestoredTo

LEMMA PublishErrs ==
  ASSUME StoreInv, At("publish"), AtomicReplace("publish"), Errored, faults' \in 0 .. MaxFaults
  PROVE  StoreInv'
<1>1. Head(todo) = "publish" /\ todo # <<>> /\ ~Idle /\ (Replacing \/ RollingBack)
  BY PhaseOf
<1>2. /\ Replacement /\ onError = <<>> /\ DOMAIN jobs = DOMAIN base /\ op.job \in DOMAIN base
      /\ FileTypes /\ FilesOK /\ land = None
      /\ \A i \in DOMAIN base : i # op.job => jobs[i] = base[i]
      /\ Image \in BeforeImage /\ Image # None /\ Image.job = op.job
  <2>1. CASE Replacing
    BY <1>1, <2>1, ReplacingFacts DEF Replacing, At, AtOneOf
  <2>2. CASE RollingBack
    BY <2>2, RollingBackFacts
  <2>. QED BY <1>1, <2>1, <2>2
<1>3. journal.job \in {0, op.job}
  BY <1>1, <1>2 DEF Replacing, RollingBack, At, AtOneOf, None
<1>4. /\ journal' = Image /\ UNCHANGED <<jobs, index, tail, land, published>>
      /\ temps' \subseteq {"staging", "ready", "states", "rewrite"}
  BY <1>2, AtomicReplaceIs DEF AtomicReplaces, TempOf
<1>5. FileTypes' /\ FilesOK'
  BY <1>2, <1>3, <1>4, ErrorKeepsAcked, ImageChange
<1>6. OnDisk' = base
  BY <1>2, <1>4, <1>5, ImageDisk
<1>7. BoundIn(base) = published' \ {land'.job}
  BY <1>1, <1>4, InvFacts
<1>8. OnDisk' \in {base, goal} /\ BoundIn(OnDisk') = published' \ {land'.job}
  BY <1>6, <1>7
<1>. QED BY <1>1, <1>2, <1>5, <1>8, ErrsAndStops

LEMMA PutErrs ==
  ASSUME StoreInv, NEW step \in {"putReady", "putStates"}, At(step), AtomicReplace(step), Errored,
         faults' \in 0 .. MaxFaults
  PROVE  StoreInv'
<1>1. Head(todo) = step /\ todo # <<>> /\ ~Idle /\ (Replacing \/ Adding)
  BY PhaseOf
<1>0. FileTypes /\ FilesOK /\ jobs = goal
  BY <1>1, InvFacts DEF Replacing, Adding, At, AtOneOf
<1>2. PICK x \in Indexes :
        /\ index' = [index EXCEPT ![x] = Prepared(x)] /\ UNCHANGED <<jobs, tail, journal, land, published>>
        /\ temps' \subseteq {"staging", "ready", "states", "rewrite"}
  BY <1>0, AtomicReplaceIs DEF AtomicReplaces, TempOf, Indexes
<1>3. op.record \in Record /\ op.job \in DOMAIN jobs /\ jobs[op.job] = op.record
  <2>1. CASE Replacing
    BY <1>0, <2>1, ReplacingFacts
  <2>2. CASE Adding
    BY <1>0, <2>2, AddingFacts
  <2>. QED BY <1>1, <2>1, <2>2
<1>4. FileTypes' /\ FilesOK'
  BY <1>0, <1>2, <1>3, ErrorKeepsAcked, PutChange
<1>5. CASE Replacing
  <2>1. journal = Image
    BY <1>1, <1>5 DEF Replacing, At, AtOneOf
  <2>2. DOMAIN jobs = DOMAIN base /\ \A i \in DOMAIN base : i # op.job => jobs[i] = base[i]
    BY <1>0, <1>5, ReplacementIs DEF Replacing
  <2>. QED BY <1>1, <1>2, <1>4, <1>5, <2>1, <2>2, UndoStarts
<1>6. CASE Adding
  BY <1>1, <1>2, <1>4, <1>6, ReindexStarts
<1>. QED BY <1>1, <1>5, <1>6

LEMMA RebuildErrs ==
  ASSUME StoreInv, NEW step \in {"rebuildReady", "rebuildStates"}, At(step), AtomicReplace(step), Errored,
         faults' \in 0 .. MaxFaults
  PROVE  StoreInv'
<1>1. /\ Head(todo) = step /\ todo # <<>> /\ ~Idle
      /\ Recovering \/ Rebuilding \/ RollingBack \/ Reindexing
  BY PhaseOf
<1>0. FileTypes /\ FilesOK /\ base \in Table /\ goal \in Table
  BY InvFacts
<1>2. jobs \in {base, goal} /\ onError = <<>>
  BY <1>1 DEF Recovering, Rebuilding, RollingBack, Reindexing, UndoOK, At, AtOneOf
<1>3. \A j \in DOMAIN jobs : jobs[j] \in Record
  BY <1>0, <1>2, TableInTables
<1>4. PICK x \in Indexes :
        /\ index' = [index EXCEPT ![x] = Expected(x)] /\ UNCHANGED <<jobs, tail, journal, land, published>>
        /\ temps' \subseteq {"staging", "ready", "states", "rewrite"}
  BY <1>0, AtomicReplaceIs DEF AtomicReplaces, TempOf, Indexes
<1>5. FileTypes' /\ FilesOK' /\ OnDisk' = OnDisk
  BY <1>0, <1>3, <1>4, ErrorKeepsAcked, RebuildChange
<1>6. OnDisk' \in {base, goal} /\ BoundIn(OnDisk') = published' \ {land'.job}
  BY <1>1, <1>4, <1>5, WorkingDisk
<1>. QED BY <1>1, <1>2, <1>5, <1>6, ErrsAndStops

LEMMA RewriteErrs ==
  ASSUME StoreInv, At("rewrite"), AtomicReplace("rewrite"), Errored, faults' \in 0 .. MaxFaults
  PROVE  StoreInv'
<1>1. Head(todo) = "rewrite" /\ todo # <<>> /\ ~Idle /\ Rebuilding
  BY PhaseOf
<1>2. /\ journal = None /\ land = None /\ FileTypes /\ FilesOK /\ base \in Table
      /\ jobs = base /\ goal = Tombstoned(base) /\ onError = <<>>
  BY <1>1, RebuildingFacts DEF Rebuilding, At
<1>3. /\ jobs' = Tombstoned(jobs) /\ UNCHANGED <<tail, index, journal, land, published>>
      /\ temps' \subseteq {"staging", "ready", "states", "rewrite"}
  BY <1>2, AtomicReplaceIs DEF AtomicReplaces, TempOf
<1>4. FileTypes' /\ FilesOK' /\ OnDisk' = goal
  BY <1>2, <1>3, ErrorKeepsAcked, RewriteChange
<1>5. BoundIn(goal) = BoundIn(base)
  BY <1>2, TombstonedIs DEF BoundIn
<1>6. OnDisk' \in {base, goal} /\ BoundIn(OnDisk') = published' \ {land'.job}
  BY <1>1, <1>3, <1>4, <1>5, InvFacts
<1>. QED BY <1>1, <1>2, <1>4, <1>6, ErrsAndStops

LEMMA TempsAre ==
  ASSUME NEW step \in AtomicReplaces
  PROVE  TempOf[step] \in {"staging", "ready", "states", "rewrite"}
BY DEF AtomicReplaces, TempOf

LEMMA ReplaceFailsKeeps ==
  ASSUME StoreInv, ReplaceFails
  PROVE  StoreInv'
<1>0. PICK step \in AtomicReplaces :
        /\ At(step) /\ Fault("io") /\ Errored
        /\ \/ /\ temps' \in {temps, temps \ {TempOf[step]}, temps \cup {TempOf[step]}}
              /\ UNCHANGED <<jobs, tail, index, journal, land, published>>
           \/ AtomicReplace(step)
  BY DEF ReplaceFails
<1>1. faults' \in 0 .. MaxFaults /\ ~Idle /\ FileTypes
  BY <1>0, FaultCounts, PhaseOf, InvFacts
<1>2. CASE /\ temps' \in {temps, temps \ {TempOf[step]}, temps \cup {TempOf[step]}}
           /\ UNCHANGED <<jobs, tail, index, journal, land, published>>
  <2>1. tail' \in BOOLEAN /\ temps' \subseteq {"staging", "ready", "states", "rewrite"}
    BY <1>1, <1>2, TempsAre DEF FileTypes
  <2>. QED BY <1>0, <1>1, <1>2, <2>1, ErrsInPlace
<1>3. CASE AtomicReplace(step)
  <2>1. step \in {"publish", "putReady", "rebuildReady", "putStates", "rebuildStates", "rewrite"}
    BY DEF AtomicReplaces, TempOf
  <2>. QED BY <1>0, <1>1, <1>3, <2>1, PublishErrs, PutErrs, RebuildErrs, RewriteErrs
<1>. QED BY <1>0, <1>2, <1>3

(* Records are overwritten under the journal only.                         *)
LEMMA RowWriteIs ==
  ASSUME StoreInv, NEW step \in RowWrites, At(step)
  PROVE  /\ journal # None /\ RowOf(step) = journal.job
         /\ RowAfter(step) \in Record /\ jobs[RowOf(step)] \in Record \cup {Mangled}
<1>0. FileTypes /\ FilesOK
  BY InvFacts
<1>1. step = "writeRow" => Replacing
  BY PhaseOf
<1>2. step = "restoreRow" => Recovering \/ RollingBack
  BY PhaseOf
<1>3. step = "writeRow" \/ step = "restoreRow"
  BY DEF RowWrites
<1>4. journal # None /\ RowOf(step) = journal.job /\ RowAfter(step) \in Record
  <2>1. CASE Replacing /\ step = "writeRow"
    <3>1. journal = Image
      BY <2>1 DEF Replacing, At, AtOneOf
    <3>. QED BY <2>1, <3>1, ReplacingFacts DEF RowOf, RowAfter
  <2>2. CASE Recovering /\ step = "restoreRow"
    <3>1. journal # None /\ ~op.failed
      BY <2>2 DEF Recovering, UndoOK, At, AtOneOf
    <3>2. journal.before \in Record
      BY <1>0, <3>1, ImageIs DEF FileTypes
    <3>. QED BY <2>2, <3>1, <3>2 DEF RowOf, RowAfter
  <2>3. CASE RollingBack /\ step = "restoreRow"
    <3>1. journal = Image
      BY <2>3 DEF RollingBack, At, AtOneOf
    <3>. QED BY <2>3, <3>1, RollingBackFacts DEF RowOf, RowAfter
  <2>. QED BY <1>1, <1>2, <1>3, <2>1, <2>2, <2>3
<1>5. jobs[RowOf(step)] \in Record \cup {Mangled}
  BY <1>0, <1>4, TableDomain DEF FileTypes, FilesOK
<1>. QED BY <1>4, <1>5

LEMMA RowFailsKeeps ==
  ASSUME StoreInv, RowFails
  PROVE  StoreInv'
<1>0. PICK step \in RowWrites :
        /\ At(step) /\ Fault("io") /\ Errored
        /\ \E r \in {jobs[RowOf(step)], Mangled, RowAfter(step)} : WriteRow(step, r)
        /\ UNCHANGED <<tail, index, journal, temps, land, published>>
  BY DEF RowFails
<1>1. PICK r \in {jobs[RowOf(step)], Mangled, RowAfter(step)} : WriteRow(step, r)
  BY <1>0
<1>2. /\ journal # None /\ RowOf(step) = journal.job
      /\ RowAfter(step) \in Record /\ jobs[RowOf(step)] \in Record \cup {Mangled}
  BY <1>0, RowWriteIs
<1>3. r \in Record \cup {Mangled} /\ jobs' = [jobs EXCEPT ![journal.job] = r]
  BY <1>1, <1>2 DEF WriteRow
<1>4. faults' \in 0 .. MaxFaults /\ ~Idle /\ FileTypes /\ FilesOK /\ acked' = acked
  BY <1>0, FaultCounts, PhaseOf, InvFacts, ErrorKeepsAcked
<1>5. /\ FileTypes' /\ FilesOK' /\ OnDisk' = OnDisk
      /\ DOMAIN jobs' = DOMAIN jobs /\ \A i \in DOMAIN jobs : i # journal.job => jobs'[i] = jobs[i]
  BY <1>0, <1>2, <1>3, <1>4, RowChange
<1>6. CASE onError = <<>>
  BY <1>0, <1>4, <1>5, <1>6, WorkingDisk, ErrsAndStops
<1>7. CASE onError # <<>>
  <2>1. Replacing /\ step = "writeRow"
    BY <1>0, <1>7, PhaseOf DEF RowWrites, Recovering, RollingBack
  <2>2. journal = Image /\ jobs = base /\ Head(todo) # "publish"
    BY <1>0, <2>1 DEF Replacing, At, AtOneOf
  <2>3. Image.job = op.job
    BY <2>1, ReplacingFacts
  <2>. QED BY <1>0, <1>4, <1>5, <2>1, <2>2, <2>3, UndoStarts
<1>. QED BY <1>6, <1>7

(* A crash leaves the table that recovery will restore as it is.           *)
LEMMA CrashFiles ==
  ASSUME StoreInv, Crash
  PROVE  FileTypes' /\ FilesOK' /\ OnDisk' = OnDisk /\ UNCHANGED <<land, published>>
<1>0. UNCHANGED acked
  BY DEF Crash
<1>1. FileTypes /\ FilesOK
  BY InvFacts
<1>2. CASE UNCHANGED files
  <2>1. UNCHANGED <<jobs, tail, index, journal, temps, land, published>>
    BY <1>2 DEF files
  <2>. QED BY <1>0, <1>1, <2>1, TempsChange DEF FileTypes
<1>3. CASE \E step \in AtomicReplaces :
             /\ At(step)
             /\ temps' = temps \cup {TempOf[step]}
             /\ UNCHANGED <<jobs, tail, index, journal, land, published>>
  <2>1. /\ temps' \subseteq {"staging", "ready", "states", "rewrite"}
        /\ UNCHANGED <<jobs, tail, index, journal, land, published>>
    BY <1>1, <1>3, TempsAre DEF FileTypes
  <2>. QED BY <1>0, <1>1, <2>1, TempsChange DEF FileTypes
<1>4. CASE \E step \in RowWrites :
             /\ At(step)
             /\ WriteRow(step, Mangled)
             /\ UNCHANGED <<tail, index, journal, temps, land, published>>
  <2>1. PICK step \in RowWrites : /\ At(step) /\ WriteRow(step, Mangled)
                                  /\ UNCHANGED <<tail, index, journal, temps, land, published>>
    BY <1>4
  <2>2. journal # None /\ jobs' = [jobs EXCEPT ![journal.job] = Mangled]
    BY <2>1, RowWriteIs DEF WriteRow
  <2>. QED BY <1>0, <1>1, <2>1, <2>2, RowChange
<1>5. CASE tail' = TRUE /\ UNCHANGED <<jobs, index, journal, temps, land, published>>
  BY <1>0, <1>1, <1>5, TempsChange DEF FileTypes
<1>. QED BY <1>2, <1>3, <1>4, <1>5 DEF Crash

LEMMA CrashKeeps ==
  ASSUME StoreInv, Crash
  PROVE  StoreInv'
<1>0. /\ Fault("crash") /\ server' = "down" /\ op' = NoOp /\ todo' = <<>> /\ onError' = <<>>
      /\ answer' = "none" /\ UNCHANGED <<base, goal, acked>>
  BY DEF Crash
<1>1. faults' \in 0 .. MaxFaults /\ FileTypes /\ FilesOK /\ acked' \subseteq Jobs
  BY <1>0, FaultCounts, InvFacts DEF StoreInv, TypeOK
<1>2. BoundIn(OnDisk) = published \ {land.job}
  <2>1. CASE Idle
    BY <2>1 DEF StoreInv, DiskOK, Seen
  <2>2. CASE ~Idle
    BY <2>2, WorkingDisk
  <2>. QED BY <2>1, <2>2
<1>3. FileTypes' /\ FilesOK' /\ OnDisk' = OnDisk /\ UNCHANGED <<land, published>>
  BY CrashFiles
<1>4. (BoundIn(OnDisk) = published \ {land.job})'
  BY <1>2, <1>3
<1>. QED BY <1>0, <1>1, <1>3, <1>4, Stops

LEMMA BreakKeeps ==
  ASSUME StoreInv, Break
  PROVE  StoreInv'
<1>1. CASE ReplaceFails
  BY <1>1, ReplaceFailsKeeps
<1>2. CASE RowFails
  BY <1>2, RowFailsKeeps
<1>3. CASE AppendFails
  <2>1. /\ At("append") /\ Fault("io") /\ Errored
        /\ UNCHANGED <<jobs, index, journal, temps, land, published>>
    BY <1>3 DEF AppendFails
  <2>0. tail' \in BOOLEAN
    BY <1>3 DEF AppendFails
  <2>2. faults' \in 0 .. MaxFaults /\ ~Idle /\ FileTypes
    BY <2>1, FaultCounts, PhaseOf, InvFacts
  <2>. QED BY <2>0, <2>1, <2>2, ErrsInPlace DEF FileTypes
<1>4. CASE StepFails
  <2>1. PICK step : /\ At(step) /\ Fault("io") /\ Errored
                    /\ temps' \in IF step = "removeTemps" THEN {temps, {}} ELSE {temps}
                    /\ UNCHANGED <<jobs, tail, index, journal, land, published>>
    BY <1>4 DEF StepFails
  <2>2. faults' \in 0 .. MaxFaults /\ ~Idle /\ FileTypes
    BY <2>1, FaultCounts, PhaseOf, InvFacts
  <2>3. tail' \in BOOLEAN /\ temps' \subseteq {"staging", "ready", "states", "rewrite"}
    BY <2>1, <2>2 DEF FileTypes
  <2>. QED BY <2>1, <2>2, <2>3, ErrsInPlace
<1>5. CASE ClearLockFails
  <2>1. /\ At("clearLock") /\ Fault("io") /\ Return("err")
        /\ UNCHANGED <<jobs, tail, index, journal, temps, land, published>>
    BY <1>5 DEF ClearLockFails, files
  <2>2. faults' \in 0 .. MaxFaults /\ ~Idle /\ FileTypes
    BY <2>1, FaultCounts, PhaseOf, InvFacts
  <2>. QED BY <2>1, <2>2, FailsInPlace DEF FileTypes
<1>6. CASE Crash
  BY <1>6, CrashKeeps
<1>. QED BY <1>1, <1>2, <1>3, <1>4, <1>5, <1>6 DEF Break

-----------------------------------------------------------------------------
(* The invariant.                                                          *)

LEMMA StoreInvInit ==
  ASSUME Init
  PROVE  StoreInv
<1>1. jobs = <<>> /\ base = <<>> /\ goal = <<>> /\ <<>> \in Table
  <2>1. jobs = <<>> /\ base = <<>> /\ goal = <<>>
    BY DEF Init
  <2>2. <<>> \in Seq(Record) /\ Len(<<>>) = 0 /\ 0 <= MaxJobs
    BY TableAssumption
  <2>3. <<>> \in Table
    BY <2>2, TableIs
  <2>. QED BY <2>1, <2>3
<1>2. <<>> \in Tables /\ DOMAIN <<>> = {}
  BY <1>1, TableInTables
<1>3. 0 \in 0 .. MaxFaults
  BY FaultAssumption
<1>4. TypeOK
  <2>1. /\ index \in [Indexes -> SUBSET (JobStates \X Jobs)] /\ tail \in BOOLEAN
        /\ journal \in BeforeImage \cup {None} /\ land \in BeforeImage \cup {None}
        /\ temps \subseteq {"staging", "ready", "states", "rewrite"} /\ published \subseteq Jobs
    BY DEF Init
  <2>2. /\ server \in {"down", "starting", "up"} /\ op \in Operation \cup {NoOp}
        /\ answer \in {"none", "ok", "err"} /\ acked \subseteq Jobs /\ faults \in 0 .. MaxFaults
    BY <1>3 DEF Init
  <2>3. todo \in Seq(Steps) /\ onError \in Seq(Steps)
    BY DEF Init
  <2>. QED BY <1>1, <1>2, <2>1, <2>2, <2>3 DEF TypeOK
<1>5. FilesOK
  BY <1>1, <1>2 DEF Init, FilesOK
<1>6. Idle /\ OnDisk = <<>> /\ Seen = <<>>
  BY <1>1 DEF Init, Idle, OnDisk, Restored, Seen
<1>7. BoundIn(Seen) = {} /\ published \ {land.job} = {}
  BY <1>2, <1>6 DEF BoundIn, Init
<1>. QED BY <1>4, <1>5, <1>6, <1>7 DEF Init, StoreInv, DiskOK, AnswersHold

LEMMA StoreInvNext ==
  ASSUME StoreInv, [Next]_vars
  PROVE  StoreInv'
<1>1. CASE UNCHANGED vars
  <2>1. /\ UNCHANGED <<jobs, tail, index, journal, temps, land, published>>
        /\ UNCHANGED <<server, op, todo, onError, base, goal, answer, acked, faults>>
    BY <1>1 DEF vars, files, control
  <2>2. TypeOK' <=> TypeOK
    BY <2>1 DEF TypeOK
  <2>3. Idle' <=> Idle
    BY <2>1 DEF Idle
  <2>4. OnDisk' = OnDisk /\ Seen' = Seen
    <3>1. OnDisk' = OnDisk
      BY <2>1 DEF OnDisk
    <3>. QED BY <2>1, <2>3, <3>1 DEF Seen
  <2>5. DiskOK' <=> DiskOK
    BY <2>1, <2>4 DEF DiskOK, FilesOK, RowsOK, Listed, BoundIn
  <2>6. AnswersHold' <=> AnswersHold
    BY <2>1, <2>4 DEF AnswersHold, Right, Has, Image, BoundIn
  <2>7. Working' <=> Working
    BY <2>1, <2>4
       DEF Working, Recovering, Rebuilding, Replacing, RollingBack, Adding, Reindexing, Landing,
           Aborting, Replacement, Addition, Publication, UndoOK, PutOK, Right, Relisted,
           AgreeElsewhere, Image, Has, At, AtOneOf, Listed, BoundIn
  <2>. QED BY <2>1, <2>2, <2>3, <2>5, <2>6, <2>7 DEF StoreInv
<1>2. CASE Next
  BY <1>2, CallKeeps, BootKeeps, StepKeeps, BreakKeeps DEF Next
<1>. QED BY <1>1, <1>2

(* Whatever fails and whenever the server stops, records, indexes and      *)
(* journals fit together, and an operation at work is in one of its        *)
(* phases.                                                                 *)
THEOREM StoreInvariant == Spec => []StoreInv
BY StoreInvInit, StoreInvNext, PTL DEF Spec

(* Records stay within their attempts and the table within its bound.      *)
THEOREM StoreTypes == Spec => []TypeOK
<1>1. StoreInv => TypeOK
  BY DEF StoreInv
<1>. QED BY <1>1, StoreInvariant, PTL

(* A record that a write left in pieces is covered by the update journal.  *)
THEOREM TornRowsAreProtected == Spec => []TornRowIsProtected
<1>1. StoreInv => TornRowIsProtected
  BY MangledIs DEF StoreInv, DiskOK, FilesOK, TornRowIsProtected
<1>. QED BY <1>1, StoreInvariant, PTL

(* Ok means that the table is the one the operation meant to leave, Err    *)
(* that it is that one or the one it found.                                *)
THEOREM AnswersAreTrue == Spec => []AnswersHold
<1>1. StoreInv => AnswersHold
  BY DEF StoreInv, AnswersHold, Working
<1>. QED BY <1>1, StoreInvariant, PTL

(* A job some request was told of is in both indexes, under its state,     *)
(* whenever a reader is let in.                                            *)
THEOREM AckedJobsAreListed == Spec => []AckedIsListed
<1>1. StoreInv => AckedIsListed
  <2>. SUFFICES ASSUME StoreInv, Serving, NEW j \in acked, NEW x \in Indexes, Live(jobs[j])
                PROVE  Listed(x, j) = Rows(x, j, jobs[j])
    BY DEF AckedIsListed
  <2>1. FileTypes /\ FilesOK /\ journal = None
    BY InvFacts DEF Serving, Clean
  <2>2. j \in DOMAIN jobs /\ j # journal.job
    BY <2>1, TableDomain DEF FileTypes, FilesOK, None
  <2>3. RowsOK(j)
    BY <2>1, <2>2 DEF FilesOK
  <2>. QED BY <2>3 DEF RowsOK
<1>. QED BY <1>1, StoreInvariant, PTL

(* A package job is bound exactly when its Patchset is published.          *)
THEOREM BoundJobsArePublished == Spec => []BoundIsPublished
<1>1. StoreInv => BoundIsPublished
  BY DEF StoreInv, DiskOK, Seen, BoundIn, BoundIsPublished
<1>. QED BY <1>1, StoreInvariant, PTL

-----------------------------------------------------------------------------
(* The store implements WorkerJobTable.  While an operation is at work     *)
(* readers wait and its users see the table it found; when it returns or   *)
(* the server stops, they see that table or the one it means to leave.     *)

(* The second table is the first after one operation.                      *)
Operated(t, u) ==
  \/ \E r \in FreshRecords : Len(t) < MaxJobs /\ u = Append(t, r)
  \/ \E j \in DOMAIN t, name \in Replacements :
       Admits(name, t[j]) /\ u = [t EXCEPT ![j] = Replaced(name, t[j])]
  \/ \E j \in DOMAIN t : Finishable(t[j]) /\ u = [t EXCEPT ![j] = Bound(t[j])]
  \/ u = Tombstoned(t)

LEMMA GoalIsOneOperation ==
  ASSUME StoreInv, ~Idle
  PROVE  goal = base \/ Operated(base, goal)
<1>1. CASE Recovering
  BY <1>1 DEF Recovering
<1>2. CASE Rebuilding
  BY <1>2 DEF Rebuilding, Operated
<1>3. CASE Replacing \/ RollingBack
  <2>1. /\ op.name \in Replacements /\ op.job \in DOMAIN base /\ Admits(op.name, base[op.job])
        /\ goal = [base EXCEPT ![op.job] = Replaced(op.name, base[op.job])]
    BY <1>3 DEF Replacing, RollingBack, Replacement
  <2>. QED BY <2>1 DEF Operated
<1>4. CASE Adding \/ Reindexing
  <2>1. op.record \in FreshRecords /\ Len(base) < MaxJobs /\ goal = Append(base, op.record)
    BY <1>4 DEF Adding, Reindexing, Addition
  <2>. QED BY <2>1 DEF Operated
<1>5. CASE Landing \/ Aborting
  <2>1. /\ op.job \in DOMAIN base /\ Finishable(base[op.job])
        /\ goal = [base EXCEPT ![op.job] = Bound(base[op.job])]
    BY <1>5 DEF Landing, Aborting, Publication
  <2>. QED BY <2>1 DEF Operated
<1>. QED BY <1>1, <1>2, <1>3, <1>4, <1>5, InvFacts DEF StoreInv, Working

(* A step keeps the table found, and an operation that ends answers.       *)
Holds == base' = base /\ (Idle' => goal' = goal /\ answer' \in {"ok", "err"})

LEMMA ReturnHolds ==
  ASSUME NEW result \in {"ok", "err"}, Return(result)
  PROVE  Holds
BY DEF Return, Holds

LEMMA AdvanceHolds ==
  ASSUME ~Idle, Advance
  PROVE  Holds
<1>1. CASE Len(todo) = 1
  <2>1. PICK result \in {"ok", "err"} : Return(result)
    BY <1>1 DEF Advance
  <2>. QED BY <2>1, ReturnHolds
<1>2. CASE Len(todo) # 1
  BY <1>2 DEF Advance, Holds, Idle
<1>. QED BY <1>1, <1>2

LEMMA NameIs ==
  ASSUME NEW o, o = NoOp
  PROVE  o.name = "none"
BY DEF NoOp

LEMMA AtWork ==
  ASSUME StoreInv, todo # <<>>
  PROVE  ~Idle /\ op \in Operation /\ op.name \in Operations /\ op.name # "none"
<1>1. ~Idle
  BY DEF StoreInv
<1>2. op \in Operation
  BY <1>1 DEF StoreInv, Working
<1>3. op.name \in Operations
  BY <1>2 DEF Operation
<1>4. "none" \notin Operations
  BY DEF Operations, Replacements
<1>. QED BY <1>1, <1>2, <1>3, <1>4

LEMMA ErroredHolds ==
  ASSUME StoreInv, todo # <<>>, Errored
  PROVE  Holds
<1>1. CASE onError = <<>>
  BY <1>1, ReturnHolds DEF Errored
<1>2. CASE onError # <<>>
  <2>1. op' = [op EXCEPT !.failed = TRUE] /\ base' = base
    BY <1>2 DEF Errored
  <2>2. op'.name = op.name
    BY <2>1, AtWork DEF Operation
  <2>3. ~Idle'
    BY <2>2, AtWork, NameIs DEF Idle
  <2>. QED BY <2>1, <2>3 DEF Holds
<1>. QED BY <1>1, <1>2

LEMMA ProceedHolds ==
  ASSUME StoreInv, todo # <<>>, NEW r, NEW t, NEW j, NEW steps, Proceed(r, t, j, steps)
  PROVE  Holds
<1>1. op' = [op EXCEPT !.job = j, !.record = r] /\ base' = base
  BY DEF Proceed
<1>2. op'.name = op.name
  BY <1>1, AtWork DEF Operation
<1>3. ~Idle'
  BY <1>2, AtWork, NameIs DEF Idle
<1>. QED BY <1>1, <1>3 DEF Holds

LEMMA SameOpHolds ==
  ASSUME StoreInv, todo # <<>>, UNCHANGED <<op, base>>
  PROVE  Holds
BY AtWork DEF Holds, Idle

LEMMA StepHolds ==
  ASSUME StoreInv, Step
  PROVE  todo # <<>> /\ Holds
<1>1. CASE RemoveTemps \/ AppendRow \/ Unlink \/ LandPublish \/ LandBind \/ LandCommit \/ LandAbort
  <2>1. todo # <<>> /\ Advance
    BY <1>1 DEF RemoveTemps, AppendRow, Unlink, LandPublish, LandBind, LandCommit, LandAbort, At
  <2>. QED BY <2>1, AtWork, AdvanceHolds
<1>2. CASE ReplaceFile \/ OverwriteRow \/ Barrier
  <2>1. todo # <<>> /\ Advance
    BY <1>2 DEF ReplaceFile, OverwriteRow, Barrier, At
  <2>. QED BY <2>1, AtWork, AdvanceHolds
<1>3. CASE DecideReplace
  <2>1. todo # <<>> /\ (Return("err") \/ \E r, t, j, steps : Proceed(r, t, j, steps))
    BY <1>3 DEF DecideReplace, At
  <2>. QED BY <2>1, ReturnHolds, ProceedHolds
<1>4. CASE DecideEnqueue
  <2>1. todo # <<>> /\ (Return("err") \/ \E r, t, j, steps : Proceed(r, t, j, steps))
    BY <1>4 DEF DecideEnqueue, At
  <2>. QED BY <2>1, ReturnHolds, ProceedHolds
<1>5. CASE DecideTombstone
  <2>1. todo # <<>> /\ \E r, t, j, steps : Proceed(r, t, j, steps)
    BY <1>5 DEF DecideTombstone, At
  <2>. QED BY <2>1, ProceedHolds
<1>6. CASE Publish \/ SyncRow
  BY <1>6, SameOpHolds DEF Publish, SyncRow, At
<1>7. CASE Relate
  <2>1. todo # <<>> /\ base' = base /\ (op' = op \/ op' = [op EXCEPT !.failed = TRUE])
    BY <1>7 DEF Relate, At
  <2>2. op'.name = op.name
    BY <2>1, AtWork DEF Operation
  <2>3. ~Idle'
    BY <2>1, <2>2, AtWork, NameIs DEF Idle
  <2>. QED BY <2>1, <2>3 DEF Holds
<1>8. CASE CleanRead
  <2>1. todo # <<>> /\ (Return("err") \/ UNCHANGED <<op, base>>)
    BY <1>8 DEF CleanRead, At
  <2>. QED BY <2>1, ReturnHolds, SameOpHolds
<1>9. CASE LandBegin
  <2>1. todo # <<>> /\ (Return("err") \/ UNCHANGED <<op, base>>)
    BY <1>9 DEF LandBegin, At
  <2>. QED BY <2>1, ReturnHolds, SameOpHolds
<1>. QED BY <1>1, <1>2, <1>3, <1>4, <1>5, <1>6, <1>7, <1>8, <1>9 DEF Step

LEMMA BreakHolds ==
  ASSUME StoreInv, Break, ~Crash
  PROVE  todo # <<>> /\ Holds
<1>1. CASE ReplaceFails \/ RowFails \/ AppendFails \/ StepFails
  <2>1. todo # <<>> /\ Errored
    BY <1>1 DEF ReplaceFails, RowFails, AppendFails, StepFails, At
  <2>. QED BY <2>1, ErroredHolds
<1>2. CASE ClearLockFails
  BY <1>2, ReturnHolds DEF ClearLockFails, At
<1>. QED BY <1>1, <1>2 DEF Break

(* An operation begins with the table its users see.                       *)
LEMMA BeginSeen ==
  ASSUME NEW name \in Operations, NEW j, NEW steps, Begin(name, j, steps)
  PROVE  Seen' = Seen
<1>1. Idle /\ base' = OnDisk /\ op'.name = name
  BY DEF Begin
<1>2. name # "none"
  BY DEF Operations, Replacements
<1>3. ~Idle'
  BY <1>1, <1>2, NameIs DEF Idle
<1>. QED BY <1>1, <1>3 DEF Seen

LEMMA CallSeen ==
  ASSUME Call
  PROVE  Seen' = Seen
<1>1. PICK name \in Operations : \E j, steps : Begin(name, j, steps)
  BY DEF Call, CallReplace, CallEnqueue, CallTombstoneAll, CallRecoverPublication, CallFinish, Request,
         Operations
<1>. QED BY <1>1, BeginSeen

LEMMA BootSeen ==
  ASSUME Boot
  PROVE  Seen' = Seen
<1>1. CASE Start \/ \E j \in Jobs : Invalidate(j)
  <2>1. PICK name \in Operations : \E j, steps : Begin(name, j, steps)
    BY <1>1 DEF Start, Invalidate, Operations, Replacements
  <2>. QED BY <2>1, BeginSeen
<1>2. CASE Open
  <2>1. UNCHANGED <<jobs, journal, land, op, base>>
    BY <1>2 DEF Open, files
  <2>. QED BY <2>1 DEF Seen, Idle, OnDisk, Restored
<1>. QED BY <1>1, <1>2 DEF Boot

LEMMA SeenStep ==
  ASSUME StoreInv, StoreInv', [Next]_vars
  PROVE  Seen' = Seen \/ Operated(Seen, Seen')
<1>1. CASE UNCHANGED vars
  <2>1. UNCHANGED <<jobs, journal, land, op, base>>
    BY <1>1 DEF vars, files, control
  <2>. QED BY <2>1 DEF Seen, Idle, OnDisk, Restored
<1>2. CASE Call \/ Boot
  BY <1>2, CallSeen, BootSeen
<1>3. CASE Crash
  <2>1. OnDisk' = OnDisk /\ Idle'
    BY <1>3, CrashFiles DEF Crash, Idle
  <2>2. CASE Idle
    BY <2>1, <2>2 DEF Seen
  <2>3. CASE ~Idle
    <3>1. Seen = base /\ Seen' = OnDisk /\ OnDisk \in {base, goal}
      BY <2>1, <2>3, WorkingDisk DEF Seen
    <3>. QED BY <2>3, <3>1, GoalIsOneOperation
  <2>. QED BY <2>2, <2>3
<1>4. CASE (Step \/ Break) /\ ~Crash
  <2>1. ~Idle /\ Holds
    BY <1>4, StepHolds, BreakHolds, AtWork
  <2>2. CASE Idle'
    <3>1. base' = base /\ goal' = goal /\ answer' \in {"ok", "err"}
      BY <2>1, <2>2 DEF Holds
    <3>2. AnswersHold'
      BY <2>2 DEF StoreInv
    <3>3. Seen = base /\ Seen' = OnDisk' /\ OnDisk' \in {base, goal}
      BY <2>1, <2>2, <3>1, <3>2 DEF Seen, AnswersHold
    <3>. QED BY <2>1, <3>3, GoalIsOneOperation
  <2>3. CASE ~Idle'
    BY <2>1, <2>3 DEF Seen, Holds
  <2>. QED BY <2>2, <2>3
<1>. QED BY <1>1, <1>2, <1>3, <1>4 DEF Next

(* The abstract table has the same records and the same operations.        *)
LEMMA OperatedIsNext ==
  ASSUME Operated(Seen, Seen')
  PROVE  T!Next
<1>1. CASE \E r \in FreshRecords : Len(Seen) < MaxJobs /\ Seen' = Append(Seen, r)
  <2>1. T!FreshRecords = FreshRecords
    BY DEF T!FreshRecords, FreshRecords, T!Fresh, Fresh
  <2>. QED BY <1>1, <2>1 DEF T!Next, T!Enqueue
<1>2. CASE \E j \in DOMAIN Seen, name \in Replacements :
             Admits(name, Seen[j]) /\ Seen' = [Seen EXCEPT ![j] = Replaced(name, Seen[j])]
  <2>1. PICK j \in DOMAIN Seen, name \in Replacements :
          Admits(name, Seen[j]) /\ Seen' = [Seen EXCEPT ![j] = Replaced(name, Seen[j])]
    BY <1>2
  <2>2. T!Replacements = Replacements
    BY DEF T!Replacements, Replacements
  <2>3. T!Admits(name, Seen[j])
    BY <2>1 DEF T!Admits, Admits, T!Live, Live, T!Active, Active, T!Running, Running,
                T!AttemptsLeft, AttemptsLeft
  <2>4. T!Replaced(name, Seen[j]) = Replaced(name, Seen[j])
    BY DEF T!Replaced, Replaced
  <2>5. Seen' = [Seen EXCEPT ![j] = T!Replaced(name, Seen[j])]
    BY <2>1, <2>4
  <2>. QED BY <2>1, <2>2, <2>3, <2>5 DEF T!Next, T!Replace
<1>3. CASE \E j \in DOMAIN Seen : Finishable(Seen[j]) /\ Seen' = [Seen EXCEPT ![j] = Bound(Seen[j])]
  <2>1. PICK j \in DOMAIN Seen : Finishable(Seen[j]) /\ Seen' = [Seen EXCEPT ![j] = Bound(Seen[j])]
    BY <1>3
  <2>2. T!Finishable(Seen[j])
    BY <2>1 DEF T!Finishable, Finishable, T!Live, Live
  <2>3. Seen' = [Seen EXCEPT ![j] = T!Bound(Seen[j])]
    BY <2>1 DEF T!Bound, Bound
  <2>. QED BY <2>2, <2>3 DEF T!Next, T!Finish
<1>4. CASE Seen' = Tombstoned(Seen)
  BY <1>4 DEF T!Next, T!TombstoneAll, T!Tombstoned, Tombstoned
<1>. QED BY <1>1, <1>2, <1>3, <1>4 DEF Operated

(* Readers see every operation of the store happen as a whole or not at    *)
(* all, whatever fails inside it and whenever the server stops.            *)
THEOREM StoreIsATable == Spec => AtomicOperations
<1>1. Init => T!Init
  BY DEF Init, T!Init, Seen, Idle, OnDisk, Restored
<1>2. StoreInv /\ StoreInv' /\ [Next]_vars => [T!Next]_Seen
  BY SeenStep, OperatedIsNext
<1>. QED BY <1>1, <1>2, StoreInvariant, PTL DEF Spec, AtomicOperations, T!Spec
=============================================================================
