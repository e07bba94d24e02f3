---------------------- MODULE JournalDurabilityProofs ----------------------
(***************************************************************************)
(* Theorems about JournalDurability, for every set of files and records    *)
(* and every number of writes, crashes and power losses: the types, that   *)
(* without a journal to read there is nothing to undo, and that the        *)
(* transactions are those of TransactionalStore.                           *)
(*                                                                         *)
(* None is inductive.  JournalInv says that a file that is not durable has *)
(* a line in the journal that is still to be undone, and that undoing cuts *)
(* a file only where it and its durable contents are long enough, also for *)
(* a journal that was unlinked and comes back after a power loss.          *)
(* RecoveryInv, for the refinement, says what the files and the durable    *)
(* contents have in common outside the durable lines.                      *)
(***************************************************************************)
EXTENDS JournalDurability, FiniteSetTheorems, WellFoundedInduction, TLAPS

(***************************************************************************)
(* The inductive invariant                                                 *)
(***************************************************************************)
Records == Values \cup {Garbage}
FileLines == {line \in [kind : {"file"}, f : Files, existed : BOOLEAN, len : Nat] :
                ~line.existed => line.len = 0}
BeforeLines == [kind : {"before"}, f : Files, at : Nat, old : Records]
Lines == FileLines \cup BeforeLines
Journals == [header : BOOLEAN, lines : Seq(Lines), exists : BOOLEAN, torn : BOOLEAN]

Undoing == {"recover", "recoverSync", "abort", "abortSync"}
Started == {"open", "track", "syncLine", "apply", "sync", "syncDirectories", "unlink",
            "abort", "abortSync"}
Unlinked == {"create", "syncUnlink", "recoverUnlink", "abortUnlink"}
Tracking == {"track", "syncLine", "apply"}

Shape ==
  /\ file \in [Files -> Content] /\ disk \in [Files -> Content]
  /\ \A f \in Files : ~file[f].exists => file[f].recs = <<>>
  /\ pc \in PCs
  /\ jfile \in Journals /\ jdisk \in Journals
  /\ mem \in Seq(Lines)
  /\ cursor \in 0 .. Len(mem)
  /\ writes \in 0 .. MaxWrites /\ faults \in 0 .. MaxFaults

JournalOK(j) == (~j.exists => j = NoJournal) /\ (~j.header => j.lines = <<>>)

\* One boundary line for a file.
Single(lines) == \A f \in Files : \A k, l \in Boundaries(lines, f) : k = l

\* A file that is cut back is there and not shorter, now and durably.
Cuttable(line) == line.kind = "file" /\ line.existed =>
  \A c \in {file[line.f], disk[line.f]} : c.exists /\ line.len <= Len(c.recs)
LongEnough(lines) == \A k \in DOMAIN lines : Cuttable(lines[k])

LinesOK(lines) == Single(lines) /\ LongEnough(lines)

\* What the journal in memory has to do with the one in the file and the durable one.
MemoryOK ==
  /\ pc \in Undoing \cup Started => mem = jfile.lines
  /\ pc \in Started => jfile.header /\ (pc # "syncLine" => jdisk = jfile)
  /\ pc \in Unlinked => jfile = NoJournal
  /\ pc \in {"idle", "create", "syncHeader", "syncLink"} => mem = <<>>
  /\ pc \in {"syncHeader", "syncLink"} => jfile = [Headerless EXCEPT !.header = TRUE]
  /\ pc \notin Undoing => cursor = 0
  /\ pc \in {"recoverSync", "abortSync"} => cursor > 0

\* A journal with lines was durable without the last of them.
Behind == jfile.lines # <<>> =>
  /\ jdisk.header
  /\ DOMAIN jdisk.lines \subseteq DOMAIN jfile.lines
  /\ \A k \in DOMAIN jdisk.lines : jdisk.lines[k] = jfile.lines[k]

\* A file that is not durable is in a line that is still to be undone.
DirtyIsJournaled == \A f \in Files : file[f] # disk[f] =>
  \E k \in DOMAIN jfile.lines : jfile.lines[k].f = f /\ (pc \in Undoing => k <= cursor)

\* The boundary of a file is its first line.
BoundaryFirst == pc \in Writing =>
  \A k \in DOMAIN mem : Boundaries(mem, mem[k].f) # {}

WriteOK ==
  /\ pc \in Tracking => write \in Writes /\ write.at <= Len(file[write.f].recs) + 1
  /\ pc = "apply" => Boundaries(mem, write.f) # {}
  /\ pc = "syncLine" => mem # <<>> /\ mem[Len(mem)].f = write.f
                      /\ (mem[Len(mem)].kind = "before" => mem[Len(mem)].at = write.at)

CommitOK ==
  /\ pc = "syncDirectories" => \A f \in Touched : disk[f].recs = file[f].recs
  /\ pc = "unlink" => file = disk

JournalInv ==
  /\ Shape
  /\ JournalOK(jfile) /\ JournalOK(jdisk)
  /\ LinesOK(jfile.lines) /\ LinesOK(jdisk.lines) /\ Single(mem)
  /\ MemoryOK /\ Behind /\ DirtyIsJournaled /\ BoundaryFirst /\ WriteOK /\ CommitOK

(***************************************************************************)
(* Facts about lines, journals and contents                                *)
(***************************************************************************)
LEMMA LineFields ==
  ASSUME NEW line \in Lines
  PROVE  /\ line.f \in Files /\ line.kind \in {"file", "before"}
         /\ line.kind = "file" => line.existed \in BOOLEAN /\ line.len \in Nat
                               /\ (~line.existed => line.len = 0)
         /\ line.kind = "before" => line.at \in Nat /\ line.old \in Records
BY DEF Lines, FileLines, BeforeLines

LEMMA SeqFromFunction ==
  ASSUME NEW S, NEW n \in Nat, NEW s \in [1 .. n -> S]
  PROVE  s \in Seq(S) /\ Len(s) = n
<1>1. s \in Seq(S)
  OBVIOUS
<1>. QED BY <1>1

LEMMA SeqExcept ==
  ASSUME NEW S, NEW s \in Seq(S), NEW i, NEW r \in S
  PROVE  [s EXCEPT ![i] = r] \in Seq(S) /\ Len([s EXCEPT ![i] = r]) = Len(s)
<1>1. s \in [1 .. Len(s) -> S] /\ Len(s) \in Nat
  OBVIOUS
<1>2. [s EXCEPT ![i] = r] \in [1 .. Len(s) -> S]
  BY <1>1
<1>. QED BY <1>1, <1>2, SeqFromFunction

LEMMA JournalShapes ==
  /\ NoJournal \in Journals /\ [Headerless EXCEPT !.header = TRUE] \in Journals
  /\ Headerless \in Journals
  /\ NoJournal.lines = <<>> /\ Headerless.lines = <<>>
  /\ [Headerless EXCEPT !.header = TRUE].lines = <<>>
  /\ JournalOK(NoJournal) /\ JournalOK(Headerless) /\ JournalOK([Headerless EXCEPT !.header = TRUE])
<1>. DEFINE New == [Headerless EXCEPT !.header = TRUE]
<1>1. /\ NoJournal \in Journals /\ NoJournal.lines = <<>>
      /\ NoJournal.header = FALSE /\ NoJournal.exists = FALSE
  BY DEF NoJournal, Journals
<1>2. /\ Headerless \in Journals /\ Headerless.lines = NoJournal.lines
      /\ Headerless.header = FALSE /\ Headerless.exists = TRUE
  BY <1>1 DEF Headerless, Journals
<1>3. /\ New \in Journals /\ New.lines = Headerless.lines
      /\ New.header = TRUE /\ New.exists = TRUE
  BY <1>2 DEF Journals
<1>4. JournalOK(NoJournal) /\ JournalOK(Headerless) /\ JournalOK(New)
  BY <1>1, <1>2, <1>3 DEF JournalOK
<1>. QED BY <1>1, <1>2, <1>3, <1>4

LEMMA EmptyOK ==
  LinesOK(<<>>) /\ LinesOK(<<>>)'
BY DEF LinesOK, Single, LongEnough, Boundaries

LEMMA SingleMeansOne ==
  ASSUME NEW lines, Single(lines), NEW f \in Files
  PROVE  Cardinality(Boundaries(lines, f)) <= 1
<1>1. CASE Boundaries(lines, f) = {}
  BY <1>1, FS_EmptySet
<1>2. CASE Boundaries(lines, f) # {}
  <2>1. PICK k : k \in Boundaries(lines, f)
    BY <1>2
  <2>2. Boundaries(lines, f) = {k}
    BY <2>1 DEF Single
  <2>3. Cardinality({k}) = 1
    BY FS_Singleton
  <2>. QED BY <2>2, <2>3
<1>. QED BY <1>1, <1>2

\* Steps that leave the files and the journals as they are.
LEMMA SameData ==
  ASSUME JournalInv, UNCHANGED <<file, disk, journal>>
  PROVE  /\ JournalOK(jfile)' /\ JournalOK(jdisk)'
         /\ LinesOK(jfile.lines)' /\ LinesOK(jdisk.lines)' /\ Behind'
         /\ jfile' = jfile /\ jdisk' = jdisk /\ file' = file /\ disk' = disk
BY DEF JournalInv, JournalOK, LinesOK, Single, LongEnough, Cuttable, Behind, journal, NoJournal

LEMMA InitInv == Init => JournalInv
<1>. SUFFICES ASSUME Init PROVE JournalInv
  OBVIOUS
<1>1. Shape /\ JournalOK(jfile) /\ JournalOK(jdisk)
  BY JournalShapes, InitFileAssumption, BoundsAssumption DEF Init, Shape, PCs
<1>2. LinesOK(jfile.lines) /\ LinesOK(jdisk.lines) /\ Single(mem)
  BY EmptyOK, JournalShapes DEF Init, LinesOK
<1>3. MemoryOK /\ Behind /\ DirtyIsJournaled /\ BoundaryFirst /\ WriteOK /\ CommitOK
  BY JournalShapes DEF Init, MemoryOK, Behind, DirtyIsJournaled, BoundaryFirst, WriteOK, CommitOK,
       Undoing, Started, Unlinked, Tracking, Writing
<1>. QED BY <1>1, <1>2, <1>3 DEF JournalInv

(***************************************************************************)
(* Steps of the writer that only move it                                   *)
(***************************************************************************)
LEMMA BeginStep == JournalInv /\ Begin => JournalInv'
<1>. SUFFICES ASSUME JournalInv, Begin PROVE JournalInv'
  OBVIOUS
<1>0. UNCHANGED <<file, disk, journal>> /\ UNCHANGED <<write, writes, faults>>
  BY DEF Begin, journal
<1>1. CASE jfile.exists
  <2>1. mem' = jfile.lines /\ cursor' = Len(jfile.lines) /\ pc' = "recover" /\ jfile.header
    BY <1>1 DEF Begin, Goto, Readable
  <2>2. Shape'
    BY <1>0, <2>1 DEF JournalInv, Shape, Journals, PCs, journal
  <2>3. Single(mem)' /\ MemoryOK'
    BY <1>0, <2>1, SameData DEF JournalInv, LinesOK, MemoryOK, Single, Boundaries, Undoing, Started, Unlinked, Shape, Journals
  <2>4. DirtyIsJournaled'
    BY <1>0, <2>1 DEF JournalInv, DirtyIsJournaled, Shape, Journals, journal, Undoing
  <2>5. BoundaryFirst' /\ WriteOK' /\ CommitOK'
    BY <2>1 DEF BoundaryFirst, WriteOK, CommitOK, Writing, Tracking
  <2>. QED BY <1>0, <2>2, <2>3, <2>4, <2>5, SameData DEF JournalInv
<1>2. CASE ~jfile.exists
  <2>1. UNCHANGED <<mem, cursor>> /\ pc = "idle" /\ pc' = "create" /\ jfile = NoJournal
    BY <1>2 DEF Begin, Goto, JournalInv, JournalOK
  <2>2. Shape' /\ Single(mem)'
    BY <1>0, <2>1 DEF JournalInv, Shape, PCs, Single, journal
  <2>3. MemoryOK' /\ DirtyIsJournaled' /\ BoundaryFirst' /\ WriteOK' /\ CommitOK'
    BY <1>0, <2>1 DEF JournalInv, MemoryOK, DirtyIsJournaled, BoundaryFirst, WriteOK, CommitOK, journal, Undoing, Started, Unlinked, Tracking, Writing
  <2>. QED BY <1>0, <2>2, <2>3, SameData DEF JournalInv
<1>. QED BY <1>1, <1>2

LEMMA SyncHeaderStep == JournalInv /\ SyncHeader => JournalInv'
<1>. SUFFICES ASSUME JournalInv, SyncHeader PROVE JournalInv'
  OBVIOUS
<1>0. UNCHANGED <<file, disk, journal>> /\ UNCHANGED <<mem, cursor, write, writes, faults>>
      /\ pc = "syncHeader" /\ pc' = "syncLink"
  BY DEF SyncHeader, Goto, journal
<1>1. Shape' /\ Single(mem)'
  BY <1>0 DEF JournalInv, Shape, PCs, Single, journal
<1>2. MemoryOK' /\ DirtyIsJournaled' /\ BoundaryFirst' /\ WriteOK' /\ CommitOK'
  BY <1>0, SameData DEF JournalInv, MemoryOK, DirtyIsJournaled, BoundaryFirst, WriteOK, CommitOK,
       Undoing, Started, Unlinked, Tracking, Writing
<1>. QED BY <1>0, <1>1, <1>2, SameData DEF JournalInv

LEMMA StartWriteStep == JournalInv /\ StartWrite => JournalInv'
<1>. SUFFICES ASSUME JournalInv, StartWrite PROVE JournalInv'
  OBVIOUS
<1>1. PICK w \in Writes :
        /\ w.at <= Len(file[w.f].recs) + 1 /\ write' = w
        /\ writes < MaxWrites /\ writes' = writes + 1
        /\ pc = "open" /\ pc' = "track"
        /\ UNCHANGED <<file, disk, journal>> /\ UNCHANGED <<mem, cursor, faults>>
  BY DEF StartWrite, Goto, journal
<1>2. Shape' /\ Single(mem)'
  BY <1>1, BoundsAssumption DEF JournalInv, Shape, PCs, Single, journal, Writing
<1>3. MemoryOK' /\ DirtyIsJournaled' /\ BoundaryFirst' /\ WriteOK' /\ CommitOK'
  BY <1>1, SameData DEF JournalInv, MemoryOK, DirtyIsJournaled, BoundaryFirst, WriteOK, CommitOK,
       Undoing, Started, Unlinked, Tracking, Writing
<1>. QED BY <1>1, <1>2, <1>3, SameData DEF JournalInv

LEMMA CommitStep == JournalInv /\ (Commit \/ FilesSynced) => JournalInv'
<1>. SUFFICES ASSUME JournalInv, Commit \/ FilesSynced PROVE JournalInv'
  OBVIOUS
<1>0. UNCHANGED <<file, disk, journal>> /\ UNCHANGED <<mem, cursor, write, writes, faults>>
      /\ \/ pc = "open" /\ pc' = "sync"
         \/ /\ pc = "sync" /\ pc' = "syncDirectories"
            /\ \A f \in Touched : disk[f].recs = file[f].recs
  BY DEF Commit, FilesSynced, Goto, journal
<1>1. Shape' /\ Single(mem)'
  BY <1>0 DEF JournalInv, Shape, PCs, Single, journal, Writing
<1>2. MemoryOK' /\ DirtyIsJournaled' /\ BoundaryFirst' /\ WriteOK' /\ CommitOK'
  BY <1>0, SameData DEF JournalInv, MemoryOK, DirtyIsJournaled, BoundaryFirst, WriteOK, CommitOK,
       Undoing, Started, Unlinked, Tracking, Writing, Touched
<1>. QED BY <1>0, <1>1, <1>2, SameData DEF JournalInv

LEMMA AbortStep == JournalInv /\ Abort => JournalInv'
<1>. SUFFICES ASSUME JournalInv, Abort PROVE JournalInv'
  OBVIOUS
<1>0. UNCHANGED <<file, disk, journal>> /\ UNCHANGED <<mem, writes, faults>>
      /\ pc \in Started \ {"syncLine"} /\ pc' = "abort" /\ cursor' = Len(mem) /\ mem = jfile.lines
  BY DEF Abort, Goto, journal, JournalInv, MemoryOK, Started
<1>1. Shape' /\ Single(mem)'
  BY <1>0 DEF JournalInv, Shape, PCs, Single, journal
<1>2. MemoryOK' /\ BoundaryFirst' /\ WriteOK' /\ CommitOK'
  BY <1>0, SameData DEF JournalInv, MemoryOK, BoundaryFirst, WriteOK, CommitOK,
       Undoing, Started, Unlinked, Tracking, Writing
<1>3. DirtyIsJournaled'
  BY <1>0, SameData DEF JournalInv, DirtyIsJournaled, Shape
<1>. QED BY <1>0, <1>1, <1>2, <1>3, SameData DEF JournalInv

(***************************************************************************)
(* Steps of the journal                                                    *)
(***************************************************************************)
\* The journal is unlinked where every file is durable.
LEMMA Unlinking ==
  ASSUME JournalInv, UNCHANGED <<file, disk, jdisk, mem, cursor, write, writes, faults>>,
         jfile' = NoJournal, cursor = 0, \A f \in Files : file[f] = disk[f],
         pc' \in {"syncUnlink", "recoverUnlink", "abortUnlink"},
         pc' = "syncUnlink" => pc \in Writing
  PROVE  JournalInv'
<1>1. Shape' /\ JournalOK(jfile)' /\ JournalOK(jdisk)' /\ Single(mem)'
  BY JournalShapes DEF JournalInv, Shape, PCs, Writing, JournalOK, Single, NoJournal
<1>2. LinesOK(jfile.lines)' /\ LinesOK(jdisk.lines)' /\ Behind'
  BY JournalShapes DEF JournalInv, LinesOK, Single, Boundaries, LongEnough, Cuttable, Behind
<1>3. MemoryOK' /\ DirtyIsJournaled' /\ BoundaryFirst' /\ WriteOK' /\ CommitOK'
  BY DEF JournalInv, MemoryOK, DirtyIsJournaled, BoundaryFirst, WriteOK, CommitOK,
       Undoing, Started, Unlinked, Tracking, Writing
<1>. QED BY <1>1, <1>2, <1>3 DEF JournalInv

LEMMA UndoneStep == JournalInv /\ Undone => JournalInv'
<1>. SUFFICES ASSUME JournalInv, Undone PROVE JournalInv'
  OBVIOUS
<1>1. \A f \in Files : file[f] = disk[f]
  BY DEF Undone, JournalInv, DirtyIsJournaled, Undoing, Shape, Journals
<1>. QED BY <1>1, Unlinking DEF Undone, Goto

LEMMA UnlinkStep == JournalInv /\ Unlink => JournalInv'
<1>. SUFFICES ASSUME JournalInv, Unlink PROVE JournalInv'
  OBVIOUS
<1>1. cursor = 0 /\ file = disk
  BY DEF Unlink, JournalInv, MemoryOK, CommitOK, Undoing
<1>. QED BY <1>1, Unlinking DEF Unlink, Goto, Writing

LEMMA SyncUnlinkStep == JournalInv /\ SyncUnlink => JournalInv'
<1>. SUFFICES ASSUME JournalInv, SyncUnlink PROVE JournalInv'
  OBVIOUS
<1>0. /\ pc \in {"syncUnlink", "recoverUnlink", "abortUnlink"} /\ pc' \in {"create", "idle"}
      /\ jdisk' = NoJournal /\ jfile' = jfile /\ jfile = NoJournal /\ mem' = <<>> /\ writes' = 0
      /\ UNCHANGED <<file, disk, cursor, write, faults>> /\ cursor = 0
  BY DEF SyncUnlink, Goto, JournalInv, MemoryOK, Unlinked, Undoing
<1>1. Shape' /\ JournalOK(jfile)' /\ JournalOK(jdisk)'
  BY <1>0, JournalShapes, BoundsAssumption DEF JournalInv, Shape, PCs, JournalOK, NoJournal
<1>2. LinesOK(jfile.lines)' /\ LinesOK(jdisk.lines)' /\ Single(mem)' /\ Behind'
  BY <1>0, JournalShapes DEF LinesOK, Single, Boundaries, LongEnough, Behind
<1>3. MemoryOK' /\ DirtyIsJournaled' /\ BoundaryFirst' /\ WriteOK' /\ CommitOK'
  BY <1>0 DEF JournalInv, MemoryOK, DirtyIsJournaled, BoundaryFirst, WriteOK, CommitOK,
       Undoing, Started, Unlinked, Tracking, Writing
<1>. QED BY <1>1, <1>2, <1>3 DEF JournalInv

LEMMA WriteHeaderStep == JournalInv /\ WriteHeader => JournalInv'
<1>. SUFFICES ASSUME JournalInv, WriteHeader PROVE JournalInv'
  OBVIOUS
<1>0. /\ pc = "create" /\ pc' = "syncHeader" /\ jfile = NoJournal
      /\ jfile' = [Headerless EXCEPT !.header = TRUE]
      /\ UNCHANGED <<file, disk, jdisk, mem, cursor, write, writes, faults>>
  BY DEF WriteHeader, Goto, JournalInv, MemoryOK, Unlinked
<1>1. Shape' /\ JournalOK(jfile)' /\ JournalOK(jdisk)' /\ Single(mem)'
  BY <1>0, JournalShapes DEF JournalInv, Shape, PCs, JournalOK, Single, NoJournal
<1>2. LinesOK(jfile.lines)' /\ LinesOK(jdisk.lines)' /\ Behind'
  BY <1>0, JournalShapes DEF JournalInv, LinesOK, Single, Boundaries, LongEnough, Cuttable, Behind
<1>3. MemoryOK' /\ BoundaryFirst' /\ WriteOK' /\ CommitOK'
  BY <1>0 DEF JournalInv, MemoryOK, BoundaryFirst, WriteOK, CommitOK,
       Undoing, Started, Unlinked, Tracking, Writing, Headerless
<1>4. DirtyIsJournaled'
  BY <1>0, JournalShapes DEF JournalInv, DirtyIsJournaled
<1>. QED BY <1>1, <1>2, <1>3, <1>4 DEF JournalInv

\* What the journal file holds becomes durable.
LEMMA JournalSynced ==
  ASSUME JournalInv, jdisk' = jfile,
         UNCHANGED <<file, disk, jfile, mem, cursor, write, writes, faults>>,
         \/ pc = "syncLink" /\ pc' = "open"
         \/ pc = "syncLine" /\ pc' \in {"track", "apply"}
  PROVE  JournalInv'
<1>1. Shape' /\ JournalOK(jfile)' /\ JournalOK(jdisk)' /\ Single(mem)'
  BY DEF JournalInv, Shape, PCs, Writing, JournalOK, Single, NoJournal
<1>2. LinesOK(jfile.lines)' /\ LinesOK(jdisk.lines)'
  BY DEF JournalInv, LinesOK, Single, Boundaries, LongEnough, Cuttable
<1>3. Behind'
  BY DEF JournalInv, Behind, JournalOK
<1>4. MemoryOK'
  BY JournalShapes DEF JournalInv, MemoryOK, Undoing, Started, Unlinked, Headerless, NoJournal
<1>5. DirtyIsJournaled' /\ BoundaryFirst' /\ CommitOK'
  BY DEF JournalInv, MemoryOK, DirtyIsJournaled, BoundaryFirst, CommitOK,
       Undoing, Started, Unlinked, Tracking, Writing
<1>6. WriteOK'
  <2>1. ASSUME pc = "syncLine" PROVE Boundaries(mem, write.f) # {}
    <3>1. mem \in Seq(Lines) /\ mem # <<>> /\ mem[Len(mem)].f = write.f
      BY <2>1 DEF JournalInv, Shape, WriteOK
    <3>2. Len(mem) \in DOMAIN mem
      BY <3>1
    <3>. QED BY <2>1, <3>1, <3>2 DEF JournalInv, BoundaryFirst, Writing
  <2>. QED BY <2>1 DEF JournalInv, WriteOK, Tracking
<1>. QED BY <1>1, <1>2, <1>3, <1>4, <1>5, <1>6 DEF JournalInv

LEMMA JournalSyncStep == JournalInv /\ (SyncLink \/ SyncLine) => JournalInv'
BY JournalSynced DEF SyncLink, SyncLine, LineSynced, Goto

LEMMA BoundaryLine ==
  ASSUME JournalInv, NEW f \in Files
  PROVE  /\ FileLine(f, file[f]) \in FileLines
         /\ Boundaries(mem, f) = {} /\ pc = "track" => Cuttable(FileLine(f, file[f]))
<1>1. file[f] \in Content
  BY DEF JournalInv, Shape
<1>2. FileLine(f, file[f]) \in FileLines
  <2>1. Len(file[f].recs) \in Nat /\ (~file[f].exists => Len(file[f].recs) = 0)
    BY <1>1 DEF JournalInv, Shape, Content
  <2>. QED BY <1>1, <2>1 DEF FileLine, FileLines, Content
<1>3. ASSUME Boundaries(mem, f) = {}, pc = "track"
      PROVE  Cuttable(FileLine(f, file[f]))
  <2>1. mem = jfile.lines
    BY <1>3 DEF JournalInv, MemoryOK, Started
  <2>2. file[f] = disk[f]
    BY <1>3, <2>1 DEF JournalInv, DirtyIsJournaled, BoundaryFirst, Writing
  <2>3. Len(file[f].recs) \in Nat
    BY <1>1 DEF Content
  <2>. QED BY <2>2, <2>3 DEF Cuttable, FileLine
<1>. QED BY <1>2, <1>3

LEMMA AppendStep ==
  ASSUME JournalInv, pc = "track", NEW line \in Lines, AppendLine(line), Cuttable(line),
         line.kind = "file" <=> Boundaries(mem, line.f) = {},
         line.f = write.f, line.kind = "before" => line.at = write.at
  PROVE  JournalInv'
<1>. DEFINE new == Append(mem, line)
<1>0. /\ mem = jfile.lines /\ jfile.header /\ jdisk = jfile
      /\ jfile' = [jfile EXCEPT !.lines = new] /\ mem' = new /\ pc' = "syncLine"
      /\ UNCHANGED <<file, disk, jdisk, cursor, write, writes, faults>> /\ cursor = 0
  BY DEF AppendLine, Goto, JournalInv, MemoryOK, Started, Undoing
<1>1. /\ mem \in Seq(Lines) /\ new \in Seq(Lines) /\ Len(new) = Len(mem) + 1
      /\ DOMAIN new = DOMAIN mem \cup {Len(mem) + 1} /\ DOMAIN mem = 1 .. Len(mem)
      /\ \A k \in DOMAIN mem : new[k] = mem[k]
      /\ new[Len(mem) + 1] = line /\ Len(mem) \in Nat
  BY DEF JournalInv, Shape
<1>. HIDE DEF new
<1>2. /\ jfile' \in Journals /\ jfile'.lines = new /\ jfile'.header /\ jfile'.exists
      /\ jfile.exists
  BY <1>0, <1>1, JournalShapes DEF JournalInv, Shape, Journals, JournalOK, NoJournal
<1>3. \A f \in Files : Boundaries(new, f) = Boundaries(mem, f)
         \cup (IF line.kind = "file" /\ line.f = f THEN {Len(mem) + 1} ELSE {})
  BY <1>1 DEF Boundaries
<1>4. Shape' /\ JournalOK(jfile)' /\ JournalOK(jdisk)'
  BY <1>0, <1>1, <1>2 DEF JournalInv, Shape, PCs, Writing, JournalOK, NoJournal
<1>5. Single(new)
  <2>. SUFFICES ASSUME NEW f \in Files, NEW k \in Boundaries(new, f), NEW l \in Boundaries(new, f)
                PROVE  k = l
    BY DEF Single
  <2>1. CASE line.kind = "file" /\ line.f = f
    BY <1>3, <2>1
  <2>2. CASE ~(line.kind = "file" /\ line.f = f)
    BY <1>3, <2>2 DEF JournalInv, Single
  <2>. QED BY <2>1, <2>2
<1>6. LongEnough(new)
  BY <1>0, <1>1 DEF LongEnough, JournalInv, LinesOK
<1>7. LinesOK(jfile.lines)' /\ LinesOK(jdisk.lines)' /\ Single(mem)'
  BY <1>0, <1>2, <1>5, <1>6 DEF JournalInv, LinesOK, Single, LongEnough, Cuttable
<1>8. MemoryOK' /\ Behind'
  BY <1>0, <1>1, <1>2 DEF MemoryOK, Behind, Undoing, Started, Unlinked
<1>9. DirtyIsJournaled'
  BY <1>0, <1>1, <1>2 DEF JournalInv, DirtyIsJournaled, Undoing
<1>10. BoundaryFirst'
  <2>1. ASSUME NEW k \in DOMAIN new
        PROVE  Boundaries(new, new[k].f) # {}
    <3>1. CASE k = Len(mem) + 1
      BY <1>1, <1>3, <3>1, LineFields
    <3>2. CASE k \in DOMAIN mem
      <4>1. mem[k].f \in Files
        BY <1>1, <3>2, LineFields
      <4>. QED BY <1>1, <1>3, <3>2, <4>1 DEF JournalInv, BoundaryFirst, Writing
    <3>. QED BY <1>1, <3>1, <3>2
  <2>. QED BY <1>0, <2>1 DEF BoundaryFirst
<1>11. WriteOK' /\ CommitOK'
  <2>1. new # <<>> /\ new[Len(new)] = line
    BY <1>1
  <2>. QED BY <1>0, <2>1 DEF JournalInv, WriteOK, CommitOK, Tracking
<1>. QED BY <1>4, <1>7, <1>8, <1>9, <1>10, <1>11 DEF JournalInv

LEMMA ImageLine ==
  ASSUME JournalInv, pc = "track", NEW f \in Files, NEW i \in Nat, i > 0,
         RequiresBeforeImage(f, i), Boundaries(mem, f) # {}
  PROVE  BeforeLine(f, i, file[f].recs[i]) \in Lines
<1>1. PICK k \in DOMAIN mem : mem[k].kind = "file" /\ mem[k].f = f /\ i <= mem[k].len
  BY DEF RequiresBeforeImage, Boundaries
<1>2. file[f] \in Content
  BY DEF JournalInv, Shape
<1>3. i \in DOMAIN file[f].recs
  <2>1. CASE mem[k].existed
    <3>1. mem[k].len <= Len(file[f].recs) /\ mem[k].len \in Nat
      BY <1>1, <2>1, LineFields DEF JournalInv, MemoryOK, Started, LinesOK, LongEnough, Cuttable, Shape
    <3>. QED BY <1>1, <1>2, <3>1 DEF Content
  <2>2. CASE ~mem[k].existed
    <3>1. mem[k].len = 0
      BY <1>1, <2>2, LineFields DEF JournalInv, Shape
    <3>. QED BY <1>1, <3>1
  <2>. QED BY <2>1, <2>2
<1>4. file[f].recs[i] \in Records
  BY <1>2, <1>3 DEF Content, Records
<1>. QED BY <1>4 DEF BeforeLine, BeforeLines, Lines

LEMMA TrackStep == JournalInv /\ Track => JournalInv'
<1>. SUFFICES ASSUME JournalInv, Track PROVE JournalInv'
  OBVIOUS
<1>. DEFINE f == write.f  i == write.at
<1>0. pc = "track" /\ write \in Writes /\ f \in Files /\ i \in Nat /\ i > 0
  BY BoundsAssumption DEF Track, JournalInv, WriteOK, Tracking, Writes
<1>1. CASE \E line \in Boundary(f) : AppendLine(line)
  <2>1. AppendLine(FileLine(f, file[f])) /\ Boundaries(mem, f) = {}
    BY <1>1 DEF Boundary
  <2>. DEFINE line == FileLine(f, file[f])
  <2>2. line.kind = "file" /\ line.f = f /\ line \in Lines /\ Cuttable(line)
    BY <1>0, <2>1, BoundaryLine DEF FileLine, Lines
  <2>. HIDE DEF line
  <2>3. AppendLine(line)
    BY <2>1 DEF line
  <2>. QED BY <1>0, <2>1, <2>2, <2>3, AppendStep
<1>2. CASE Boundary(f) = {} /\ \E line \in Image(f, i) : AppendLine(line)
  <2>. DEFINE line == BeforeLine(f, i, file[f].recs[i])
  <2>1. AppendLine(line) /\ RequiresBeforeImage(f, i) /\ Boundaries(mem, f) # {}
    BY <1>2 DEF Image, Boundary
  <2>2. line \in Lines
    BY <1>0, <2>1, ImageLine
  <2>3. line.kind = "before" /\ line.f = f /\ line.at = i
    BY DEF BeforeLine
  <2>4. Cuttable(line)
    BY <2>3 DEF Cuttable
  <2>. HIDE DEF line
  <2>. QED BY <1>0, <2>1, <2>2, <2>3, <2>4, AppendStep
<1>3. CASE /\ Boundary(f) = {} /\ pc' = "apply"
           /\ UNCHANGED <<file, disk, journal>> /\ UNCHANGED <<mem, cursor, write, writes, faults>>
  <2>0. Boundaries(mem, f) # {}
    BY <1>3 DEF Boundary
  <2>1. Shape' /\ Single(mem)'
    BY <1>3 DEF JournalInv, Shape, PCs, Single, journal, Writing
  <2>2. MemoryOK' /\ DirtyIsJournaled' /\ BoundaryFirst' /\ WriteOK' /\ CommitOK'
    BY <1>0, <1>3, <2>0, SameData DEF JournalInv, MemoryOK, DirtyIsJournaled, BoundaryFirst, WriteOK,
         CommitOK, Undoing, Started, Unlinked, Tracking, Writing
  <2>. QED BY <1>3, <2>1, <2>2, SameData DEF JournalInv
<1>. QED BY <1>1, <1>2, <1>3 DEF Track, Goto, journal

(***************************************************************************)
(* Steps of the files                                                      *)
(***************************************************************************)
LEMMA Undoes ==
  ASSUME JournalInv, NEW line \in Lines, Cuttable(line)
  PROVE  LET c == Undo(line, file[line.f])
         IN  /\ c \in Content /\ (~c.exists => c.recs = <<>>)
             /\ line.kind = "before" =>
                  c.exists = file[line.f].exists /\ Len(c.recs) = Len(file[line.f].recs)
             /\ line.kind = "file" /\ line.existed => c.exists /\ Len(c.recs) = line.len
<1>. DEFINE old == file[line.f]  c == Undo(line, old)
<1>0. /\ line.f \in Files /\ old \in Content /\ (~old.exists => old.recs = <<>>)
      /\ old.recs \in Seq(Records) /\ old.exists \in BOOLEAN /\ Len(old.recs) \in Nat
  BY LineFields DEF JournalInv, Shape, Content, Records
<1>1. CASE line.kind = "file" /\ line.existed
  <2>1. line.len \in Nat /\ line.len <= Len(old.recs) /\ old.exists
    BY <1>1, LineFields DEF Cuttable
  <2>2. SubSeq(old.recs, 1, line.len) \in Seq(Records) /\ Len(SubSeq(old.recs, 1, line.len)) = line.len
    BY <1>0, <2>1
  <2>3. c = [old EXCEPT !.recs = SubSeq(old.recs, 1, line.len)]
    BY <1>1 DEF Undo
  <2>. QED BY <1>0, <1>1, <2>1, <2>2, <2>3 DEF Content, Records
<1>2. CASE line.kind = "file" /\ ~line.existed
  BY <1>2 DEF Undo, Absent, Content
<1>3. CASE line.kind = "before"
  <2>1. line.old \in Records /\ line.at \in Nat
    BY <1>3, LineFields
  <2>2. c = [old EXCEPT !.recs = [old.recs EXCEPT ![line.at] = line.old]]
    BY <1>3 DEF Undo
  <2>. DEFINE new == [old.recs EXCEPT ![line.at] = line.old]
  <2>3. new \in Seq(Records) /\ Len(new) = Len(old.recs)
    BY <1>0, <2>1, SeqExcept
  <2>4. old.recs = <<>> => new = <<>>
    BY <1>0, <2>3
  <2>. HIDE DEF new
  <2>5. c \in Content /\ c.exists = old.exists /\ c.recs = new
    BY <1>0, <2>2, <2>3 DEF Content, Records, new
  <2>. QED BY <1>0, <1>3, <2>3, <2>4, <2>5
<1>. QED BY <1>1, <1>2, <1>3, LineFields

LEMMA UndoWriteStep == JournalInv /\ UndoWrite => JournalInv'
<1>. SUFFICES ASSUME JournalInv, UndoWrite PROVE JournalInv'
  OBVIOUS
<1>. DEFINE line == mem[cursor]  f == line.f  c == Undo(line, file[f])
<1>0. /\ mem = jfile.lines /\ cursor \in DOMAIN mem /\ line \in Lines /\ f \in Files
      /\ cursor \in Nat /\ cursor > 0
      /\ Cuttable(line)
  BY LineFields DEF UndoWrite, JournalInv, MemoryOK, Undoing, Shape, LinesOK, LongEnough
<1>1. /\ \/ pc = "recover" /\ pc' = "recoverSync"
         \/ pc = "abort" /\ pc' = "abortSync"
      /\ file' = [file EXCEPT ![f] = c]
      /\ UNCHANGED <<disk, jfile, jdisk, mem, cursor, write, writes, faults>>
  BY DEF UndoWrite, Goto, journal
<1>2. /\ c \in Content /\ (~c.exists => c.recs = <<>>)
      /\ line.kind = "before" => c.exists = file[f].exists /\ Len(c.recs) = Len(file[f].recs)
      /\ line.kind = "file" /\ line.existed => c.exists /\ Len(c.recs) = line.len
  BY <1>0, Undoes
<1>. HIDE DEF c
<1>3. file' \in [Files -> Content] /\ file'[f] = c /\ \A g \in Files \ {f} : file'[g] = file[g]
  BY <1>0, <1>1, <1>2 DEF JournalInv, Shape
<1>4. Shape' /\ JournalOK(jfile)' /\ JournalOK(jdisk)' /\ Single(mem)'
  BY <1>0, <1>1, <1>2, <1>3 DEF JournalInv, Shape, PCs, JournalOK, Single, NoJournal
<1>5. ASSUME NEW k \in DOMAIN jfile.lines
      PROVE  Cuttable(jfile.lines[k])'
  <2>. DEFINE l == jfile.lines[k]
  <2>1. l \in Lines /\ l.f \in Files /\ Cuttable(l)
    BY <1>0, <1>5, LineFields DEF JournalInv, Shape, Journals, LinesOK, LongEnough
  <2>2. CASE l.f # f
    BY <1>1, <1>3, <2>1, <2>2 DEF Cuttable
  <2>3. CASE l.f = f /\ line.kind = "before"
    BY <1>1, <1>2, <1>3, <2>1, <2>3 DEF Cuttable
  <2>4. CASE l.f = f /\ l.kind = "file" /\ line.kind = "file"
    <3>1. k = cursor
      BY <1>0, <2>4 DEF JournalInv, Single, Boundaries
    <3>2. line.existed => line.len \in Nat
      BY <1>0, <2>4, LineFields
    <3>. QED BY <1>0, <1>1, <1>2, <1>3, <2>1, <2>4, <3>1, <3>2 DEF Cuttable
  <2>5. CASE l.kind # "file"
    BY <1>1, <2>5 DEF Cuttable
  <2>. QED BY <1>0, <2>2, <2>3, <2>4, <2>5, LineFields
<1>6. LinesOK(jfile.lines)' /\ LinesOK(jdisk.lines)'
  <2>1. jfile.lines # <<>>
    BY <1>0
  <2>2. \A k \in DOMAIN jdisk.lines : k \in DOMAIN jfile.lines /\ jdisk.lines[k] = jfile.lines[k]
    BY <2>1 DEF JournalInv, Behind
  <2>3. LongEnough(jfile.lines)'
    BY <1>1, <1>5 DEF LongEnough
  <2>4. LongEnough(jdisk.lines)'
    BY <1>1, <1>5, <2>2 DEF LongEnough, Cuttable
  <2>. QED BY <1>1, <2>3, <2>4 DEF JournalInv, LinesOK, Single
<1>7. MemoryOK' /\ Behind' /\ BoundaryFirst' /\ WriteOK' /\ CommitOK'
  BY <1>0, <1>1 DEF JournalInv, MemoryOK, Behind, BoundaryFirst, WriteOK, CommitOK,
       Undoing, Started, Unlinked, Tracking, Writing
<1>8. DirtyIsJournaled'
  <2>. SUFFICES ASSUME NEW g \in Files, file'[g] # disk[g]
                PROVE  \E k \in DOMAIN jfile.lines : jfile.lines[k].f = g /\ k <= cursor
    BY <1>1 DEF DirtyIsJournaled
  <2>1. CASE g = f
    BY <1>0, <2>1
  <2>2. CASE g # f
    BY <1>1, <1>3, <2>2 DEF JournalInv, DirtyIsJournaled, Undoing
  <2>. QED BY <2>1, <2>2
<1>. QED BY <1>4, <1>6, <1>7, <1>8 DEF JournalInv

LEMMA UndoSyncStep == JournalInv /\ UndoSync => JournalInv'
<1>. SUFFICES ASSUME JournalInv, UndoSync PROVE JournalInv'
  OBVIOUS
<1>. DEFINE f == mem[cursor].f
<1>0. /\ mem = jfile.lines /\ cursor \in DOMAIN mem /\ f \in Files /\ cursor \in Nat /\ cursor > 0
      /\ cursor <= Len(mem) /\ Len(mem) \in Nat
  BY LineFields DEF UndoSync, JournalInv, MemoryOK, Undoing, Shape
<1>1. /\ \/ pc = "recoverSync" /\ pc' = "recover"
         \/ pc = "abortSync" /\ pc' = "abort"
      /\ disk' = [disk EXCEPT ![f] = file[f]] /\ cursor' = cursor - 1
      /\ UNCHANGED <<file, jfile, jdisk, mem, write, writes, faults>>
  BY DEF UndoSync, Goto, journal, Synced
<1>2. disk' \in [Files -> Content] /\ disk'[f] = file[f] /\ \A g \in Files \ {f} : disk'[g] = disk[g]
  BY <1>0, <1>1 DEF JournalInv, Shape
<1>3. Shape' /\ JournalOK(jfile)' /\ JournalOK(jdisk)' /\ Single(mem)'
  BY <1>0, <1>1, <1>2 DEF JournalInv, Shape, PCs, JournalOK, Single, NoJournal
<1>4. ASSUME NEW line \in Lines, Cuttable(line)
      PROVE  Cuttable(line)'
  BY <1>1, <1>2, <1>4, LineFields DEF Cuttable
<1>5. LinesOK(jfile.lines)' /\ LinesOK(jdisk.lines)'
  BY <1>1, <1>4 DEF JournalInv, LinesOK, Single, LongEnough, Shape, Journals
<1>6. MemoryOK' /\ Behind' /\ BoundaryFirst' /\ WriteOK' /\ CommitOK'
  BY <1>0, <1>1 DEF JournalInv, MemoryOK, Behind, BoundaryFirst, WriteOK, CommitOK,
       Undoing, Started, Unlinked, Tracking, Writing
<1>7. DirtyIsJournaled'
  <2>. SUFFICES ASSUME NEW g \in Files, file[g] # disk'[g]
                PROVE  \E k \in DOMAIN jfile.lines : jfile.lines[k].f = g /\ k <= cursor - 1
    BY <1>1 DEF DirtyIsJournaled
  <2>1. g # f /\ file[g] # disk[g]
    BY <1>2
  <2>2. PICK k \in DOMAIN jfile.lines : jfile.lines[k].f = g /\ k <= cursor
    BY <1>1, <2>1 DEF JournalInv, DirtyIsJournaled, Undoing
  <2>. QED BY <1>0, <2>1, <2>2
<1>. QED BY <1>3, <1>5, <1>6, <1>7 DEF JournalInv

\* A write, whole or in pieces, into a file whose boundary is in the journal.
LEMMA FileWritten ==
  ASSUME JournalInv, pc = "apply", NEW v \in Records,
         file' = [file EXCEPT ![write.f] = Written(@, v)], UNCHANGED <<disk, jfile, jdisk>>
  PROVE  /\ file' \in [Files -> Content]
         /\ \A g \in Files : ~file'[g].exists => file'[g].recs = <<>>
         /\ LinesOK(jfile.lines)' /\ LinesOK(jdisk.lines)'
         /\ \A g \in Files : file'[g] # disk[g] => \E k \in DOMAIN jfile.lines : jfile.lines[k].f = g
<1>. DEFINE f == write.f  i == write.at  s == file[f].recs  new == Written(file[f], v)
<1>0. /\ f \in Files /\ i \in Nat /\ i > 0 /\ i <= Len(s) + 1
      /\ Boundaries(mem, f) # {} /\ mem = jfile.lines
  BY BoundsAssumption DEF JournalInv, WriteOK, Tracking, Writes, MemoryOK, Started
<1>1. s \in Seq(Records) /\ Len(s) \in Nat /\ DOMAIN s = 1 .. Len(s) /\ \A n \in DOMAIN s : s[n] \in Records
  BY <1>0 DEF JournalInv, Shape, Content, Records
<1>2. PICK n \in Nat : DOMAIN s \cup {i} = 1 .. n /\ Len(s) <= n
  <2>1. CASE i = Len(s) + 1
    <3>1. DOMAIN s \cup {i} = 1 .. Len(s) + 1
      BY <1>1, <2>1
    <3>2. Len(s) + 1 \in Nat /\ Len(s) <= Len(s) + 1
      BY <1>1
    <3>. QED BY <3>1, <3>2, Zenon
  <2>2. CASE i # Len(s) + 1
    <3>1. DOMAIN s \cup {i} = 1 .. Len(s) /\ Len(s) <= Len(s)
      BY <1>0, <1>1, <2>2
    <3>. QED BY <1>1, <3>1, Zenon
  <2>. QED BY <2>1, <2>2
<1>3. new.exists = TRUE /\ new.recs = [m \in 1 .. n |-> IF m = i THEN v ELSE s[m]]
  BY <1>2 DEF Written
<1>4. new.recs \in [1 .. n -> Records]
  BY <1>1, <1>2, <1>3
<1>5. new.recs \in Seq(Records) /\ Len(new.recs) = n
  BY <1>4, SeqFromFunction
<1>6. new \in Content
  BY <1>5 DEF Content, Records, Written
<1>. HIDE DEF new
<1>7. file' \in [Files -> Content] /\ file'[f] = new /\ \A g \in Files \ {f} : file'[g] = file[g]
  BY <1>0, <1>6 DEF JournalInv, Shape, new
<1>8. ASSUME NEW line \in Lines, Cuttable(line)
      PROVE  Cuttable(line)'
  <2>1. CASE line.f = f
    BY <1>1, <1>2, <1>3, <1>5, <1>7, <1>8, <2>1, LineFields DEF Cuttable
  <2>2. CASE line.f # f
    BY <1>7, <1>8, <2>2, LineFields DEF Cuttable
  <2>. QED BY <2>1, <2>2
<1>9. LinesOK(jfile.lines)' /\ LinesOK(jdisk.lines)'
  BY <1>8 DEF JournalInv, LinesOK, Single, LongEnough, Shape, Journals
<1>10. \E k \in DOMAIN jfile.lines : jfile.lines[k].f = f
  BY <1>0 DEF Boundaries
<1>. QED BY <1>3, <1>7, <1>9, <1>10 DEF JournalInv, Shape, DirtyIsJournaled

LEMMA ApplyStep == JournalInv /\ Apply => JournalInv'
<1>. SUFFICES ASSUME JournalInv, Apply PROVE JournalInv'
  OBVIOUS
<1>1. /\ pc = "apply" /\ pc' = "open"
      /\ file' = [file EXCEPT ![write.f] = Written(@, write.value)]
      /\ UNCHANGED <<disk, jfile, jdisk, mem, cursor, writes, faults>>
  BY DEF Apply, Goto, journal
<1>2. write.value \in Records
  BY <1>1 DEF JournalInv, WriteOK, Tracking, Writes, Records
<1>3. /\ file' \in [Files -> Content]
      /\ \A g \in Files : ~file'[g].exists => file'[g].recs = <<>>
      /\ LinesOK(jfile.lines)' /\ LinesOK(jdisk.lines)'
      /\ \A g \in Files : file'[g] # disk[g] => \E k \in DOMAIN jfile.lines : jfile.lines[k].f = g
  BY <1>1, <1>2, FileWritten
<1>4. Shape' /\ JournalOK(jfile)' /\ JournalOK(jdisk)' /\ Single(mem)'
  BY <1>1, <1>3 DEF JournalInv, Shape, PCs, JournalOK, Single, NoJournal, Writing
<1>5. MemoryOK' /\ Behind' /\ BoundaryFirst' /\ WriteOK' /\ CommitOK'
  BY <1>1 DEF JournalInv, MemoryOK, Behind, BoundaryFirst, WriteOK, CommitOK,
       Undoing, Started, Unlinked, Tracking, Writing
<1>6. DirtyIsJournaled'
  BY <1>1, <1>3 DEF DirtyIsJournaled, Undoing
<1>. QED BY <1>3, <1>4, <1>5, <1>6 DEF JournalInv

\* A commit makes a part of the files durable.
LEMMA Committing ==
  ASSUME JournalInv, UNCHANGED <<file, jfile, jdisk, mem, cursor, write, writes, faults>>,
         disk' \in [Files -> Content],
         \A f \in Files : /\ disk'[f].exists \in {disk[f].exists, file[f].exists}
                          /\ disk'[f].recs \in {disk[f].recs, file[f].recs}
                          /\ disk[f] = file[f] => disk'[f] = file[f],
         \/ pc = "sync" /\ pc' = "sync"
         \/ pc = "syncDirectories" /\ pc' = "unlink" /\ file = disk'
  PROVE  JournalInv'
<1>1. Shape' /\ JournalOK(jfile)' /\ JournalOK(jdisk)' /\ Single(mem)'
  BY DEF JournalInv, Shape, PCs, JournalOK, Single, NoJournal, Writing
<1>2. ASSUME NEW line \in Lines, Cuttable(line)
      PROVE  Cuttable(line)'
  <2>1. line.f \in Files /\ file'[line.f] = file[line.f]
    BY LineFields
  <2>. QED BY <1>2, <2>1 DEF Cuttable
<1>3. LinesOK(jfile.lines)' /\ LinesOK(jdisk.lines)'
  BY <1>2 DEF JournalInv, LinesOK, Single, LongEnough, Shape, Journals
<1>4. MemoryOK' /\ Behind' /\ BoundaryFirst' /\ WriteOK' /\ CommitOK'
  BY DEF JournalInv, MemoryOK, Behind, BoundaryFirst, WriteOK, CommitOK,
       Undoing, Started, Unlinked, Tracking, Writing
<1>5. DirtyIsJournaled'
  BY DEF JournalInv, DirtyIsJournaled, Undoing
<1>. QED BY <1>1, <1>3, <1>4, <1>5 DEF JournalInv

LEMMA SyncFileStep == JournalInv /\ SyncFile => JournalInv'
<1>. SUFFICES ASSUME JournalInv, SyncFile PROVE JournalInv'
  OBVIOUS
<1>1. PICK f \in Files :
        /\ pc = "sync" /\ disk' = [disk EXCEPT ![f].recs = file[f].recs] /\ pc' = pc
        /\ UNCHANGED <<file, jfile, jdisk, mem, cursor, write, writes, faults>>
  BY DEF SyncFile, Touched, journal
<1>2. disk \in [Files -> Content] /\ file \in [Files -> Content]
  BY DEF JournalInv, Shape
<1>3. disk[f] \in Content /\ file[f] \in Content
  BY <1>2
<1>4. /\ [disk[f] EXCEPT !.recs = file[f].recs] \in Content
      /\ [disk[f] EXCEPT !.recs = file[f].recs].recs = file[f].recs
      /\ [disk[f] EXCEPT !.recs = file[f].recs].exists = disk[f].exists
      /\ disk[f] = file[f] => [disk[f] EXCEPT !.recs = file[f].recs] = file[f]
  BY <1>3 DEF Content
<1>5. /\ disk' \in [Files -> Content] /\ disk'[f] = [disk[f] EXCEPT !.recs = file[f].recs]
      /\ \A g \in Files \ {f} : disk'[g] = disk[g]
  BY <1>1, <1>2, <1>4
<1>. QED BY <1>1, <1>4, <1>5, Committing

LEMMA SyncDirectoriesStep == JournalInv /\ SyncDirectories => JournalInv'
<1>. SUFFICES ASSUME JournalInv, SyncDirectories PROVE JournalInv'
  OBVIOUS
<1>1. /\ pc = "syncDirectories" /\ disk' = DirectoriesSynced /\ pc' = "unlink"
      /\ UNCHANGED <<file, jfile, jdisk, mem, cursor, write, writes, faults>>
  BY DEF SyncDirectories, Goto, journal
<1>2. disk \in [Files -> Content] /\ file \in [Files -> Content]
  BY DEF JournalInv, Shape
<1>3. ASSUME NEW f \in Files
      PROVE  disk'[f] = file[f]
  <2>1. CASE f \in Touched
    <3>1. disk[f].recs = file[f].recs
      BY <1>1, <2>1 DEF JournalInv, CommitOK
    <3>2. disk'[f] = [disk[f] EXCEPT !.exists = file[f].exists]
      BY <1>1, <2>1 DEF DirectoriesSynced
    <3>3. disk[f] \in Content /\ file[f] \in Content
      BY <1>2
    <3>. QED BY <3>1, <3>2, <3>3 DEF Content
  <2>2. CASE f \notin Touched
    <3>1. disk'[f] = disk[f]
      BY <1>1, <2>2 DEF DirectoriesSynced
    <3>2. mem = jfile.lines /\ Boundaries(mem, f) = {}
      BY <1>1, <2>2 DEF JournalInv, MemoryOK, Started, Touched
    <3>3. file[f] = disk[f]
      BY <1>1, <3>2 DEF JournalInv, DirtyIsJournaled, BoundaryFirst, Writing
    <3>. QED BY <3>1, <3>3
  <2>. QED BY <2>1, <2>2
<1>4. disk' = file
  <2>1. disk' = [f \in Files |-> disk'[f]]
    BY <1>1 DEF DirectoriesSynced
  <2>. QED BY <1>2, <1>3, <2>1
<1>. QED BY <1>1, <1>2, <1>4, Committing

(***************************************************************************)
(* Faults                                                                  *)
(***************************************************************************)
LEMMA Forgotten ==
  ASSUME JournalInv, Forget, Fault,
         file' \in [Files -> Content], disk' \in [Files -> Content],
         \A f \in Files : ~file'[f].exists => file'[f].recs = <<>>,
         jfile' \in Journals, jdisk' \in Journals, JournalOK(jfile'), JournalOK(jdisk'),
         LinesOK(jfile.lines)', LinesOK(jdisk.lines)', Behind',
         \A f \in Files : file'[f] # disk'[f] =>
           \E k \in DOMAIN jfile'.lines : jfile'.lines[k].f = f
  PROVE  JournalInv'
<1>1. Shape'
  BY BoundsAssumption DEF JournalInv, Forget, Fault, Shape, PCs
<1>2. JournalOK(jfile)' /\ JournalOK(jdisk)' /\ Single(mem)'
  BY DEF JournalOK, Forget, Single, Boundaries
<1>3. MemoryOK' /\ DirtyIsJournaled' /\ BoundaryFirst' /\ WriteOK' /\ CommitOK'
  BY DEF Forget, MemoryOK, DirtyIsJournaled, BoundaryFirst, WriteOK, CommitOK,
       Undoing, Started, Unlinked, Tracking, Writing
<1>. QED BY <1>1, <1>2, <1>3 DEF JournalInv

LEMMA CrashStep == JournalInv /\ Crash => JournalInv'
<1>. SUFFICES ASSUME JournalInv, Crash PROVE JournalInv'
  OBVIOUS
<1>0. Fault /\ Forget /\ disk' = disk /\ jdisk' = jdisk
  BY DEF Crash
<1>1. CASE UNCHANGED <<file, jfile>>
  <2>1. LinesOK(jfile.lines)' /\ LinesOK(jdisk.lines)' /\ Behind'
    BY <1>0, <1>1, SameData DEF journal
  <2>2. \A f \in Files : file'[f] # disk'[f] => \E k \in DOMAIN jfile'.lines : jfile'.lines[k].f = f
    BY <1>0, <1>1 DEF JournalInv, DirtyIsJournaled
  <2>. QED BY <1>0, <1>1, <2>1, <2>2, Forgotten DEF JournalInv, Shape
<1>2. CASE /\ pc = "apply" /\ jfile' = jfile
           /\ file' = [file EXCEPT ![write.f] = Written(@, Garbage)]
  <2>1. /\ file' \in [Files -> Content]
        /\ \A g \in Files : ~file'[g].exists => file'[g].recs = <<>>
        /\ LinesOK(jfile.lines)' /\ LinesOK(jdisk.lines)'
        /\ \A g \in Files : file'[g] # disk[g] => \E k \in DOMAIN jfile.lines : jfile.lines[k].f = g
    BY <1>0, <1>2, FileWritten DEF Records
  <2>2. Behind'
    BY <1>0, <1>2 DEF JournalInv, Behind
  <2>. QED BY <1>0, <1>2, <2>1, <2>2, Forgotten DEF JournalInv, Shape
<1>3. CASE pc = "create" /\ jfile' = Headerless /\ file' = file
  <2>1. \A f \in Files : file[f] = disk[f]
    BY <1>3, JournalShapes DEF JournalInv, MemoryOK, Unlinked, DirtyIsJournaled
  <2>2. LinesOK(jfile.lines)' /\ LinesOK(jdisk.lines)' /\ Behind'
    BY <1>0, <1>3, JournalShapes DEF JournalInv, LinesOK, Single, Boundaries, LongEnough, Cuttable, Behind
  <2>. QED BY <1>0, <1>3, <2>1, <2>2, JournalShapes, Forgotten DEF JournalInv, Shape
<1>. QED BY <1>1, <1>2, <1>3 DEF Crash

\* What a power loss leaves of a file can be cut wherever the file and its
\* durable contents could.
LEMMA SurvivorOK ==
  ASSUME JournalInv, NEW f \in Files, NEW c \in Survivors(f)
  PROVE  /\ c \in Content /\ (~c.exists => c.recs = <<>>)
         /\ file[f].exists /\ disk[f].exists => c.exists
         /\ \A n \in Nat : c.exists /\ n <= Len(file[f].recs) /\ n <= Len(disk[f].recs) =>
              n <= Len(c.recs)
<1>0. /\ file[f].exists \in BOOLEAN /\ disk[f].exists \in BOOLEAN
      /\ Len(file[f].recs) \in Nat /\ Len(disk[f].recs) \in Nat
  BY DEF JournalInv, Shape, Content
<1>1. CASE c = Absent /\ FALSE \in {file[f].exists, disk[f].exists}
  <2>1. c \in Content /\ c.exists = FALSE /\ c.recs = <<>>
    BY <1>1 DEF Absent, Content
  <2>2. ~(file[f].exists /\ disk[f].exists)
    BY <1>0, <1>1
  <2>. QED BY <2>1, <2>2
<1>2. CASE \E n \in 0 .. MaxRecords : \E r \in [1 .. n -> Records] :
             /\ c = [exists |-> TRUE, recs |-> r]
             /\ \E m, k \in {Len(file[f].recs), Len(disk[f].recs)} : m <= n /\ n <= k
  <2>0. PICK n \in 0 .. MaxRecords : \E r \in [1 .. n -> Records] :
             /\ c = [exists |-> TRUE, recs |-> r]
             /\ \E m, k \in {Len(file[f].recs), Len(disk[f].recs)} : m <= n /\ n <= k
    BY <1>2
  <2>1. PICK r \in [1 .. n -> Records] :
             /\ c = [exists |-> TRUE, recs |-> r]
             /\ \E m, k \in {Len(file[f].recs), Len(disk[f].recs)} : m <= n /\ n <= k
    BY <2>0
  <2>2. n \in Nat
    BY BoundsAssumption
  <2>3. r \in Seq(Records) /\ Len(r) = n
    BY <2>2, SeqFromFunction
  <2>4. c.exists = TRUE /\ c.recs = r /\ c \in Content
    BY <2>1, <2>3 DEF Content, Records
  <2>. QED BY <1>0, <2>1, <2>2, <2>3, <2>4
<1>. QED BY <1>1, <1>2 DEF Survivors, Records

LEMMA JournalSurvivorOK ==
  ASSUME JournalInv, NEW j \in JournalSurvivors
  PROVE  /\ j \in Journals /\ JournalOK(j)
         /\ j.lines \in {<<>>, jfile.lines, jdisk.lines}
<1>1. CASE j \in {jdisk, jfile}
  BY <1>1 DEF JournalInv, Shape
<1>2. CASE j \in {NoJournal, Headerless}
  BY <1>2, JournalShapes
<1>3. CASE jfile.lines # <<>> /\ j = [jdisk EXCEPT !.torn = TRUE]
  <2>1. jdisk.header /\ jdisk \in Journals /\ JournalOK(jdisk)
    BY <1>3 DEF JournalInv, Behind, Shape
  <2>2. jdisk.exists
    BY <2>1 DEF JournalOK, NoJournal
  <2>3. j \in Journals /\ j.lines = jdisk.lines /\ j.header = jdisk.header /\ j.exists = jdisk.exists
    BY <1>3, <2>1 DEF Journals
  <2>. QED BY <2>1, <2>2, <2>3 DEF JournalOK
<1>. QED BY <1>1, <1>2, <1>3 DEF JournalSurvivors

LEMMA PowerLossStep == JournalInv /\ PowerLoss => JournalInv'
<1>. SUFFICES ASSUME JournalInv, PowerLoss PROVE JournalInv'
  OBVIOUS
<1>0. /\ Fault /\ Forget /\ disk' = file' /\ jdisk' = jfile' /\ jfile' \in JournalSurvivors
      /\ \A f \in Files : file'[f] \in Survivors(f)
      /\ file' \in [Files -> UNION {Survivors(f) : f \in Files}]
  BY DEF PowerLoss
<1>1. \A f \in Files : file'[f] \in Content /\ (~file'[f].exists => file'[f].recs = <<>>)
  BY <1>0, SurvivorOK
<1>2. file' \in [Files -> Content]
  BY <1>0, <1>1
<1>3. ASSUME NEW line \in Lines, Cuttable(line)
      PROVE  Cuttable(line)'
  <2>. SUFFICES ASSUME line.kind = "file", line.existed
                PROVE  file'[line.f].exists /\ line.len <= Len(file'[line.f].recs)
    BY <1>0 DEF Cuttable
  <2>. DEFINE f == line.f
  <2>1. f \in Files /\ line.len \in Nat
    BY LineFields
  <2>2. /\ file[f].exists /\ disk[f].exists
        /\ line.len <= Len(file[f].recs) /\ line.len <= Len(disk[f].recs)
    BY <1>3 DEF Cuttable
  <2>. QED BY <1>0, <2>1, <2>2, SurvivorOK
<1>4. /\ jfile' \in Journals /\ JournalOK(jfile')
      /\ jfile'.lines \in {<<>>, jfile.lines, jdisk.lines}
  BY <1>0, JournalSurvivorOK
<1>5. LinesOK(jfile.lines)'
  <2>1. CASE jfile'.lines = <<>>
    BY <2>1 DEF LinesOK, Single, Boundaries, LongEnough
  <2>2. CASE jfile'.lines = jfile.lines
    BY <1>3, <2>2 DEF JournalInv, LinesOK, Single, LongEnough, Shape, Journals
  <2>3. CASE jfile'.lines = jdisk.lines
    BY <1>3, <2>3 DEF JournalInv, LinesOK, Single, LongEnough, Shape, Journals
  <2>. QED BY <1>4, <2>1, <2>2, <2>3
<1>6. LinesOK(jdisk.lines)'
  BY <1>0, <1>5 DEF LinesOK, Single, LongEnough
<1>7. Behind'
  BY <1>0, <1>4 DEF Behind, JournalOK
<1>. QED BY <1>0, <1>1, <1>2, <1>4, <1>5, <1>6, <1>7, Forgotten

(***************************************************************************)
(* The theorems                                                            *)
(***************************************************************************)
LEMMA StutterStep == JournalInv /\ UNCHANGED vars => JournalInv'
<1>. SUFFICES ASSUME JournalInv, UNCHANGED vars PROVE JournalInv'
  OBVIOUS
<1>0. UNCHANGED <<file, disk, journal>> /\ UNCHANGED <<pc, mem, cursor, write, writes, faults>>
  BY DEF vars, journal
<1>1. Shape' /\ Single(mem)'
  BY <1>0 DEF JournalInv, Shape, Single, journal
<1>2. MemoryOK' /\ DirtyIsJournaled' /\ BoundaryFirst' /\ WriteOK' /\ CommitOK'
  BY <1>0, SameData DEF JournalInv, MemoryOK, DirtyIsJournaled, BoundaryFirst, WriteOK, CommitOK, Touched
<1>. QED BY <1>0, <1>1, <1>2, SameData DEF JournalInv

\* The inductive invariant holds however often the writer dies and power
\* fails at any step of a transaction, of its commit, of an abort and of the
\* recovery of the journal.
THEOREM JournalInvariant == Spec => []JournalInv
<1>1. JournalInv /\ [Next]_vars => JournalInv'
  BY BeginStep, UndoWriteStep, UndoSyncStep, UndoneStep, WriteHeaderStep, SyncHeaderStep,
     JournalSyncStep, StartWriteStep, TrackStep, ApplyStep, CommitStep, SyncFileStep,
     SyncDirectoriesStep, UnlinkStep, SyncUnlinkStep, AbortStep, CrashStep, PowerLossStep,
     StutterStep DEF Next
<1>. QED BY <1>1, InitInv, PTL DEF Spec

\* One boundary line for every file, an undo position inside the lines, and
\* contents that are records however a file was cut, written in pieces or
\* lost: undoing never reads behind the end of a file.
THEOREM JournalTypes == Spec => []TypeOK
<1>1. JournalInv => TypeOK
  BY SingleMeansOne DEF JournalInv, Shape, JournalOK, TypeOK
<1>. QED BY <1>1, JournalInvariant, PTL

\* Where a writer or a reader finds no journal that recovery reads, every
\* file is durable: the journal is removed only after the last sync of a
\* commit, of an abort or of a recovery, and a journal without a header was
\* never written under.
THEOREM CleanIsDurable == Spec => []CleanMeansDurable
<1>1. JournalInv => CleanMeansDurable
  <2>. SUFFICES ASSUME JournalInv, ~jfile.header PROVE file = disk
    BY DEF CleanMeansDurable
  <2>1. jfile.lines = <<>> /\ file \in [Files -> Content] /\ disk \in [Files -> Content]
    BY DEF JournalInv, JournalOK, Shape
  <2>2. \A f \in Files : file[f] = disk[f]
    BY <2>1 DEF JournalInv, DirtyIsJournaled
  <2>. QED BY <2>1, <2>2
<1>. QED BY <1>1, JournalInvariant, PTL

\* Every line of the journal can be undone at any time, on the files as they
\* are and on what is durable: a file that is to be cut is there and is not
\* shorter than the length it had, also for the durable journal that comes
\* back after a power loss when its unlinking was not synced.
UndoIsPossible == LongEnough(jfile.lines) /\ LongEnough(jdisk.lines)

\* The length of a file that the rollback journal cuts back to is within the
\* file, now and after any power loss.
THEOREM UndoStaysPossible == Spec => []UndoIsPossible
<1>1. JournalInv => UndoIsPossible
  BY DEF JournalInv, LinesOK, UndoIsPossible
<1>. QED BY <1>1, JournalInvariant, PTL

(***************************************************************************)
(* Recovery restores the committed contents                                *)
(***************************************************************************)
IsImage(line, f, i) == line.kind = "before" /\ line.f = f /\ line.at = i

Imaged(lines, f, i) == Images(lines, f, i) # {}

\* An image is of a record that its file had, and behind the boundary of the file.
ImagesOK(lines) == \A k \in DOMAIN lines : lines[k].kind = "before" =>
  /\ lines[k].at > 0
  /\ \E b \in Boundaries(lines, lines[k].f) : b < k /\ lines[k].at <= lines[b].len

\* Contents c of file f keep what the durable lines could not restore.
Agree(c, f) ==
  /\ Boundaries(jdisk.lines, f) = {} => c = file[f]
  /\ \A b \in Boundaries(jdisk.lines, f) : jdisk.lines[b].existed =>
       \A i \in 1 .. jdisk.lines[b].len : ~Imaged(jdisk.lines, f, i) => c.recs[i] = file[f].recs[i]
Clean == \A f \in Files : Agree(disk[f], f)

\* A line that is not durable says what is in the file, unless there is an older image.
Fresh(line) ==
  IF line.kind = "file"
  THEN line = FileLine(line.f, file[line.f]) /\ Boundaries(jdisk.lines, line.f) = {}
  ELSE /\ ~Imaged(jdisk.lines, line.f, line.at) => line.old = file[line.f].recs[line.at]
       /\ line.at > 0
       /\ \E b \in Boundaries(jdisk.lines, line.f) : line.at <= jdisk.lines[b].len
Ahead == jfile.lines \notin {<<>>, jdisk.lines} =>
  \E line \in Lines : Fresh(line) /\ jfile.lines = Append(jdisk.lines, line)

\* Undoing the line again would change nothing.
IsUndone(line) ==
  IF line.kind = "file"
  THEN IF line.existed
       THEN file[line.f].exists /\ Len(file[line.f].recs) = line.len
       ELSE file[line.f] = Absent
  ELSE file[line.f].recs[line.at] = line.old
\* An older image of the same record among the lines from n on.
Again(lines, k, n) == lines[k].kind = "before" /\ \E l \in DOMAIN lines :
  n <= l /\ l < k /\ IsImage(lines[l], lines[k].f, lines[k].at)
UndoneFrom(lines, n) == \A k \in DOMAIN lines :
  n <= k /\ ~Again(lines, k, n) => IsUndone(lines[k])
UndoneBehind == pc \in Undoing =>
  UndoneFrom(mem, IF pc \in {"recoverSync", "abortSync"} THEN cursor ELSE cursor + 1)

\* The record to be overwritten is restored by the lines, or cut off.
Covered == RequiresBeforeImage(write.f, write.at) => Imaged(mem, write.f, write.at)

RecoveryInv ==
  /\ ImagesOK(jfile.lines) /\ ImagesOK(jdisk.lines)
  /\ Clean /\ Ahead /\ UndoneBehind
  /\ pc = "apply" => Covered

(***************************************************************************)
(* What lines say of the contents before them                              *)
(***************************************************************************)
LEMMA AgreeBefore ==
  ASSUME NEW f, NEW c, Agree(c, f)
  PROVE  ContentBefore(jdisk.lines, f, c) = ContentBefore(jdisk.lines, f, file[f])
<1>. DEFINE L == jdisk.lines  b == CHOOSE k \in Boundaries(L, f) : TRUE
<1>1. CASE Boundaries(L, f) = {}
  BY <1>1 DEF Agree, ContentBefore
<1>2. CASE Boundaries(L, f) # {} /\ ~L[b].existed
  BY <1>2 DEF ContentBefore
<1>3. CASE Boundaries(L, f) # {} /\ L[b].existed
  <2>1. b \in Boundaries(L, f)
    BY <1>3
  <2>2. \A i \in 1 .. L[b].len : RecordBefore(L, f, i, c) = RecordBefore(L, f, i, file[f])
    BY <1>3, <2>1 DEF Agree, RecordBefore, Imaged
  <2>3. [i \in 1 .. L[b].len |-> RecordBefore(L, f, i, c)] =
        [i \in 1 .. L[b].len |-> RecordBefore(L, f, i, file[f])]
    BY <2>2
  <2>. QED BY <1>3, <2>3, Zenon DEF ContentBefore
<1>. QED BY <1>1, <1>2, <1>3

\* Contents written out.
LEMMA ContentIs ==
  ASSUME NEW c \in Content, NEW n \in Nat, c.exists, Len(c.recs) = n
  PROVE  [exists |-> TRUE, recs |-> [i \in 1 .. n |-> c.recs[i]]] = c
<1>1. c.recs \in Seq(Records) /\ c = [exists |-> c.exists, recs |-> c.recs] /\ c.exists = TRUE
  BY DEF Content, Records
<1>2. c.recs = [i \in 1 .. n |-> c.recs[i]]
  BY <1>1
<1>. QED BY <1>1, <1>2

LEMMA AbsentIs ==
  ASSUME NEW c \in Content, ~c.exists, c.recs = <<>>
  PROVE  c = Absent
BY DEF Content, Absent

LEMMA BoundaryIs ==
  ASSUME NEW lines, Single(lines), NEW f \in Files, NEW b \in Boundaries(lines, f), NEW c
  PROVE  ContentBefore(lines, f, c) =
           IF lines[b].existed
           THEN [exists |-> TRUE, recs |-> [i \in 1 .. lines[b].len |-> RecordBefore(lines, f, i, c)]]
           ELSE Absent
<1>1. (CHOOSE k \in Boundaries(lines, f) : TRUE) = b
  BY DEF Single
<1>. QED BY <1>1, Zenon DEF ContentBefore

LEMMA LessThanIsWellFounded ==
  \E R : IsWellFoundedOn(R, Nat) /\ \A x, y \in Nat : y < x => <<y, x>> \in R
<1>1. \A x, y \in Nat : y < x => <<y, x>> \in OpToRel(<, Nat)
  BY DEF OpToRel
<1>. QED BY <1>1, NatLessThanWellFounded, Zenon

LEMMA LeastNumber ==
  ASSUME NEW T, T \subseteq Nat, T # {}
  PROVE  \E m \in T : \A k \in T : m <= k
<1>1. PICK R : IsWellFoundedOn(R, Nat) /\ \A x, y \in Nat : y < x => <<y, x>> \in R
  BY LessThanIsWellFounded
<1>2. PICK m \in T : \A k \in T : ~(<<k, m>> \in R)
  BY <1>1, WFMin
<1>3. \A k \in T : k \in Nat /\ m \in Nat /\ ~(k < m)
  BY <1>1, <1>2
<1>. QED BY <1>3

\* The oldest image of a record is what it was.
LEMMA ImageIs ==
  ASSUME NEW lines \in Seq(Lines), NEW f, NEW i, NEW c, Imaged(lines, f, i)
  PROVE  \E k \in DOMAIN lines :
           /\ IsImage(lines[k], f, i) /\ RecordBefore(lines, f, i, c) = lines[k].old
           /\ \A l \in DOMAIN lines : IsImage(lines[l], f, i) => k <= l
<1>. DEFINE T == Images(lines, f, i)  k == Oldest(T)
<1>1. T \subseteq Nat /\ T # {}
  BY DEF Images, Imaged
<1>2. k \in T /\ \A l \in T : k <= l
  BY <1>1, LeastNumber DEF Oldest
<1>3. RecordBefore(lines, f, i, c) = lines[k].old
  BY <1>1 DEF RecordBefore
<1>. HIDE DEF k
<1>. QED BY <1>2, <1>3 DEF Images, IsImage

\* Where every line is undone the contents are those before the lines.
LEMMA UndoneBefore ==
  ASSUME NEW lines \in Seq(Lines), Single(lines), NEW f \in Files, file[f] \in Content,
         UndoneFrom(lines, 1)
  PROVE  ContentBefore(lines, f, file[f]) = file[f]
<1>1. CASE Boundaries(lines, f) = {}
  BY <1>1 DEF ContentBefore
<1>2. CASE Boundaries(lines, f) # {}
  <2>1. PICK b : b \in Boundaries(lines, f)
    BY <1>2
  <2>2. /\ b \in DOMAIN lines /\ lines[b] \in Lines /\ lines[b].kind = "file" /\ lines[b].f = f
        /\ IsUndone(lines[b]) /\ lines[b].len \in Nat
    BY <2>1, LineFields DEF Boundaries, UndoneFrom, Again
  <2>3. CASE ~lines[b].existed
    BY <2>1, <2>2, <2>3, BoundaryIs DEF IsUndone
  <2>4. CASE lines[b].existed
    <3>1. file[f].exists /\ Len(file[f].recs) = lines[b].len
      BY <2>2, <2>4 DEF IsUndone
    <3>2. ASSUME NEW i \in 1 .. lines[b].len
          PROVE  RecordBefore(lines, f, i, file[f]) = file[f].recs[i]
      <4>1. CASE Imaged(lines, f, i)
        <5>1. PICK k \in DOMAIN lines :
                /\ IsImage(lines[k], f, i) /\ RecordBefore(lines, f, i, file[f]) = lines[k].old
                /\ \A l \in DOMAIN lines : IsImage(lines[l], f, i) => k <= l
          BY <4>1, ImageIs
        <5>2. ~Again(lines, k, 1)
          BY <5>1 DEF Again, IsImage
        <5>. QED BY <5>1, <5>2 DEF UndoneFrom, IsImage, IsUndone
      <4>2. CASE ~Imaged(lines, f, i)
        BY <4>2 DEF RecordBefore, Imaged
      <4>. QED BY <4>1, <4>2
    <3>3. [i \in 1 .. lines[b].len |-> RecordBefore(lines, f, i, file[f])] =
          [i \in 1 .. lines[b].len |-> file[f].recs[i]]
      BY <3>2
    <3>4. ContentBefore(lines, f, file[f]) =
          [exists |-> TRUE, recs |-> [i \in 1 .. lines[b].len |-> file[f].recs[i]]]
      <4>1. ContentBefore(lines, f, file[f]) =
            IF lines[b].existed
            THEN [exists |-> TRUE,
                  recs |-> [i \in 1 .. lines[b].len |-> RecordBefore(lines, f, i, file[f])]]
            ELSE Absent
        BY <2>1, BoundaryIs
      <4>. QED BY <2>4, <3>3, <4>1, Zenon
    <3>. QED BY <2>2, <3>1, <3>4, ContentIs
  <2>. QED BY <2>3, <2>4
<1>. QED BY <1>1, <1>2

\* A line that says what is in the file does not change what was before.
LEMMA FreshBefore ==
  ASSUME NEW lines \in Seq(Lines), NEW line \in Lines, NEW f \in Files, NEW c \in Content,
         ~c.exists => c.recs = <<>>,
         ImagesOK(lines),
         line.f = f /\ line.kind = "file" => line = FileLine(f, c) /\ Boundaries(lines, f) = {},
         line.f = f /\ line.kind = "before" /\ ~Imaged(lines, f, line.at) => line.old = c.recs[line.at]
  PROVE  ContentBefore(Append(lines, line), f, c) = ContentBefore(lines, f, c)
<1>. DEFINE new == Append(lines, line)  n == Len(lines) + 1
<1>1. /\ new \in Seq(Lines) /\ DOMAIN new = DOMAIN lines \cup {n} /\ n \notin DOMAIN lines
      /\ new[n] = line /\ \A k \in DOMAIN lines : new[k] = lines[k]
  OBVIOUS
<1>. HIDE DEF new, n
<1>2. CASE line.f = f /\ line.kind = "file"
  <2>1. Boundaries(new, f) = {n} /\ (CHOOSE k \in Boundaries(new, f) : TRUE) = n
    BY <1>1, <1>2 DEF Boundaries
  <2>2. \A i : ~Imaged(new, f, i)
    BY <1>1, <1>2 DEF Imaged, Images, ImagesOK
  <2>3. ContentBefore(lines, f, c) = c /\ line.existed = c.exists /\ line.len = Len(c.recs)
    BY <1>2 DEF ContentBefore, FileLine
  <2>4. CASE c.exists
    <3>1. [i \in 1 .. line.len |-> RecordBefore(new, f, i, c)] = [i \in 1 .. line.len |-> c.recs[i]]
      BY <2>2 DEF RecordBefore, Imaged
    <3>2. ContentBefore(new, f, c) = [exists |-> TRUE, recs |-> [i \in 1 .. line.len |-> c.recs[i]]]
      BY <1>1, <2>1, <2>3, <2>4, <3>1 DEF ContentBefore
    <3>3. line.len \in Nat
      BY <1>2, LineFields
    <3>. QED BY <2>3, <2>4, <3>2, <3>3, ContentIs DEF new
  <2>5. CASE ~c.exists
    <3>1. ContentBefore(new, f, c) = Absent
      BY <1>1, <2>1, <2>3, <2>5 DEF ContentBefore
    <3>. QED BY <2>3, <2>5, <3>1, AbsentIs DEF new
  <2>. QED BY <2>4, <2>5
<1>3. CASE ~(line.f = f /\ line.kind = "file")
  <2>1. Boundaries(new, f) = Boundaries(lines, f)
    BY <1>1, <1>3 DEF Boundaries
  <2>. DEFINE b == CHOOSE k \in Boundaries(lines, f) : TRUE
  <2>2. CASE Boundaries(lines, f) = {}
    BY <2>1, <2>2 DEF ContentBefore, new
  <2>3. CASE Boundaries(lines, f) # {}
    <3>1. b \in DOMAIN lines /\ new[b] = lines[b]
      BY <1>1, <2>3 DEF Boundaries
    <3>2. ASSUME NEW i PROVE RecordBefore(new, f, i, c) = RecordBefore(lines, f, i, c)
      <4>1. CASE Imaged(lines, f, i)
        <5>1. PICK k \in DOMAIN lines :
                /\ IsImage(lines[k], f, i) /\ RecordBefore(lines, f, i, c) = lines[k].old
                /\ \A l \in DOMAIN lines : IsImage(lines[l], f, i) => k <= l
          BY <4>1, ImageIs
        <5>2. Imaged(new, f, i) /\ k \in DOMAIN new /\ IsImage(new[k], f, i)
          BY <1>1, <5>1 DEF Imaged, Images, IsImage
        <5>3. PICK l \in DOMAIN new :
                /\ IsImage(new[l], f, i) /\ RecordBefore(new, f, i, c) = new[l].old
                /\ \A m \in DOMAIN new : IsImage(new[m], f, i) => l <= m
          BY <1>1, <5>2, ImageIs
        <5>4. l <= k /\ k < n /\ l \in Nat /\ k \in Nat /\ n \in Nat
          BY <1>1, <5>2, <5>3 DEF n
        <5>5. l \in DOMAIN lines /\ new[l] = lines[l]
          BY <1>1, <5>3, <5>4
        <5>6. l = k
          BY <5>1, <5>3, <5>4, <5>5
        <5>. QED BY <5>1, <5>3, <5>5, <5>6
      <4>2. CASE ~Imaged(lines, f, i) /\ IsImage(line, f, i)
        <5>1. Imaged(new, f, i) /\ \A k \in DOMAIN new : IsImage(new[k], f, i) => k = n
          BY <1>1, <4>2 DEF Imaged, Images, IsImage
        <5>2. RecordBefore(new, f, i, c) = line.old
          BY <1>1, <5>1, ImageIs
        <5>. QED BY <4>2, <5>2 DEF RecordBefore, IsImage, Imaged
      <4>3. CASE ~Imaged(lines, f, i) /\ ~IsImage(line, f, i)
        <5>1. ~Imaged(new, f, i)
          BY <1>1, <4>3 DEF Imaged, Images, IsImage
        <5>. QED BY <4>3, <5>1 DEF RecordBefore, Imaged
      <4>. QED BY <4>1, <4>2, <4>3
    <3>3. [i \in 1 .. lines[b].len |-> RecordBefore(new, f, i, c)] =
          [i \in 1 .. lines[b].len |-> RecordBefore(lines, f, i, c)]
      BY <3>2
    <3>4. ContentBefore(new, f, c) = ContentBefore(lines, f, c)
      BY <2>1, <2>3, <3>1, <3>3, Zenon DEF ContentBefore
    <3>. QED BY <3>4 DEF new
  <2>. QED BY <2>2, <2>3
<1>. QED BY <1>2, <1>3

(***************************************************************************)
(* The steps of the abstract store                                         *)
(***************************************************************************)
Work == [w \in {"writer"} |-> IF Pending THEN file ELSE <<>>]
StoreStep == [Store!Next]_<<Committed, Work, {}>>

LEMMA StoreUnseen ==
  ASSUME Committed' = Committed, Pending' = Pending, Pending => file' = file
  PROVE  StoreStep
<1>1. Work' = Work
  BY DEF Work
<1>. QED BY <1>1 DEF StoreStep

\* A pending transaction has files, so that its copy is not that of an idle writer.
LEMMA PendingHasFiles ==
  ASSUME JournalInv, Pending
  PROVE  file # <<>> /\ DOMAIN file = Files
<1>1. jdisk.lines \in Seq(Lines) /\ jdisk.lines # <<>>
  BY DEF JournalInv, Shape, Journals, Pending
<1>2. 1 \in DOMAIN jdisk.lines /\ jdisk.lines[1] \in Lines
  BY <1>1
<1>3. Files # {} /\ DOMAIN file = Files
  BY <1>2, LineFields DEF JournalInv, Shape
<1>. QED BY <1>3

LEMMA StoreWrite ==
  ASSUME JournalInv, JournalInv', Committed' = Committed, Pending, Pending'
  PROVE  StoreStep
<1>1. Work["writer"] = file /\ Work'["writer"] = file' /\ Work["writer"] # <<>>
  BY PendingHasFiles DEF Work
<1>2. DOMAIN file = Files /\ DOMAIN file' = Files
  BY DEF JournalInv, Shape
<1>3. Store!Write("writer")
  BY <1>1, <1>2 DEF Store!Write, Store!Idle, Work
<1>. QED BY <1>3 DEF StoreStep, Store!Next

LEMMA StoreDiscard ==
  ASSUME JournalInv, Committed' = Committed, ~Pending'
  PROVE  StoreStep
<1>1. CASE ~Pending
  BY <1>1, StoreUnseen DEF Pending
<1>2. CASE Pending
  <2>1. Work["writer"] # <<>> /\ Work' = [Work EXCEPT !["writer"] = <<>>]
    BY <1>2, PendingHasFiles DEF Work
  <2>2. Store!Discard("writer")
    BY <2>1 DEF Store!Discard, Store!Idle, Work
  <2>. QED BY <2>2 DEF StoreStep, Store!Next
<1>. QED BY <1>1, <1>2

LEMMA StoreCommit ==
  ASSUME JournalInv, Pending, ~Pending', \A f \in Files : Committed'[f] = file[f]
  PROVE  StoreStep
<1>1. /\ Work["writer"] = file /\ Work["writer"] # <<>> /\ DOMAIN file = Files
      /\ Work' = [Work EXCEPT !["writer"] = <<>>]
  BY PendingHasFiles DEF Work
<1>2. Committed' = [f \in Files |-> Committed'[f]]
  BY DEF Committed
<1>3. Committed' = [f \in Files |-> IF f \in DOMAIN Work["writer"] THEN Work["writer"][f]
                                    ELSE Committed[f]]
  BY <1>1, <1>2
<1>4. Store!Commit("writer")
  BY <1>1, <1>3 DEF Store!Commit, Store!Publish, Store!Idle, Work
<1>. QED BY <1>4 DEF StoreStep, Store!Next

LEMMA StoreBegin ==
  ASSUME JournalInv, ~Pending, Pending', Committed' = Committed, file' = file,
         \A f \in Files : Committed[f] = file[f]
  PROVE  StoreStep
<1>1. file = [f \in Files |-> Committed[f]]
  BY DEF JournalInv, Shape
<1>2. Work = [w \in {"writer"} |-> <<>>] /\ Work' = [w \in {"writer"} |-> file]
  BY DEF Work
<1>3. Work' = [Work EXCEPT !["writer"] = [f \in Files |-> Committed[f]]]
  BY <1>1, <1>2
<1>4. \A v \in {"writer"} : Files \cap DOMAIN Work[v] = {}
  BY <1>2
<1>5. Store!Begin("writer")
  <2>1. Work["writer"] = <<>>
    BY <1>2
  <2>. QED BY <1>3, <1>4, <2>1 DEF Store!Begin, Store!Idle, Work
<1>. QED BY <1>5 DEF StoreStep, Store!Next

(***************************************************************************)
(* Steps that leave the files and the journals as they are                 *)
(***************************************************************************)
LEMMA SameRecovery ==
  ASSUME RecoveryInv, UNCHANGED <<file, disk, journal>>
  PROVE  /\ ImagesOK(jfile.lines)' /\ ImagesOK(jdisk.lines)' /\ Clean' /\ Ahead'
         /\ Committed' = Committed
         /\ file' = file /\ jfile' = jfile /\ jdisk' = jdisk
<1>1. file' = file /\ disk' = disk /\ jfile' = jfile /\ jdisk' = jdisk
  BY DEF journal
<1>2. ImagesOK(jfile.lines)' /\ ImagesOK(jdisk.lines)'
  BY <1>1 DEF RecoveryInv, ImagesOK
<1>3. Clean' /\ Ahead'
  BY <1>1 DEF RecoveryInv, Clean, Agree, Ahead, Fresh
<1>4. Committed' = Committed
  BY <1>1 DEF Committed
<1>. QED BY <1>1, <1>2, <1>3, <1>4

LEMMA BeginRecovers ==
  ASSUME JournalInv, RecoveryInv, Begin
  PROVE  RecoveryInv' /\ StoreStep
<1>1. UNCHANGED <<file, disk, journal>> /\ pc = "idle"
  BY DEF Begin, journal
<1>2. UndoneBehind' /\ pc' \in {"recover", "create"}
  <2>1. CASE jfile.exists
    <3>1. pc' = "recover" /\ mem' = jfile.lines /\ cursor' = Len(mem') /\ mem' \in Seq(Lines)
      BY <2>1 DEF Begin, Goto, JournalInv, Shape, Journals
    <3>2. \A k \in DOMAIN mem' : ~(cursor' + 1 <= k)
      BY <3>1
    <3>. QED BY <3>1, <3>2 DEF UndoneBehind, UndoneFrom
  <2>2. CASE ~jfile.exists
    BY <2>2 DEF Begin, Goto, UndoneBehind, Undoing
  <2>. QED BY <2>1, <2>2
<1>3. Pending' = Pending
  BY <1>1, <1>2, SameRecovery DEF Pending, Writing
<1>. QED BY <1>1, <1>2, <1>3, SameRecovery, StoreUnseen DEF RecoveryInv

LEMMA AbortRecovers ==
  ASSUME JournalInv, RecoveryInv, Abort
  PROVE  RecoveryInv' /\ StoreStep
<1>1. /\ UNCHANGED <<file, disk, journal>> /\ pc' = "abort" /\ cursor' = Len(mem) /\ mem' = mem
      /\ mem \in Seq(Lines) /\ jdisk = jfile
  BY DEF Abort, Goto, journal, JournalInv, Shape, MemoryOK, Started
<1>2. \A k \in DOMAIN mem' : ~(cursor' + 1 <= k)
  BY <1>1
<1>3. UndoneBehind'
  BY <1>1, <1>2 DEF UndoneBehind, UndoneFrom
<1>4. ~Pending'
  BY <1>1, SameRecovery DEF Pending, Writing
<1>. QED BY <1>1, <1>3, <1>4, SameRecovery, StoreDiscard DEF RecoveryInv

\* The writer moves and stays a writer, or was not and does not become one.
LEMMA MoveRecovers ==
  ASSUME JournalInv, RecoveryInv, UNCHANGED <<file, disk, journal>>,
         pc' \notin Undoing, pc \in Writing <=> pc' \in Writing,
         pc' = "apply" => Covered'
  PROVE  RecoveryInv' /\ StoreStep
<1>1. UndoneBehind'
  BY DEF UndoneBehind
<1>2. Pending' = Pending
  BY SameRecovery DEF Pending
<1>. QED BY <1>1, <1>2, SameRecovery, StoreUnseen DEF RecoveryInv

LEMMA MovesRecover ==
  ASSUME JournalInv, RecoveryInv, SyncHeader \/ StartWrite \/ Commit \/ FilesSynced
  PROVE  RecoveryInv' /\ StoreStep
<1>1. /\ UNCHANGED <<file, disk, journal>> /\ pc' # "apply" /\ pc' \notin Undoing
      /\ pc \in Writing <=> pc' \in Writing
  BY DEF SyncHeader, StartWrite, Commit, FilesSynced, Goto, journal, Undoing, Writing
<1>. QED BY <1>1, MoveRecovers

(***************************************************************************)
(* Steps of the journal                                                    *)
(***************************************************************************)
LEMMA NoLinesOK == ImagesOK(<<>>)
BY DEF ImagesOK

LEMMA NoLinesClean ==
  ASSUME JournalInv, jfile.lines = <<>>
  PROVE  \A f \in Files : file[f] = disk[f]
BY DEF JournalInv, DirtyIsJournaled

\* The lines of the journal file go; the durable ones stay.
LEMMA EmptyRecovers ==
  ASSUME JournalInv, RecoveryInv, jfile'.lines = <<>>, UNCHANGED <<file, disk, jdisk>>,
         pc' \notin Undoing \cup {"apply"}
  PROVE  RecoveryInv' /\ Committed' = Committed
<1>1. ImagesOK(jfile.lines)' /\ ImagesOK(jdisk.lines)'
  BY NoLinesOK DEF RecoveryInv, ImagesOK
<1>2. Clean' /\ Ahead' /\ UndoneBehind'
  BY DEF RecoveryInv, Clean, Agree, Ahead, UndoneBehind
<1>3. Committed' = Committed
  BY DEF Committed
<1>. QED BY <1>1, <1>2, <1>3 DEF RecoveryInv

LEMMA CommittedIs ==
  ASSUME NEW f \in Files
  PROVE  /\ Committed[f] = ContentBefore(jdisk.lines, f, file[f])
         /\ Committed'[f] = ContentBefore(jdisk'.lines, f, file'[f])
BY DEF Committed

LEMMA CommittedSame ==
  ASSUME \A f \in Files : Committed'[f] = Committed[f]
  PROVE  Committed' = Committed
<1>1. Committed' = [f \in Files |-> Committed'[f]] /\ Committed = [f \in Files |-> Committed[f]]
  BY DEF Committed
<1>. QED BY <1>1

LEMMA NoLinesCommitted ==
  ASSUME NEW f \in Files
  PROVE  /\ jdisk.lines = <<>> => Committed[f] = file[f]
         /\ jdisk'.lines = <<>> => Committed'[f] = file'[f]
<1>1. Boundaries(<<>>, f) = {}
  BY DEF Boundaries
<1>2. \A c : ContentBefore(<<>>, f, c) = c
  BY <1>1 DEF ContentBefore
<1>. QED BY <1>2, CommittedIs

LEMMA UndoneRecovers ==
  ASSUME JournalInv, RecoveryInv, Undone
  PROVE  RecoveryInv' /\ StoreStep
<1>0. /\ pc \in {"recover", "abort"} /\ cursor = 0 /\ jfile' = NoJournal
      /\ pc' \in {"recoverUnlink", "abortUnlink"} /\ UNCHANGED <<file, disk, jdisk>>
      /\ mem = jfile.lines /\ jfile'.lines = <<>>
  BY JournalShapes DEF Undone, Goto, JournalInv, MemoryOK, Undoing
<1>1. RecoveryInv' /\ Committed' = Committed
  BY <1>0, EmptyRecovers DEF Undoing
<1>2. CASE jfile.lines = <<>>
  <2>1. Pending' = Pending
    BY <1>0, <1>2 DEF Pending, Writing
  <2>. QED BY <1>0, <1>1, <2>1, StoreUnseen
<1>3. CASE jfile.lines # <<>> /\ jdisk.lines = <<>>
  <2>1. Pending' = Pending
    BY <1>0, <1>3 DEF Pending
  <2>. QED BY <1>0, <1>1, <2>1, StoreUnseen
<1>4. CASE jfile.lines # <<>> /\ jdisk.lines # <<>>
  <2>1. ~Pending /\ Pending'
    BY <1>0, <1>4 DEF Pending, Writing
  <2>2. /\ jdisk.lines \in Seq(Lines) /\ Single(jdisk.lines) /\ jfile.lines \in Seq(Lines)
        /\ \A f \in Files : file[f] \in Content
    BY DEF JournalInv, LinesOK, Shape, Journals
  <2>3. UndoneFrom(jfile.lines, 1)
    BY <1>0, <2>2 DEF RecoveryInv, UndoneBehind, Undoing
  <2>4. UndoneFrom(jdisk.lines, 1)
    <3>1. /\ DOMAIN jdisk.lines \subseteq DOMAIN jfile.lines
          /\ \A k \in DOMAIN jdisk.lines : jdisk.lines[k] = jfile.lines[k]
      BY <1>4 DEF JournalInv, Behind
    <3>2. ASSUME NEW k \in DOMAIN jdisk.lines, Again(jfile.lines, k, 1)
          PROVE  Again(jdisk.lines, k, 1)
      <4>1. PICK l \in DOMAIN jfile.lines :
              l < k /\ IsImage(jfile.lines[l], jfile.lines[k].f, jfile.lines[k].at)
        BY <3>2 DEF Again
      <4>2. l \in DOMAIN jdisk.lines /\ 1 <= l
        BY <2>2, <4>1
      <4>. QED BY <3>1, <3>2, <4>1, <4>2 DEF Again
    <3>. QED BY <2>3, <3>1, <3>2 DEF UndoneFrom
  <2>5. \A f \in Files : Committed[f] = file[f]
    BY <2>2, <2>4, UndoneBefore, CommittedIs
  <2>. QED BY <1>0, <1>1, <2>1, <2>5, StoreBegin
<1>. QED BY <1>2, <1>3, <1>4

LEMMA HeaderRecovers ==
  ASSUME JournalInv, RecoveryInv, WriteHeader \/ Unlink
  PROVE  RecoveryInv' /\ StoreStep
<1>0. /\ jfile'.lines = <<>> /\ UNCHANGED <<file, disk, jdisk>>
      /\ \/ pc = "create" /\ pc' = "syncHeader" /\ jfile = NoJournal
         \/ pc = "unlink" /\ pc' = "syncUnlink"
  BY JournalShapes DEF WriteHeader, Unlink, Goto, JournalInv, MemoryOK, Unlinked
<1>1. RecoveryInv' /\ Committed' = Committed
  BY <1>0, EmptyRecovers DEF Undoing
<1>2. Pending' = Pending
  BY <1>0, JournalShapes DEF Pending, Writing
<1>. QED BY <1>0, <1>1, <1>2, StoreUnseen

\* An empty journal file becomes durable, or its absence does.
LEMMA DropRecovers ==
  ASSUME JournalInv, RecoveryInv, jfile.lines = <<>>, jdisk'.lines = <<>>,
         UNCHANGED <<file, disk, jfile>>, pc' \notin Undoing \cup {"apply"}
  PROVE  RecoveryInv' /\ StoreStep
<1>1. ImagesOK(jfile.lines)' /\ ImagesOK(jdisk.lines)'
  BY NoLinesOK DEF RecoveryInv, ImagesOK
<1>2. Clean'
  BY NoLinesClean DEF Clean, Agree, Boundaries
<1>3. Ahead' /\ UndoneBehind' /\ ~Pending'
  BY DEF Ahead, UndoneBehind, Pending
<1>4. \A f \in Files : Committed'[f] = file[f]
  BY NoLinesCommitted
<1>5. CASE Pending
  BY <1>3, <1>4, <1>5, StoreCommit, <1>1, <1>2 DEF RecoveryInv
<1>6. CASE ~Pending
  <2>1. jdisk.lines = <<>>
    BY <1>6 DEF Pending
  <2>2. Committed' = Committed
    BY <1>4, <2>1, NoLinesCommitted, CommittedSame
  <2>. QED BY <1>1, <1>2, <1>3, <2>2, StoreDiscard DEF RecoveryInv
<1>. QED BY <1>5, <1>6

LEMMA DropsRecover ==
  ASSUME JournalInv, RecoveryInv, SyncLink \/ SyncUnlink
  PROVE  RecoveryInv' /\ StoreStep
<1>1. /\ UNCHANGED <<file, disk, jfile>> /\ jfile.lines = <<>> /\ jdisk'.lines = <<>>
      /\ pc' \in {"open", "create", "idle"}
  BY JournalShapes DEF SyncLink, SyncUnlink, Goto, JournalInv, MemoryOK, Unlinked
<1>. QED BY <1>1, DropRecovers DEF Undoing

LEMMA AppendRecovers ==
  ASSUME JournalInv, RecoveryInv, pc = "track", NEW line \in Lines, AppendLine(line), Fresh(line)
  PROVE  RecoveryInv' /\ StoreStep
<1>. DEFINE L == jdisk.lines  new == Append(L, line)  n == Len(L) + 1
<1>0. /\ mem = L /\ jfile = jdisk /\ pc' = "syncLine" /\ UNCHANGED <<file, disk, jdisk>>
      /\ jfile'.lines = new
  BY DEF AppendLine, Goto, JournalInv, MemoryOK, Started, Shape, Journals
<1>1. /\ L \in Seq(Lines) /\ DOMAIN new = DOMAIN L \cup {n} /\ DOMAIN L = 1 .. Len(L)
      /\ new[n] = line /\ \A k \in DOMAIN L : new[k] = L[k] /\ k < n /\ n \in Nat
  BY DEF JournalInv, Shape, Journals
<1>. HIDE DEF new, n
<1>2. \A f : Boundaries(L, f) \subseteq Boundaries(new, f)
  BY <1>1 DEF Boundaries
<1>3. ImagesOK(new)
  <2>. SUFFICES ASSUME NEW k \in DOMAIN new, new[k].kind = "before"
                PROVE  /\ new[k].at > 0
                       /\ \E b \in Boundaries(new, new[k].f) : b < k /\ new[k].at <= new[b].len
    BY DEF ImagesOK
  <2>1. CASE k = n
    <3>1. /\ line.at > 0 /\ new[k] = line
          /\ \E b \in Boundaries(L, line.f) : line.at <= L[b].len
      BY <1>1, <2>1 DEF Fresh
    <3>3. PICK b \in Boundaries(L, line.f) : line.at <= L[b].len
      BY <3>1
    <3>4. b \in Boundaries(new, line.f) /\ b < n /\ new[b] = L[b]
      BY <1>1, <1>2, <3>3 DEF Boundaries
    <3>. QED BY <2>1, <3>1, <3>3, <3>4
  <2>2. CASE k \in DOMAIN L
    <3>1. /\ L[k].at > 0 /\ new[k] = L[k] /\ L[k].kind = "before"
          /\ \E b \in Boundaries(L, L[k].f) : b < k /\ L[k].at <= L[b].len
      BY <1>1, <2>2 DEF RecoveryInv, ImagesOK
    <3>3. PICK b \in Boundaries(L, L[k].f) : b < k /\ L[k].at <= L[b].len
      BY <3>1
    <3>4. b \in Boundaries(new, L[k].f) /\ new[b] = L[b]
      BY <1>1, <1>2, <3>3 DEF Boundaries
    <3>. QED BY <1>1, <3>1, <3>3, <3>4
  <2>. QED BY <1>1, <2>1, <2>2
<1>4. Fresh(line)'
  BY <1>0 DEF Fresh
<1>5. Ahead'
  BY <1>0, <1>4 DEF Ahead, new
<1>6. ImagesOK(jfile.lines)' /\ ImagesOK(jdisk.lines)'
  BY <1>0, <1>3 DEF RecoveryInv, ImagesOK
<1>7. Clean' /\ UndoneBehind'
  BY <1>0 DEF RecoveryInv, Clean, Agree, UndoneBehind, Undoing
<1>8. Committed' = Committed
  BY <1>0 DEF Committed
<1>9. Pending' = Pending
  BY <1>0 DEF Pending, Writing
<1>. QED BY <1>0, <1>5, <1>6, <1>7, <1>8, <1>9, StoreUnseen DEF RecoveryInv

LEMMA TrackRecovers ==
  ASSUME JournalInv, RecoveryInv, Track
  PROVE  RecoveryInv' /\ StoreStep
<1>. DEFINE f == write.f  i == write.at
<1>0. /\ pc = "track" /\ write \in Writes /\ f \in Files /\ i \in Nat /\ i > 0 /\ mem = jdisk.lines
      /\ file[f] \in Content
  BY BoundsAssumption DEF Track, JournalInv, WriteOK, Tracking, Writes, MemoryOK, Started, Shape
<1>1. CASE \E line \in Boundary(f) : AppendLine(line)
  <2>1. AppendLine(FileLine(f, file[f])) /\ Boundaries(mem, f) = {}
    BY <1>1 DEF Boundary
  <2>2. FileLine(f, file[f]).kind = "file" /\ FileLine(f, file[f]).f = f
    BY DEF FileLine
  <2>3. Fresh(FileLine(f, file[f])) /\ FileLine(f, file[f]) \in Lines
    BY <1>0, <2>1, <2>2, BoundaryLine DEF Fresh, Lines
  <2>. QED BY <1>0, <2>1, <2>3, AppendRecovers
<1>2. CASE Boundary(f) = {} /\ \E line \in Image(f, i) : AppendLine(line)
  <2>. DEFINE line == BeforeLine(f, i, file[f].recs[i])
  <2>1. AppendLine(line) /\ RequiresBeforeImage(f, i) /\ Boundaries(mem, f) # {}
    BY <1>2 DEF Image, Boundary
  <2>2. PICK k \in Boundaries(mem, f) : i <= mem[k].len
    BY <2>1 DEF RequiresBeforeImage
  <2>3. line \in Lines
    BY <1>0, <2>1, <2>2, ImageLine
  <2>4. line.kind = "before" /\ line.f = f /\ line.at = i /\ line.old = file[f].recs[i]
    BY DEF BeforeLine
  <2>. HIDE DEF line
  <2>5. Fresh(line)
    BY <1>0, <2>1, <2>2, <2>4 DEF Fresh
  <2>. QED BY <1>0, <2>1, <2>3, <2>5, AppendRecovers
<1>3. CASE /\ Boundary(f) = {} /\ Image(f, i) = {} /\ pc' = "apply"
           /\ UNCHANGED <<file, disk, journal>> /\ UNCHANGED <<mem, cursor, write, writes, faults>>
  <2>1. Covered'
    BY <1>3 DEF Image, RequiresBeforeImage, Covered
  <2>. QED BY <1>0, <1>3, <2>1, MoveRecovers DEF Undoing, Writing
<1>. QED BY <1>1, <1>2, <1>3 DEF Track, Goto, journal

LEMMA SyncLineRecovers ==
  ASSUME JournalInv, RecoveryInv, SyncLine
  PROVE  RecoveryInv' /\ StoreStep
<1>. DEFINE L == jdisk.lines
<1>0. /\ pc = "syncLine" /\ pc' \in {"track", "apply"} /\ jdisk' = jfile
      /\ UNCHANGED <<file, disk, jfile>>
  BY DEF SyncLine, LineSynced, Goto
<1>1. jfile.lines # <<>>
  BY <1>0 DEF JournalInv, MemoryOK, WriteOK, Started
<1>9. pc' = "apply" => Covered'
  <2>. SUFFICES ASSUME pc' = "apply" PROVE Covered'
    OBVIOUS
  <2>1. /\ mem' = mem /\ write' = write /\ mem \in Seq(Lines) /\ mem # <<>>
        /\ mem[Len(mem)].kind = "before"
    BY <1>0 DEF SyncLine, Goto, JournalInv, WriteOK, Shape
  <2>2. Len(mem) \in DOMAIN mem
    BY <2>1
  <2>3. Len(mem) \in Images(mem, write.f, write.at)
    BY <1>0, <2>1, <2>2 DEF JournalInv, WriteOK, Images
  <2>. QED BY <2>1, <2>3 DEF Covered, Imaged
<1>2. ImagesOK(jfile.lines)' /\ ImagesOK(jdisk.lines)' /\ Ahead' /\ UndoneBehind'
  BY <1>0 DEF RecoveryInv, ImagesOK, Ahead, UndoneBehind, Undoing
<1>3. CASE jfile.lines = L
  <2>1. Clean' /\ Committed' = Committed /\ Pending' = Pending
    BY <1>0, <1>3 DEF RecoveryInv, Clean, Agree, Committed, Pending, Writing
  <2>. QED BY <1>0, <1>2, <1>9, <2>1, StoreUnseen DEF RecoveryInv
<1>4. CASE jfile.lines \notin {<<>>, L}
  <2>1. PICK line \in Lines : Fresh(line) /\ jfile.lines = Append(L, line)
    BY <1>4 DEF RecoveryInv, Ahead
  <2>2. L \in Seq(Lines) /\ ImagesOK(L) /\ \A f \in Files :
          file[f] \in Content /\ (~file[f].exists => file[f].recs = <<>>)
    BY DEF JournalInv, Shape, Journals, RecoveryInv
  <2>3. ASSUME NEW f \in Files PROVE Committed'[f] = Committed[f]
    <3>1. ContentBefore(Append(L, line), f, file[f]) = ContentBefore(L, f, file[f])
      BY <2>1, <2>2, FreshBefore DEF Fresh
    <3>. QED BY <1>0, <2>1, <3>1, CommittedIs
  <2>4. Committed' = Committed
    BY <2>3, CommittedSame
  <2>5. Clean'
    <3>. DEFINE new == Append(L, line)  n == Len(L) + 1
    <3>1. /\ DOMAIN new = DOMAIN L \cup {n} /\ n \notin DOMAIN L
          /\ new[n] = line /\ \A k \in DOMAIN L : new[k] = L[k]
      BY <2>2
    <3>. HIDE DEF new, n
    <3>2. ASSUME NEW f \in Files PROVE Agree(disk[f], f)'
      <4>0. Agree(disk[f], f)
        BY DEF RecoveryInv, Clean
      <4>1. CASE Boundaries(L, f) = {}
        BY <1>0, <4>0, <4>1 DEF Agree
      <4>2. CASE Boundaries(L, f) # {}
        <5>1. Boundaries(new, f) = Boundaries(L, f)
          BY <2>1, <3>1, <4>2 DEF Boundaries, Fresh
        <5>2. \A b \in Boundaries(L, f) : new[b] = L[b]
          BY <3>1 DEF Boundaries
        <5>3. \A i : Imaged(L, f, i) => Imaged(new, f, i)
          BY <3>1 DEF Imaged, Images
        <5>4. jdisk'.lines = new
          BY <1>0, <2>1 DEF new
        <5>5. \A b \in Boundaries(new, f) : new[b].existed =>
                \A i \in 1 .. new[b].len : ~Imaged(new, f, i) => disk[f].recs[i] = file[f].recs[i]
          BY <4>0, <5>1, <5>2, <5>3 DEF Agree
        <5>. QED BY <1>0, <4>2, <5>1, <5>4, <5>5 DEF Agree
      <4>. QED BY <4>1, <4>2
    <3>. QED BY <3>2 DEF Clean
  <2>6. CASE L = <<>>
    <3>1. ~Pending /\ Pending'
      BY <1>0, <1>4, <2>6 DEF Pending, Writing
    <3>. QED BY <1>0, <1>2, <1>9, <2>4, <2>5, <2>6, <3>1, NoLinesCommitted, StoreBegin DEF RecoveryInv
  <2>7. CASE L # <<>>
    <3>1. Pending' = Pending
      BY <1>0, <1>4, <2>7 DEF Pending, Writing
    <3>. QED BY <1>0, <1>2, <1>9, <2>4, <2>5, <3>1, StoreUnseen DEF RecoveryInv
  <2>. QED BY <2>6, <2>7
<1>. QED BY <1>1, <1>3, <1>4

(***************************************************************************)
(* Steps of the files                                                      *)
(***************************************************************************)
\* What a line that is not durable says stays true.
LEMMA FreshStays ==
  ASSUME JournalInv, \A f \in Files : Agree(file'[f], f), NEW line \in Lines, Fresh(line)
  PROVE  /\ line.kind = "file" => line = FileLine(line.f, file'[line.f])
         /\ line.kind = "before" /\ ~Imaged(jdisk.lines, line.f, line.at) =>
              line.old = file'[line.f].recs[line.at]
<1>1. line.f \in Files /\ line.kind \in {"file", "before"}
  BY LineFields
<1>2. CASE line.kind = "file"
  BY <1>1, <1>2 DEF Fresh, Agree
<1>3. CASE line.kind = "before" /\ ~Imaged(jdisk.lines, line.f, line.at)
  <2>1. PICK b \in Boundaries(jdisk.lines, line.f) : line.at <= jdisk.lines[b].len
    BY <1>3 DEF Fresh
  <2>2. jdisk.lines[b] \in Lines /\ jdisk.lines[b].kind = "file"
    BY <2>1 DEF Boundaries, JournalInv, Shape, Journals
  <2>3. jdisk.lines[b].existed /\ line.at \in 1 .. jdisk.lines[b].len
    BY <1>3, <2>1, <2>2, LineFields DEF Fresh
  <2>. QED BY <1>1, <1>3, <2>1, <2>3 DEF Fresh, Agree
<1>. QED BY <1>1, <1>2, <1>3

\* A change of the files that the durable lines can undo.
LEMMA Harmless ==
  ASSUME JournalInv, RecoveryInv, jdisk' = jdisk, jfile' = jfile,
         \A f \in Files : Agree(file'[f], f) /\ Agree(disk'[f], f)
  PROVE  /\ ImagesOK(jfile.lines)' /\ ImagesOK(jdisk.lines)' /\ Clean' /\ Ahead'
         /\ Committed' = Committed
<1>1. Committed' = Committed
  BY AgreeBefore, CommittedIs, CommittedSame
<1>2. Clean'
  BY DEF Clean, Agree
<1>3. ImagesOK(jfile.lines)' /\ ImagesOK(jdisk.lines)'
  BY DEF RecoveryInv, ImagesOK
<1>4. Ahead'
  <2>. SUFFICES ASSUME jfile.lines \notin {<<>>, jdisk.lines}
                PROVE  \E line \in Lines : Fresh(line)' /\ jfile.lines = Append(jdisk.lines, line)
    BY DEF Ahead
  <2>1. PICK line \in Lines : Fresh(line) /\ jfile.lines = Append(jdisk.lines, line)
    BY DEF RecoveryInv, Ahead
  <2>2. /\ line.kind = "file" => line = FileLine(line.f, file'[line.f])
        /\ line.kind = "before" /\ ~Imaged(jdisk.lines, line.f, line.at) =>
             line.old = file'[line.f].recs[line.at]
    BY <2>1, FreshStays
  <2>3. Fresh(line)'
    BY <2>1, <2>2, LineFields DEF Fresh, Imaged
  <2>. QED BY <2>1, <2>3
<1>. QED BY <1>1, <1>2, <1>3, <1>4

LEMMA DiskAgrees ==
  ASSUME RecoveryInv, NEW f \in Files
  PROVE  Agree(disk[f], f) /\ Agree(file[f], f)
BY DEF RecoveryInv, Clean, Agree

\* Files become durable, in whole or in part.
LEMMA SyncRecovers ==
  ASSUME JournalInv, RecoveryInv, UNCHANGED <<file, jfile, jdisk>>,
         \A f \in Files : Agree(disk'[f], f),
         UndoneBehind', pc' # "apply", pc \in Writing <=> pc' \in Writing
  PROVE  RecoveryInv' /\ StoreStep
<1>1. \A f \in Files : Agree(file'[f], f)
  BY DiskAgrees
<1>2. Pending' = Pending
  BY DEF Pending
<1>. QED BY <1>1, <1>2, Harmless, StoreUnseen DEF RecoveryInv

LEMMA UndoSyncRecovers ==
  ASSUME JournalInv, RecoveryInv, UndoSync
  PROVE  RecoveryInv' /\ StoreStep
<1>0. /\ pc \in {"recoverSync", "abortSync"} /\ pc' \in {"recover", "abort"}
      /\ disk' = [disk EXCEPT ![mem[cursor].f] = file[mem[cursor].f]] /\ cursor' = cursor - 1
      /\ UNCHANGED <<file, jfile, jdisk, mem>> /\ cursor \in Nat /\ mem \in Seq(Lines)
      /\ disk \in [Files -> Content]
  BY DEF UndoSync, Goto, journal, Synced, JournalInv, Shape
<1>1. \A f \in Files : disk'[f] \in {disk[f], file[f]}
  BY <1>0
<1>2. \A f \in Files : Agree(disk'[f], f)
  BY <1>1, DiskAgrees
<1>3. UndoneBehind'
  <2>1. UndoneFrom(mem, cursor) /\ cursor' + 1 = cursor
    BY <1>0 DEF RecoveryInv, UndoneBehind, Undoing
  <2>. QED BY <1>0, <2>1 DEF UndoneBehind, UndoneFrom, Again, IsUndone
<1>. QED BY <1>0, <1>2, <1>3, SyncRecovers DEF Writing

LEMMA SyncFileRecovers ==
  ASSUME JournalInv, RecoveryInv, SyncFile
  PROVE  RecoveryInv' /\ StoreStep
<1>0. PICK f \in Files :
        /\ pc = "sync" /\ disk' = [disk EXCEPT ![f].recs = file[f].recs] /\ pc' = pc
        /\ UNCHANGED <<file, jfile, jdisk>>
  BY DEF SyncFile, Touched, journal
<1>1. disk \in [Files -> Content] /\ file[f] \in Content /\ disk[f] \in Content
  BY DEF JournalInv, Shape
<1>2. /\ disk'[f].recs = file[f].recs /\ (disk[f] = file[f] => disk'[f] = file[f])
      /\ \A g \in Files \ {f} : disk'[g] = disk[g]
  BY <1>0, <1>1 DEF Content
<1>3. Agree(disk'[f], f)
  BY <1>2, DiskAgrees DEF Agree
<1>4. \A g \in Files : Agree(disk'[g], g)
  BY <1>2, <1>3, DiskAgrees
<1>. QED BY <1>0, <1>4, SyncRecovers DEF Writing, UndoneBehind, Undoing

LEMMA SyncDirectoriesRecovers ==
  ASSUME JournalInv, RecoveryInv, SyncDirectories, JournalInv'
  PROVE  RecoveryInv' /\ StoreStep
<1>0. pc = "syncDirectories" /\ pc' = "unlink" /\ UNCHANGED <<file, jfile, jdisk>>
  BY DEF SyncDirectories, Goto, journal
<1>1. disk' = file
  BY <1>0 DEF JournalInv, CommitOK
<1>2. \A g \in Files : Agree(disk'[g], g)
  BY <1>1, DiskAgrees
<1>. QED BY <1>0, <1>2, SyncRecovers DEF Writing, UndoneBehind, Undoing

\* A write goes where the durable lines restore the file.
LEMMA WriteAgrees ==
  ASSUME JournalInv, RecoveryInv, pc = "apply", NEW v,
         file' = [file EXCEPT ![write.f] = Written(@, v)]
  PROVE  \A g \in Files : Agree(file'[g], g)
<1>. DEFINE f == write.f  i == write.at  s == file[f].recs
<1>0. /\ f \in Files /\ mem = jdisk.lines /\ Boundaries(mem, f) # {} /\ Covered
      /\ file \in [Files -> Content] /\ i \in Nat
  BY BoundsAssumption DEF JournalInv, WriteOK, Tracking, Writes, MemoryOK, Started, RecoveryInv, Shape
<1>1. /\ file'[f].recs = [n \in DOMAIN s \cup {i} |-> IF n = i THEN v ELSE s[n]]
      /\ \A g \in Files \ {f} : file'[g] = file[g]
  BY <1>0 DEF Written
<1>2. ASSUME NEW b \in Boundaries(mem, f), mem[b].existed,
             NEW n \in 1 .. mem[b].len, ~Imaged(mem, f, n)
      PROVE  file'[f].recs[n] = s[n]
  <2>1. mem[b] \in Lines /\ b \in DOMAIN mem /\ mem[b].f = f /\ mem[b].kind = "file"
    BY DEF Boundaries, JournalInv, Shape
  <2>2. mem[b].len \in Nat /\ mem[b].len <= Len(s)
    BY <1>0, <1>2, <2>1, LineFields DEF JournalInv, LinesOK, LongEnough, Cuttable
  <2>3. n \in DOMAIN s
    BY <1>0, <2>2 DEF Content
  <2>4. n # i
    <3>1. SUFFICES ASSUME n = i PROVE FALSE
      OBVIOUS
    <3>2. ~RequiresBeforeImage(f, i)
      BY <1>0, <1>2, <3>1 DEF Covered
    <3>3. PICK k \in Boundaries(mem, f) : ~(i <= mem[k].len)
      BY <3>2 DEF RequiresBeforeImage
    <3>4. k = b
      BY <1>0 DEF JournalInv, Single
    <3>. QED BY <2>2, <3>1, <3>3, <3>4
  <2>. QED BY <1>1, <2>3, <2>4
<1>3. Agree(file'[f], f)
  BY <1>0, <1>2 DEF Agree
<1>. QED BY <1>1, <1>3, DiskAgrees

LEMMA ApplyRecovers ==
  ASSUME JournalInv, RecoveryInv, Apply, JournalInv'
  PROVE  RecoveryInv' /\ StoreStep
<1>0. /\ pc = "apply" /\ pc' = "open" /\ UNCHANGED <<disk, jfile, jdisk>>
      /\ file' = [file EXCEPT ![write.f] = Written(@, write.value)]
  BY DEF Apply, Goto, journal
<1>1. \A f \in Files : Agree(file'[f], f) /\ Agree(disk'[f], f)
  BY <1>0, WriteAgrees, DiskAgrees
<1>2. Pending /\ Pending'
  <2>1. Boundaries(jdisk.lines, write.f) # {}
    BY <1>0 DEF JournalInv, MemoryOK, Started, WriteOK
  <2>2. jdisk.lines # <<>>
    BY <2>1 DEF Boundaries
  <2>. QED BY <1>0, <2>2 DEF Pending, Writing
<1>. QED BY <1>0, <1>1, <1>2, Harmless, StoreWrite DEF RecoveryInv, UndoneBehind, Undoing

\* The records that undoing a line leaves alone, and the one it restores.
LEMMA UndoRecords ==
  ASSUME NEW line \in Lines, NEW old \in Content
  PROVE  LET c == Undo(line, old)
         IN  /\ line.kind = "file" /\ line.existed /\ line.len <= Len(old.recs) =>
                  \A i \in 1 .. line.len : c.recs[i] = old.recs[i]
             /\ line.kind = "file" /\ ~line.existed => c = Absent
             /\ line.kind = "before" =>
                  /\ \A i \in DOMAIN old.recs : i # line.at => c.recs[i] = old.recs[i]
                  /\ line.at \in DOMAIN old.recs => c.recs[line.at] = line.old
<1>. DEFINE c == Undo(line, old)
<1>0. old.recs \in Seq(Records) /\ Len(old.recs) \in Nat
  BY DEF Content, Records
<1>1. CASE line.kind = "file" /\ line.existed
  <2>1. c.recs = SubSeq(old.recs, 1, line.len) /\ line.len \in Nat
    BY <1>1, LineFields DEF Undo, Content
  <2>. QED BY <1>0, <1>1, <2>1
<1>2. CASE line.kind = "file" /\ ~line.existed
  BY <1>2 DEF Undo
<1>3. CASE line.kind = "before"
  <2>1. c.recs = [old.recs EXCEPT ![line.at] = line.old]
    BY <1>3 DEF Undo, Content
  <2>. QED BY <1>0, <1>3, <2>1
<1>. QED BY <1>1, <1>2, <1>3, LineFields

\* Undoing what the file says changes nothing.
LEMMA UndoFresh ==
  ASSUME JournalInv, NEW line \in Lines, Fresh(line),
         line.kind = "before" => ~Imaged(jdisk.lines, line.f, line.at)
  PROVE  Undo(line, file[line.f]) = file[line.f]
<1>. DEFINE old == file[line.f]
<1>0. /\ old \in Content /\ old.recs \in Seq(Records) /\ Len(old.recs) \in Nat
      /\ (~old.exists => old.recs = <<>>) /\ old.exists \in BOOLEAN
      /\ old = [exists |-> old.exists, recs |-> old.recs]
  BY LineFields DEF JournalInv, Shape, Content, Records
<1>1. CASE line.kind = "file"
  <2>1. line.existed = old.exists /\ line.len = Len(old.recs)
    BY <1>1 DEF Fresh, FileLine
  <2>2. CASE old.exists
    <3>1. SubSeq(old.recs, 1, line.len) = old.recs
      BY <1>0, <2>1
    <3>2. Undo(line, old) = [old EXCEPT !.recs = SubSeq(old.recs, 1, line.len)]
      BY <1>1, <2>1, <2>2 DEF Undo
    <3>3. Undo(line, old) = [old EXCEPT !.recs = old.recs]
      BY <3>1, <3>2
    <3>. QED BY <1>0, <3>3 DEF Content
  <2>3. CASE ~old.exists
    BY <1>0, <1>1, <2>1, <2>3, AbsentIs DEF Undo
  <2>. QED BY <2>2, <2>3
<1>2. CASE line.kind = "before"
  <2>1. line.old = old.recs[line.at]
    BY <1>2 DEF Fresh
  <2>2. [old.recs EXCEPT ![line.at] = line.old] = old.recs
    BY <1>0, <2>1
  <2>3. Undo(line, old) = [old EXCEPT !.recs = [old.recs EXCEPT ![line.at] = line.old]]
    BY <1>2 DEF Undo
  <2>4. Undo(line, old) = [old EXCEPT !.recs = old.recs]
    BY <2>2, <2>3
  <2>. QED BY <1>0, <2>4 DEF Content
<1>. QED BY <1>1, <1>2, LineFields

LEMMA UndoWriteRecovers ==
  ASSUME JournalInv, RecoveryInv, UndoWrite
  PROVE  RecoveryInv' /\ StoreStep
<1>. DEFINE L == jdisk.lines  J == jfile.lines  line == J[cursor]  f == line.f  old == file[f]  c == Undo(line, old)
<1>0. /\ mem = J /\ cursor \in DOMAIN J /\ line \in Lines /\ f \in Files
      /\ old \in Content /\ J \in Seq(Lines) /\ L \in Seq(Lines) /\ J # <<>>
      /\ Single(J) /\ LongEnough(J) /\ ImagesOK(J) /\ Single(L) /\ ImagesOK(L) /\ LongEnough(L)
  BY LineFields DEF UndoWrite, JournalInv, MemoryOK, Undoing, Shape, LinesOK, Journals, RecoveryInv
<1>1. /\ \/ pc = "recover" /\ pc' = "recoverSync"
         \/ pc = "abort" /\ pc' = "abortSync"
      /\ file' = [file EXCEPT ![f] = c]
      /\ UNCHANGED <<disk, jfile, jdisk, mem, cursor, write>> /\ file \in [Files -> Content]
  BY <1>0 DEF UndoWrite, Goto, journal, JournalInv, Shape
<1>2. file'[f] = c /\ \A g \in Files \ {f} : file'[g] = file[g]
  BY <1>0, <1>1
<1>3. /\ line.kind = "file" /\ line.existed =>
           /\ line.len \in Nat /\ line.len <= Len(old.recs)
           /\ c.exists /\ Len(c.recs) = line.len
           /\ \A i \in 1 .. line.len : c.recs[i] = old.recs[i]
      /\ line.kind = "file" /\ ~line.existed => c = Absent /\ line.len = 0
      /\ line.kind = "before" =>
           /\ c.exists = old.exists /\ Len(c.recs) = Len(old.recs)
           /\ \A i \in DOMAIN old.recs : i # line.at => c.recs[i] = old.recs[i]
           /\ line.at \in DOMAIN old.recs => c.recs[line.at] = line.old
      /\ line.kind \in {"file", "before"}
  <2>1. Cuttable(line)
    BY <1>0 DEF LongEnough
  <2>. QED BY <1>0, <2>1, Undoes, UndoRecords, LineFields DEF Cuttable
<1>. HIDE DEF c
<1>4. ASSUME NEW k \in DOMAIN J, J[k].kind = "before"
      PROVE  \E b \in DOMAIN J : /\ b \in Boundaries(J, J[k].f) /\ b < k /\ J[b].existed
                                 /\ J[k].at \in 1 .. J[b].len
                                 /\ J[k].at \in DOMAIN file[J[k].f].recs
  <2>1. PICK b \in Boundaries(J, J[k].f) : b < k /\ J[k].at <= J[b].len
    BY <1>0, <1>4 DEF ImagesOK
  <2>2. /\ J[k].at > 0 /\ J[k].at \in Nat /\ b \in DOMAIN J /\ J[b] \in Lines /\ J[b].kind = "file"
        /\ J[b].f = J[k].f /\ J[k].f \in Files
    BY <1>0, <1>4, <2>1, LineFields DEF ImagesOK, Boundaries
  <2>3. J[b].existed /\ J[b].len \in Nat
    BY <2>1, <2>2, LineFields
  <2>4. J[b].len <= Len(file[J[k].f].recs)
    BY <1>0, <2>2, <2>3 DEF LongEnough, Cuttable
  <2>5. file[J[k].f].recs \in Seq(Records)
    BY <1>1, <2>2 DEF Content, Records
  <2>6. J[k].at \in DOMAIN file[J[k].f].recs
    BY <2>1, <2>2, <2>3, <2>4, <2>5
  <2>. QED BY <2>1, <2>2, <2>3, <2>6
<1>5. Agree(c, f)
  <2>1. ASSUME Boundaries(L, f) # {},
               line.kind = "file" => cursor \in Boundaries(L, f) /\ L[cursor] = line,
               line.kind = "before" => Imaged(L, f, line.at)
        PROVE  Agree(c, f)
    <3>1. ASSUME NEW b \in Boundaries(L, f), L[b].existed,
                 NEW i \in 1 .. L[b].len, ~Imaged(L, f, i)
          PROVE  c.recs[i] = old.recs[i]
      <4>1. b \in DOMAIN L /\ L[b] \in Lines /\ L[b].kind = "file" /\ L[b].f = f
        BY <1>0 DEF Boundaries
      <4>2. CASE line.kind = "file"
        <5>1. b = cursor
          BY <1>0, <2>1, <4>2 DEF Single
        <5>. QED BY <1>3, <2>1, <3>1, <4>2, <5>1
      <4>3. CASE line.kind = "before"
        <5>1. i # line.at
          BY <2>1, <3>1, <4>3
        <5>2. L[b].len \in Nat /\ L[b].len <= Len(old.recs)
          BY <1>0, <3>1, <4>1, LineFields DEF LongEnough, Cuttable
        <5>3. i \in DOMAIN old.recs
          BY <1>0, <5>2 DEF Content
        <5>. QED BY <1>3, <4>3, <5>1, <5>3
      <4>. QED BY <1>3, <4>2, <4>3
    <3>. QED BY <2>1, <3>1 DEF Agree
  <2>2. CASE cursor \in DOMAIN L
    <3>1. L[cursor] = line
      BY <1>0, <2>2 DEF JournalInv, Behind
    <3>2. Boundaries(L, f) # {}
      BY <1>0, <1>3, <2>2, <3>1 DEF Boundaries, ImagesOK
    <3>3. line.kind = "file" => cursor \in Boundaries(L, f)
      BY <2>2, <3>1 DEF Boundaries
    <3>4. line.kind = "before" => Imaged(L, f, line.at)
      BY <2>2, <3>1 DEF Imaged, Images
    <3>. QED BY <2>1, <3>1, <3>2, <3>3, <3>4
  <2>3. CASE cursor \notin DOMAIN L
    <3>1. PICK n \in Lines : Fresh(n) /\ J = Append(L, n)
      BY <1>0, <2>3 DEF RecoveryInv, Ahead
    <3>2. line = n
      BY <1>0, <2>3, <3>1
    <3>3. CASE line.kind = "before" /\ Imaged(L, f, line.at)
      BY <2>1, <3>1, <3>2, <3>3 DEF Fresh
    <3>4. CASE ~(line.kind = "before" /\ Imaged(L, f, line.at))
      <4>1. c = old
        BY <3>1, <3>2, <3>4, UndoFresh DEF c
      <4>. QED BY <1>0, <4>1, DiskAgrees
    <3>. QED BY <3>3, <3>4
  <2>. QED BY <2>2, <2>3
<1>6. \A g \in Files : Agree(file'[g], g) /\ Agree(disk'[g], g)
  BY <1>1, <1>2, <1>5, DiskAgrees
<1>7. ASSUME NEW k \in DOMAIN J, cursor <= k, ~Again(J, k, cursor)
      PROVE  IsUndone(J[k])'
  <2>0. J[k] \in Lines /\ J[k].f \in Files /\ J[k].kind \in {"file", "before"}
    BY <1>0, <1>7, LineFields
  <2>9. k # cursor => IsUndone(J[k])
    <3>. SUFFICES ASSUME k # cursor PROVE IsUndone(J[k])
      OBVIOUS
    <3>1. UndoneFrom(J, cursor + 1)
      BY <1>0, <1>1 DEF RecoveryInv, UndoneBehind, Undoing
    <3>2. cursor \in Nat /\ k \in Nat /\ cursor + 1 <= k
      BY <1>0, <1>7
    <3>3. ~Again(J, k, cursor + 1)
      BY <1>0, <1>7, <3>2 DEF Again
    <3>. QED BY <3>1, <3>2, <3>3 DEF UndoneFrom
  <2>1. CASE k = cursor
    <3>1. CASE line.kind = "file"
      BY <1>1, <1>2, <1>3, <2>1, <3>1 DEF IsUndone
    <3>2. CASE line.kind = "before"
      BY <1>0, <1>1, <1>2, <1>3, <1>4, <2>1, <3>2 DEF IsUndone
    <3>. QED BY <1>3, <3>1, <3>2
  <2>2. CASE k # cursor /\ J[k].f # f
    <3>1. IsUndone(J[k])
      BY <2>9, <2>2
    <3>. QED BY <1>1, <1>2, <2>0, <2>2, <3>1 DEF IsUndone
  <2>3. CASE k # cursor /\ J[k].f = f /\ J[k].kind = "file"
    <3>1. IsUndone(J[k])
      BY <2>9, <2>3
    <3>2. k \in Boundaries(J, f)
      BY <2>3 DEF Boundaries
    <3>3. line.kind = "before"
      BY <1>0, <1>3, <2>3, <3>2 DEF Single, Boundaries
    <3>4. J[k].existed
      BY <1>0, <1>4, <3>2, <3>3 DEF Single
    <3>. QED BY <1>1, <1>2, <1>3, <2>3, <3>1, <3>3, <3>4 DEF IsUndone
  <2>4. CASE k # cursor /\ J[k].f = f /\ J[k].kind = "before"
    <3>1. IsUndone(J[k])
      BY <2>9, <2>4
    <3>2. PICK b \in DOMAIN J : /\ b \in Boundaries(J, f) /\ J[b].existed
                                /\ J[k].at \in 1 .. J[b].len /\ J[k].at \in DOMAIN old.recs
      BY <1>4, <2>4
    <3>3. CASE line.kind = "file"
      <4>1. b = cursor
        BY <1>0, <3>2, <3>3 DEF Single, Boundaries
      <4>2. c.recs[J[k].at] = old.recs[J[k].at]
        BY <1>3, <3>2, <3>3, <4>1
      <4>. QED BY <1>1, <1>2, <2>4, <3>1, <4>2 DEF IsUndone
    <3>4. CASE line.kind = "before"
      <4>1. line.at # J[k].at
        BY <1>0, <1>7, <2>4, <3>4 DEF Again, IsImage
      <4>2. c.recs[J[k].at] = old.recs[J[k].at]
        BY <1>3, <3>2, <3>4, <4>1
      <4>. QED BY <1>1, <1>2, <2>4, <3>1, <4>2 DEF IsUndone
    <3>. QED BY <1>3, <3>3, <3>4
  <2>. QED BY <2>0, <2>1, <2>2, <2>3, <2>4
<1>8. UndoneBehind'
  <2>1. UndoneFrom(mem, cursor)'
    BY <1>0, <1>1, <1>7 DEF UndoneFrom, Again
  <2>. QED BY <1>1, <2>1 DEF UndoneBehind
<1>9. ~Pending'
  BY <1>0, <1>1 DEF Pending, Writing
<1>. QED BY <1>1, <1>6, <1>8, <1>9, Harmless, StoreDiscard DEF RecoveryInv

(***************************************************************************)
(* Faults                                                                  *)
(***************************************************************************)
LEMMA CrashRecovers ==
  ASSUME JournalInv, RecoveryInv, Crash
  PROVE  RecoveryInv' /\ StoreStep
<1>0. pc' = "idle" /\ disk' = disk /\ jdisk' = jdisk
  BY DEF Crash, Forget
<1>1. CASE UNCHANGED <<file, jfile>>
  <2>1. /\ ImagesOK(jfile.lines)' /\ ImagesOK(jdisk.lines)' /\ Clean' /\ Ahead'
        /\ Committed' = Committed
    BY <1>0, <1>1, SameRecovery DEF journal
  <2>2. RecoveryInv'
    BY <1>0, <2>1 DEF RecoveryInv, UndoneBehind, Undoing
  <2>3. CASE Pending'
    <3>1. Pending
      BY <1>0, <1>1, <2>3 DEF Pending, Writing
    <3>. QED BY <1>1, <2>1, <2>2, <2>3, <3>1, StoreUnseen
  <2>4. CASE ~Pending'
    BY <2>1, <2>2, <2>4, StoreDiscard
  <2>. QED BY <2>3, <2>4
<1>2. CASE /\ pc = "apply" /\ jfile' = jfile
           /\ file' = [file EXCEPT ![write.f] = Written(@, Garbage)]
  <2>1. \A f \in Files : Agree(file'[f], f) /\ Agree(disk'[f], f)
    BY <1>0, <1>2, WriteAgrees, DiskAgrees
  <2>2. ~Pending'
    <3>1. jfile.lines = jdisk.lines
      BY <1>2 DEF JournalInv, MemoryOK, Started
    <3>. QED BY <1>0, <1>2, <3>1 DEF Pending, Writing
  <2>. QED BY <1>0, <1>2, <2>1, <2>2, Harmless, StoreDiscard DEF RecoveryInv, UndoneBehind, Undoing
<1>3. CASE pc = "create" /\ jfile' = Headerless /\ file' = file
  <2>1. jfile.lines = <<>> /\ jfile'.lines = <<>>
    BY <1>3, JournalShapes DEF JournalInv, MemoryOK, Unlinked
  <2>2. RecoveryInv' /\ Committed' = Committed
    BY <1>0, <1>3, <2>1, EmptyRecovers DEF Undoing
  <2>3. Pending' = Pending
    BY <1>0, <1>3, <2>1 DEF Pending, Writing
  <2>. QED BY <1>3, <2>2, <2>3, StoreUnseen
<1>. QED BY <1>1, <1>2, <1>3 DEF Crash

\* What a power loss leaves of a file, record by record.
Kept(f, recs) == \E n \in 0 .. MaxRecords :
  /\ recs \in [1 .. n -> Records]
  /\ \E m, k \in {Len(file[f].recs), Len(disk[f].recs)} : m <= n /\ n <= k
  /\ \A i \in 1 .. n :
       i \in DOMAIN file[f].recs /\ i \in DOMAIN disk[f].recs
         /\ file[f].recs[i] = disk[f].recs[i] => recs[i] = file[f].recs[i]

LEMMA SurvivorIs ==
  ASSUME NEW f \in Files, NEW c \in Survivors(f)
  PROVE  \/ c = Absent /\ FALSE \in {file[f].exists, disk[f].exists}
         \/ TRUE \in {file[f].exists, disk[f].exists} /\ c.exists = TRUE /\ Kept(f, c.recs)
<1>. DEFINE now == file[f].recs
            safe == disk[f].recs
            Either(i) == {r[i] : r \in {s \in {now, safe} : i \in DOMAIN s}}
            Piece(i) == IF i \in DOMAIN now \cap DOMAIN safe /\ now[i] = safe[i] THEN {} ELSE {Garbage}
            lengths == {n \in 0 .. MaxRecords : \E m, k \in {Len(now), Len(safe)} : m <= n /\ n <= k}
            Recs(n) == {r \in [1 .. n -> Values \cup {Garbage}] : \A i \in 1 .. n : r[i] \in Either(i) \cup Piece(i)}
<1>1. CASE c = Absent /\ FALSE \in {file[f].exists, disk[f].exists}
  BY <1>1
<1>2. CASE /\ TRUE \in {file[f].exists, disk[f].exists}
           /\ \E n \in lengths : \E r \in Recs(n) : c = [exists |-> TRUE, recs |-> r]
  <2>1. PICK n \in lengths : \E r \in Recs(n) : c = [exists |-> TRUE, recs |-> r]
    BY <1>2
  <2>2. PICK r \in Recs(n) : c = [exists |-> TRUE, recs |-> r]
    BY <2>1
  <2>3. c.exists = TRUE /\ c.recs = r
    BY <2>2
  <2>4. ASSUME NEW i \in 1 .. n, i \in DOMAIN now, i \in DOMAIN safe, now[i] = safe[i]
        PROVE  r[i] = now[i]
    BY <2>2, <2>4
  <2>5. n \in 0 .. MaxRecords /\ \E m, k \in {Len(now), Len(safe)} : m <= n /\ n <= k
    BY <2>1
  <2>6. r \in [1 .. n -> Records]
    BY <2>2 DEF Records
  <2>7. Kept(f, r)
    BY <2>4, <2>5, <2>6 DEF Kept
  <2>. QED BY <1>2, <2>3, <2>7
<1>3. \/ c = Absent /\ FALSE \in {file[f].exists, disk[f].exists}
      \/ /\ TRUE \in {file[f].exists, disk[f].exists}
         /\ \E n \in lengths : \E r \in Recs(n) : c = [exists |-> TRUE, recs |-> r]
  BY DEF Survivors
<1>. QED BY <1>1, <1>2, <1>3

\* A durable file is not touched.
LEMMA DurableSurvives ==
  ASSUME JournalInv, NEW f \in Files, file[f] = disk[f], NEW c \in Survivors(f)
  PROVE  c = file[f]
<1>0. /\ file[f] \in Content /\ file[f].recs \in Seq(Records) /\ file[f].exists \in BOOLEAN
      /\ (~file[f].exists => file[f].recs = <<>>)
  BY DEF JournalInv, Shape, Content, Records
<1>1. CASE file[f].exists
  <2>1. PICK n \in 0 .. MaxRecords :
          /\ c.exists = TRUE /\ c.recs \in [1 .. n -> Records] /\ n = Len(file[f].recs)
          /\ \A i \in 1 .. n : i \in DOMAIN file[f].recs => c.recs[i] = file[f].recs[i]
    <3>1. c.exists = TRUE /\ Kept(f, c.recs)
      BY <1>0, <1>1, SurvivorIs
    <3>2. PICK n \in 0 .. MaxRecords :
            /\ c.recs \in [1 .. n -> Records]
            /\ \E m, k \in {Len(file[f].recs), Len(disk[f].recs)} : m <= n /\ n <= k
            /\ \A i \in 1 .. n :
                 i \in DOMAIN file[f].recs /\ i \in DOMAIN disk[f].recs
                   /\ file[f].recs[i] = disk[f].recs[i] => c.recs[i] = file[f].recs[i]
      BY <3>1 DEF Kept
    <3>3. Len(file[f].recs) \in Nat /\ MaxRecords \in Nat
      BY <1>0, BoundsAssumption
    <3>4. n = Len(file[f].recs)
      BY <3>2, <3>3
    <3>5. \A i \in 1 .. n : i \in DOMAIN file[f].recs => c.recs[i] = file[f].recs[i]
      BY <3>2
    <3>. QED BY <3>1, <3>2, <3>4, <3>5
  <2>2. c.recs = file[f].recs
    BY <1>0, <2>1
  <2>3. c \in Content
    BY SurvivorOK
  <2>. QED BY <1>0, <1>1, <2>1, <2>2, <2>3 DEF Content
<1>2. CASE ~file[f].exists
  <2>1. c = Absent
    BY <1>0, <1>2, SurvivorIs
  <2>. QED BY <1>0, <1>2, <2>1, AbsentIs
<1>. QED BY <1>1, <1>2

LEMMA SurvivorAgrees ==
  ASSUME JournalInv, RecoveryInv, NEW f \in Files, NEW c \in Survivors(f)
  PROVE  Agree(c, f)
<1>. DEFINE L == jdisk.lines
<1>1. CASE Boundaries(L, f) = {}
  <2>1. file[f] = disk[f]
    BY <1>1, DiskAgrees DEF Agree
  <2>. QED BY <1>1, <2>1, DurableSurvives DEF Agree
<1>2. CASE Boundaries(L, f) # {}
  <2>1. ASSUME NEW b \in Boundaries(L, f), L[b].existed,
               NEW i \in 1 .. L[b].len, ~Imaged(L, f, i)
        PROVE  c.recs[i] = file[f].recs[i]
    <3>1. L[b] \in Lines /\ L[b].kind = "file" /\ L[b].f = f /\ b \in DOMAIN L
      BY DEF Boundaries, JournalInv, Shape, Journals
    <3>2. /\ L[b].len \in Nat /\ L[b].len <= Len(file[f].recs) /\ L[b].len <= Len(disk[f].recs)
          /\ file[f].exists /\ disk[f].exists
      BY <2>1, <3>1, LineFields DEF JournalInv, LinesOK, LongEnough, Cuttable
    <3>3. file[f].recs \in Seq(Records) /\ disk[f].recs \in Seq(Records)
      BY DEF JournalInv, Shape, Content, Records
    <3>4. i \in DOMAIN file[f].recs /\ i \in DOMAIN disk[f].recs
      BY <3>2, <3>3
    <3>5. file[f].recs[i] = disk[f].recs[i]
      BY <2>1, DiskAgrees DEF Agree
    <3>6. c.exists
      BY <3>2, SurvivorOK
    <3>7. PICK n \in 0 .. MaxRecords :
            /\ c.recs \in [1 .. n -> Records]
            /\ \A j \in 1 .. n :
                 j \in DOMAIN file[f].recs /\ j \in DOMAIN disk[f].recs
                   /\ file[f].recs[j] = disk[f].recs[j] => c.recs[j] = file[f].recs[j]
      <4>1. c # Absent
        BY <3>6 DEF Absent
      <4>2. Kept(f, c.recs)
        BY <4>1, SurvivorIs
      <4>. QED BY <4>2 DEF Kept
    <3>8. n \in Nat /\ Len(c.recs) = n
      BY <3>7, SeqFromFunction, BoundsAssumption
    <3>9. L[b].len <= n
      BY <3>2, <3>6, <3>8, SurvivorOK
    <3>10. i \in 1 .. n
      BY <3>2, <3>8, <3>9
    <3>. QED BY <3>4, <3>5, <3>7, <3>10
  <2>. QED BY <1>2, <2>1 DEF Agree
<1>. QED BY <1>1, <1>2

LEMMA JournalSurvivorIs ==
  ASSUME JournalInv, NEW j \in JournalSurvivors
  PROVE  j.lines \in {jfile.lines, jdisk.lines} \/ (j.lines = <<>> /\ jfile.lines = <<>>)
<1>1. CASE j \in {jdisk, jfile}
  BY <1>1
<1>2. CASE j \in {NoJournal, Headerless} /\ jfile.lines = <<>>
  BY <1>2, JournalShapes
<1>3. CASE j = [jdisk EXCEPT !.torn = TRUE]
  BY <1>3 DEF JournalInv, Shape, Journals
<1>. QED BY <1>1, <1>2, <1>3 DEF JournalSurvivors

LEMMA PowerLossRecovers ==
  ASSUME JournalInv, RecoveryInv, PowerLoss
  PROVE  RecoveryInv' /\ StoreStep
<1>. DEFINE L == jdisk.lines  J == jfile.lines
<1>0. /\ pc' = "idle" /\ disk' = file' /\ jdisk' = jfile' /\ jfile' \in JournalSurvivors
      /\ \A f \in Files : file'[f] \in Survivors(f)
  BY DEF PowerLoss, Forget
<1>1. \A f \in Files : Agree(file'[f], f)
  BY <1>0, SurvivorAgrees
<1>2. \A f \in Files : ContentBefore(L, f, file'[f]) = Committed[f]
  BY <1>1, AgreeBefore, CommittedIs
<1>3. Clean' /\ Ahead' /\ UndoneBehind' /\ ~Pending'
  BY <1>0 DEF Clean, Agree, Ahead, UndoneBehind, Undoing, Pending, Writing
<1>4. jfile'.lines \in {J, L} \/ (jfile'.lines = <<>> /\ J = <<>>)
  BY <1>0, JournalSurvivorIs
<1>5. RecoveryInv'
  <2>1. ImagesOK(jfile'.lines)
    BY <1>4, NoLinesOK DEF RecoveryInv
  <2>2. ImagesOK(jfile.lines)' /\ ImagesOK(jdisk.lines)'
    BY <1>0, <2>1 DEF ImagesOK
  <2>. QED BY <1>0, <1>3, <2>2 DEF RecoveryInv
<1>6. CASE jfile'.lines = L
  <2>1. Committed' = Committed
    BY <1>0, <1>2, <1>6, CommittedIs, CommittedSame
  <2>. QED BY <1>3, <1>5, <2>1, StoreDiscard
<1>7. CASE jfile'.lines = <<>> /\ J = <<>>
  <2>1. \A f \in Files : Committed'[f] = file[f]
    <3>1. \A f \in Files : file'[f] = file[f]
      BY <1>0, <1>7, NoLinesClean, DurableSurvives
    <3>. QED BY <1>0, <1>7, <3>1, NoLinesCommitted
  <2>2. CASE Pending
    BY <1>3, <1>5, <2>1, <2>2, StoreCommit
  <2>3. CASE ~Pending
    <3>1. L = <<>>
      BY <1>7, <2>3 DEF Pending
    <3>2. Committed' = Committed
      BY <2>1, <3>1, NoLinesCommitted, CommittedSame
    <3>. QED BY <1>3, <1>5, <3>2, StoreDiscard
  <2>. QED BY <2>2, <2>3
<1>8. CASE jfile'.lines = J /\ J \notin {<<>>, L}
  <2>1. PICK line \in Lines : Fresh(line) /\ J = Append(L, line)
    BY <1>8 DEF RecoveryInv, Ahead
  <2>2. /\ line.kind = "file" => line = FileLine(line.f, file'[line.f])
        /\ line.kind = "before" /\ ~Imaged(jdisk.lines, line.f, line.at) =>
             line.old = file'[line.f].recs[line.at]
    BY <1>1, <2>1, FreshStays
  <2>3. ASSUME NEW f \in Files PROVE Committed'[f] = Committed[f]
    <3>1. L \in Seq(Lines) /\ ImagesOK(L) /\ file'[f] \in Content /\ (~file'[f].exists => file'[f].recs = <<>>)
      BY <1>0, SurvivorOK DEF JournalInv, Shape, Journals, RecoveryInv
    <3>2. ContentBefore(Append(L, line), f, file'[f]) = ContentBefore(L, f, file'[f])
      BY <2>1, <2>2, <3>1, FreshBefore DEF Fresh
    <3>. QED BY <1>0, <1>2, <1>8, <2>1, <3>2, CommittedIs
  <2>4. Committed' = Committed
    BY <2>3, CommittedSame
  <2>. QED BY <1>3, <1>5, <2>4, StoreDiscard
<1>. QED BY <1>4, <1>6, <1>7, <1>8

LEMMA StutterRecovers ==
  ASSUME RecoveryInv, UNCHANGED vars
  PROVE  RecoveryInv' /\ StoreStep
<1>0. UNCHANGED <<file, disk, journal>> /\ UNCHANGED <<pc, mem, cursor, write>>
  BY DEF vars, journal
<1>1. UndoneBehind' /\ (pc = "apply" => Covered)'
  BY <1>0 DEF RecoveryInv, UndoneBehind, UndoneFrom, Again, IsUndone, Covered, RequiresBeforeImage
<1>2. Pending' = Pending
  BY <1>0 DEF Pending, journal
<1>. QED BY <1>0, <1>1, <1>2, SameRecovery, StoreUnseen DEF RecoveryInv

LEMMA InitRecovers == Init => RecoveryInv /\ Store!Init
<1>. SUFFICES ASSUME Init PROVE RecoveryInv /\ Store!Init
  OBVIOUS
<1>1. jfile.lines = <<>> /\ jdisk.lines = <<>> /\ pc = "idle" /\ file = InitFile /\ disk = file
  BY JournalShapes DEF Init
<1>2. RecoveryInv
  BY <1>1, NoLinesOK DEF RecoveryInv, Clean, Agree, Ahead, UndoneBehind, Undoing
<1>3. Committed = InitFile
  <2>1. \A f \in Files : Committed[f] = InitFile[f]
    BY <1>1, NoLinesCommitted
  <2>2. Committed = [f \in Files |-> Committed[f]]
    BY DEF Committed
  <2>. QED BY <2>1, <2>2, InitFileAssumption
<1>4. Work = [w \in {"writer"} |-> <<>>]
  BY <1>1 DEF Work, Pending
<1>. QED BY <1>2, <1>3, <1>4 DEF Store!Init, Work

LEMMA NextRecovers == JournalInv /\ RecoveryInv /\ [Next]_vars => RecoveryInv' /\ StoreStep
<1>. SUFFICES ASSUME JournalInv, RecoveryInv, [Next]_vars PROVE RecoveryInv' /\ StoreStep
  OBVIOUS
<1>1. CASE Begin \/ UndoWrite \/ UndoSync \/ Undone
  BY <1>1, BeginRecovers, UndoWriteRecovers, UndoSyncRecovers, UndoneRecovers
<1>2. CASE WriteHeader \/ SyncHeader \/ SyncLink \/ StartWrite \/ Track \/ SyncLine
  BY <1>2, HeaderRecovers, MovesRecover, DropsRecover, TrackRecovers, SyncLineRecovers
<1>3. CASE Apply \/ SyncDirectories
  BY <1>3, ApplyStep, SyncDirectoriesStep, ApplyRecovers, SyncDirectoriesRecovers
<1>4. CASE Commit \/ SyncFile \/ FilesSynced \/ Unlink \/ SyncUnlink \/ Abort
  BY <1>4, MovesRecover, SyncFileRecovers, HeaderRecovers, DropsRecover, AbortRecovers
<1>5. CASE Crash \/ PowerLoss
  BY <1>5, CrashRecovers, PowerLossRecovers
<1>6. CASE UNCHANGED vars
  BY <1>6, StutterRecovers
<1>. QED BY <1>1, <1>2, <1>3, <1>4, <1>5, <1>6 DEF Next

\* BinaryDbTxnJournal: power may fail and the writer may die at every step of
\* a transaction, of its commit, of an abort and of a recovery, any number of
\* times, losing and tearing whatever was not synced: the committed contents
\* only ever become those of a whole transaction, and recovery restores them.
THEOREM TransactionsAreDurable == Spec => Durable
<1>1. JournalInv /\ RecoveryInv /\ [Next]_vars =>
        [Store!Next]_<<Committed, [w \in {"writer"} |-> IF Pending THEN file ELSE <<>>], {}>>
  BY NextRecovers DEF StoreStep, Work
<1>2. Spec => []RecoveryInv
  BY JournalInvariant, InitRecovers, NextRecovers, PTL DEF Spec
<1>. QED BY <1>1, <1>2, JournalInvariant, InitRecovers, PTL DEF Spec, Durable, Store!Spec
=============================================================================
