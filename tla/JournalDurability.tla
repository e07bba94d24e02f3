------------------------- MODULE JournalDurability -------------------------
(***************************************************************************)
(* The rollback journal of a Binary DB write transaction (journal.rs,      *)
(* txn.rs) against power loss.  RemoteBinaryDb models many writers whose   *)
(* processes may die; here one writer works on files of which only what    *)
(* was synced is certain to outlive a power loss: of the rest any part may *)
(* be there, and the last line of the journal may be torn.                 *)
(*                                                                         *)
(* Writes are appends and overwrites of records.  A journal that cannot be *)
(* read is refused by every later writer and stays (documented: malformed  *)
(* journals fail closed).                                                  *)
(***************************************************************************)
EXTENDS Naturals, Sequences, FiniteSets

CONSTANTS
  Files,         \* the record files
  InitFile,      \* file -> its contents to begin with
  Values,        \* record contents
  Garbage,       \* a record of which only a part, or nothing, was written
  MaxRecords,    \* bound: records of a file
  MaxWrites,     \* bound: writes of a transaction
  MaxFaults      \* bound: crashes and power losses of a behaviour

ASSUME BoundsAssumption == {MaxRecords, MaxWrites, MaxFaults} \subseteq Nat
ASSUME GarbageAssumption == Garbage \notin Values

Content == [exists : BOOLEAN, recs : Seq(Values \cup {Garbage})]
Absent == [exists |-> FALSE, recs |-> <<>>]
ASSUME InitFileAssumption ==
  /\ InitFile \in [Files -> Content]
  /\ \A f \in Files : ~InitFile[f].exists => InitFile[f].recs = <<>>

(* Journal lines: the length of a file before it is touched, and a record  *)
(* before it is overwritten.                                               *)
FileLine(f, c) == [kind |-> "file", f |-> f, existed |-> c.exists, len |-> Len(c.recs)]
BeforeLine(f, i, r) == [kind |-> "before", f |-> f, at |-> i, old |-> r]

VARIABLES
  file, disk,      \* file -> its contents now, and those that are durable
  jfile, jdisk,    \* the same for the journal
  pc,              \* where the writer is
  mem,             \* the lines of the journal, in memory
  cursor,          \* lines still to undo
  write, writes,   \* the write at work, and the number of them
  faults           \* faults so far

journal == <<jfile, jdisk>>
vars == <<file, disk, journal, pc, mem, cursor, write, writes, faults>>

NoJournal == [header |-> FALSE, lines |-> <<>>, exists |-> FALSE, torn |-> FALSE]
(* Created, but its header is not there.                                   *)
Headerless == [NoJournal EXCEPT !.exists = TRUE]
Readable(j) == j.header /\ ~j.torn
NoWrite == [f |-> "none"]

Boundaries(lines, f) == {k \in DOMAIN lines : lines[k].kind = "file" /\ lines[k].f = f}
Touched == {f \in Files : Boundaries(mem, f) # {}}

Writing == {"open", "track", "syncLine", "apply", "sync", "syncDirectories", "unlink",
            "syncUnlink"}
PCs == Writing \cup {"idle", "create", "syncHeader", "syncLink", "recover", "recoverSync",
                     "recoverUnlink", "abort", "abortSync", "abortUnlink"}

(* One boundary line per file, an undo position inside the lines, and a    *)
(* journal that has lines has a header.                                    *)
TypeOK ==
  /\ file \in [Files -> Content] /\ disk \in [Files -> Content]
  /\ pc \in PCs
  /\ \A j \in {jfile, jdisk} : (~j.exists => j = NoJournal) /\ (~j.header => j.lines = <<>>)
  /\ \A f \in Files : Cardinality(Boundaries(mem, f)) <= 1
  /\ cursor \in 0 .. Len(mem)
  /\ writes \in 0 .. MaxWrites /\ faults \in 0 .. MaxFaults

Init ==
  /\ file = InitFile /\ disk = InitFile
  /\ jfile = NoJournal /\ jdisk = NoJournal
  /\ pc = "idle" /\ mem = <<>> /\ cursor = 0
  /\ write = NoWrite /\ writes = 0
  /\ faults = 0

Goto(next) == pc' = next

-----------------------------------------------------------------------------
(* Begin: recover a journal that is there, then create one.                *)

Begin ==
  /\ pc = "idle"
  /\ IF jfile.exists
     THEN Readable(jfile) /\ Goto("recover") /\ mem' = jfile.lines /\ cursor' = Len(jfile.lines)
     ELSE Goto("create") /\ UNCHANGED <<mem, cursor>>
  /\ UNCHANGED <<file, disk, journal, write, writes, faults>>

(* The effect of undoing one line.                                         *)
Undo(line, c) ==
  IF line.kind = "file"
  THEN IF line.existed THEN [c EXCEPT !.recs = SubSeq(@, 1, line.len)] ELSE Absent
  ELSE [c EXCEPT !.recs[line.at] = line.old]

(* The last line first; each is written, then synced with its directory.   *)
UndoWrite ==
  /\ pc \in {"recover", "abort"} /\ cursor > 0
  /\ LET line == mem[cursor]
     IN  file' = [file EXCEPT ![line.f] = Undo(line, @)]
  /\ Goto(IF pc = "recover" THEN "recoverSync" ELSE "abortSync")
  /\ UNCHANGED <<disk, journal, mem, cursor, write, writes, faults>>

(* Mutant of Synced: nothing is made durable.                              *)
NotSynced(f) == disk
Synced(f) == [disk EXCEPT ![f] = file[f]]

UndoSync ==
  /\ pc \in {"recoverSync", "abortSync"}
  /\ disk' = Synced(mem[cursor].f)
  /\ cursor' = cursor - 1
  /\ Goto(IF pc = "recoverSync" THEN "recover" ELSE "abort")
  /\ UNCHANGED <<file, journal, mem, write, writes, faults>>

(* The journal goes after the last line; SyncUnlink makes that durable.    *)
Undone ==
  /\ pc \in {"recover", "abort"} /\ cursor = 0
  /\ jfile' = NoJournal
  /\ Goto(IF pc = "recover" THEN "recoverUnlink" ELSE "abortUnlink")
  /\ UNCHANGED <<file, disk, jdisk, mem, cursor, write, writes, faults>>

WriteHeader ==
  /\ pc = "create"
  /\ jfile' = [Headerless EXCEPT !.header = TRUE]
  /\ Goto("syncHeader")
  /\ UNCHANGED <<file, disk, jdisk, mem, cursor, write, writes, faults>>

(* Synced contents survive once the directory has the new file.            *)
SyncHeader ==
  /\ pc = "syncHeader"
  /\ Goto("syncLink")
  /\ UNCHANGED <<file, disk, journal, mem, cursor, write, writes, faults>>

SyncLink ==
  /\ pc = "syncLink"
  /\ jdisk' = jfile
  /\ Goto("open")
  /\ UNCHANGED <<file, disk, jfile, mem, cursor, write, writes, faults>>

-----------------------------------------------------------------------------
(* A write: its lines are appended to the journal and synced one by one,   *)
(* then the file is written.                                               *)

Writes ==
  {[f |-> f, at |-> i, value |-> v] : f \in Files, i \in 1 .. MaxRecords, v \in Values}

StartWrite == \E w \in Writes :
  /\ pc = "open" /\ writes < MaxWrites
  /\ w.at <= Len(file[w.f].recs) + 1
  /\ write' = w /\ writes' = writes + 1
  /\ Goto("track")
  /\ UNCHANGED <<file, disk, journal, mem, cursor, faults>>

(* Mutant of Boundary: it is taken unless it is the last line.             *)
BoundaryAgain(f) ==
  IF mem # <<>> /\ mem[Len(mem)].kind = "file" /\ mem[Len(mem)].f = f
  THEN {} ELSE {FileLine(f, file[f])}
Boundary(f) == IF Boundaries(mem, f) = {} THEN {FileLine(f, file[f])} ELSE {}

(* A record behind the length the file had needs no image: the file will   *)
(* be cut there.                                                           *)
(* Mutant of RequiresBeforeImage: the last record has none.                *)
RequiresOffByOne(f, i) == \A k \in Boundaries(mem, f) : i < mem[k].len
RequiresBeforeImage(f, i) == \A k \in Boundaries(mem, f) : i <= mem[k].len

(* Every overwrite has its own: a record may have several in the journal.  *)
Image(f, i) ==
  IF RequiresBeforeImage(f, i) THEN {BeforeLine(f, i, file[f].recs[i])} ELSE {}

AppendLine(line) ==
  /\ jfile' = [jfile EXCEPT !.lines = Append(@, line)]
  /\ mem' = Append(mem, line)
  /\ Goto("syncLine")
  /\ UNCHANGED <<file, disk, jdisk, cursor, write, writes, faults>>

Track ==
  /\ pc = "track"
  /\ \/ \E line \in Boundary(write.f) : AppendLine(line)
     \/ /\ Boundary(write.f) = {}
        /\ \E line \in Image(write.f, write.at) : AppendLine(line)
     \/ /\ Boundary(write.f) = {} /\ Image(write.f, write.at) = {}
        /\ Goto("apply")
        /\ UNCHANGED <<file, disk, journal, mem, cursor, write, writes, faults>>

(* Mutant of LineSynced: the line is only written.                         *)
LineNotSynced == jdisk
LineSynced == jfile

(* The image is the last line of a write.                                  *)
SyncLine ==
  /\ pc = "syncLine"
  /\ jdisk' = LineSynced
  /\ Goto(IF mem[Len(mem)].kind = "before" THEN "apply" ELSE "track")
  /\ UNCHANGED <<file, disk, jfile, mem, cursor, write, writes, faults>>

Written(c, value) ==
  [exists |-> TRUE,
   recs |-> [i \in DOMAIN c.recs \cup {write.at} |-> IF i = write.at THEN value ELSE c.recs[i]]]

Apply ==
  /\ pc = "apply"
  /\ file' = [file EXCEPT ![write.f] = Written(@, write.value)]
  /\ write' = NoWrite
  /\ Goto("open")
  /\ UNCHANGED <<disk, journal, mem, cursor, writes, faults>>

-----------------------------------------------------------------------------
(* Commit: the touched files, their directories, then the journal.         *)

Commit ==
  /\ pc = "open"
  /\ Goto("sync")
  /\ UNCHANGED <<file, disk, journal, mem, cursor, write, writes, faults>>

(* Until its directory is synced a new file's entry may be lost.           *)
SyncFile == \E f \in Touched :
  /\ pc = "sync" /\ disk[f].recs # file[f].recs
  /\ disk' = [disk EXCEPT ![f].recs = file[f].recs]
  /\ UNCHANGED <<file, journal, pc, mem, cursor, write, writes, faults>>

FilesSynced ==
  /\ pc = "sync" /\ \A f \in Touched : disk[f].recs = file[f].recs
  /\ Goto("syncDirectories")
  /\ UNCHANGED <<file, disk, journal, mem, cursor, write, writes, faults>>

(* Mutant of DirectoriesSynced: new entries stay at risk.                  *)
DirectoriesNotSynced == disk
DirectoriesSynced ==
  [f \in Files |-> IF f \in Touched THEN [disk[f] EXCEPT !.exists = file[f].exists] ELSE disk[f]]

SyncDirectories ==
  /\ pc = "syncDirectories"
  /\ disk' = DirectoriesSynced
  /\ Goto("unlink")
  /\ UNCHANGED <<file, journal, mem, cursor, write, writes, faults>>

Unlink ==
  /\ pc = "unlink"
  /\ jfile' = NoJournal
  /\ Goto("syncUnlink")
  /\ UNCHANGED <<file, disk, jdisk, mem, cursor, write, writes, faults>>

SyncUnlink ==
  /\ pc \in {"syncUnlink", "recoverUnlink", "abortUnlink"}
  /\ jdisk' = NoJournal
  /\ Goto(IF pc = "recoverUnlink" THEN "create" ELSE "idle")
  /\ mem' = <<>> /\ writes' = 0
  /\ UNCHANGED <<file, disk, jfile, cursor, write, faults>>

(* A transaction that is not committed is undone from memory.              *)
Abort ==
  /\ pc \in {"open", "track", "apply", "sync", "syncDirectories", "unlink"}
  /\ Goto("abort")
  /\ cursor' = Len(mem) /\ write' = NoWrite
  /\ UNCHANGED <<file, disk, journal, mem, writes, faults>>

-----------------------------------------------------------------------------
(* Faults.  The process dies; a write at work may be in pieces.            *)

Forget == pc' = "idle" /\ mem' = <<>> /\ cursor' = 0 /\ write' = NoWrite /\ writes' = 0
Fault == faults < MaxFaults /\ faults' = faults + 1

Crash ==
  /\ pc # "idle" /\ Fault /\ Forget
  /\ \/ UNCHANGED <<file, jfile>>
     \/ /\ pc = "apply"
        /\ file' = [file EXCEPT ![write.f] = Written(@, Garbage)]
        /\ UNCHANGED jfile
     \/ pc = "create" /\ jfile' = Headerless /\ UNCHANGED file
  /\ UNCHANGED <<disk, jdisk>>

(* What may be left of a file: its entry, its length and each of its       *)
(* records are those of now or the durable ones, and a record that is not  *)
(* the same in both may be in pieces.                                      *)
Survivors(f) ==
  LET now == file[f].recs
      safe == disk[f].recs
      Either(i) == {r[i] : r \in {s \in {now, safe} : i \in DOMAIN s}}
      Piece(i) == IF i \in DOMAIN now \cap DOMAIN safe /\ now[i] = safe[i] THEN {} ELSE {Garbage}
      lengths == {n \in 0 .. MaxRecords : \E m, k \in {Len(now), Len(safe)} : m <= n /\ n <= k}
      Recs(n) == {r \in [1 .. n -> Values \cup {Garbage}] : \A i \in 1 .. n : r[i] \in Either(i) \cup Piece(i)}
  IN  {[exists |-> TRUE, recs |-> r] :
         r \in IF TRUE \in {file[f].exists, disk[f].exists} THEN UNION {Recs(n) : n \in lengths} ELSE {}}
      \cup IF FALSE \in {file[f].exists, disk[f].exists} THEN {Absent} ELSE {}

(* What may be left of the journal: the durable one, the one of now, none  *)
(* if the one of now is new, and of what was being written a piece.        *)
JournalSurvivors ==
  {jdisk, jfile} \cup
  CASE jfile = jdisk -> {}
    [] ~jfile.exists -> {}
    [] jfile.lines = <<>> -> {NoJournal, Headerless}
    [] OTHER -> {[jdisk EXCEPT !.torn = TRUE]}

PowerLoss ==
  /\ Fault /\ Forget
  /\ file' \in {c \in [Files -> UNION {Survivors(f) : f \in Files}] :
                 \A f \in Files : c[f] \in Survivors(f)}
  /\ disk' = file'
  /\ jfile' \in JournalSurvivors
  /\ jdisk' = jfile'

-----------------------------------------------------------------------------
Next ==
  \/ Begin \/ UndoWrite \/ UndoSync \/ Undone
  \/ WriteHeader \/ SyncHeader \/ SyncLink
  \/ StartWrite \/ Track \/ SyncLine \/ Apply
  \/ Commit \/ SyncFile \/ FilesSynced \/ SyncDirectories \/ Unlink \/ SyncUnlink
  \/ Abort \/ Crash \/ PowerLoss

Spec == Init /\ [][Next]_vars

-----------------------------------------------------------------------------
(* What a file that is now c was before the first of the lines: cut to its *)
(* boundary, and each record of which there are images as in the oldest.   *)
Images(lines, f, i) ==
  {k \in DOMAIN lines : lines[k].kind = "before" /\ lines[k].f = f /\ lines[k].at = i}
Oldest(images) == CHOOSE k \in images : \A m \in images : k <= m
RecordBefore(lines, f, i, c) ==
  IF Images(lines, f, i) = {} THEN c.recs[i] ELSE lines[Oldest(Images(lines, f, i))].old

ContentBefore(lines, f, c) ==
  LET boundary == lines[CHOOSE k \in Boundaries(lines, f) : TRUE]
  IN  IF Boundaries(lines, f) = {} THEN c
      ELSE IF boundary.existed
      THEN [exists |-> TRUE, recs |-> [i \in 1 .. boundary.len |-> RecordBefore(lines, f, i, c)]]
      ELSE Absent

(* The committed contents are those before the durable lines.              *)
Committed == [f \in Files |-> ContentBefore(jdisk.lines, f, file[f])]

(* A transaction may still come to be committed while its writer has not   *)
(* given it up and also when the writer died after the unlinking of the    *)
(* journal, until that is durable.                                         *)
Pending == jdisk.lines # <<>> /\ (pc \in Writing \/ jfile.lines = <<>>)

Store == INSTANCE TransactionalStore WITH
  Writers <- {"writer"}, FileSets <- {Files}, db <- Committed,
  work <- [w \in {"writer"} |-> IF Pending THEN file ELSE <<>>],
  failed <- {}

(* Power may fail at every step of a transaction, of an abort and of a     *)
(* recovery, again and again: the committed contents only ever become      *)
(* those of a whole transaction, and stay.                                 *)
Durable == Store!Spec

(* Where a writer or a reader finds no journal, or one without a header    *)
(* that recovery will not read, there is nothing to undo and what it sees  *)
(* is durable.                                                             *)
CleanMeansDurable ==
  pc = "idle" /\ ~jfile.header => file = disk
=============================================================================
