---------------------------- MODULE RemoteBinaryDb ----------------------------
(***************************************************************************)
(* Write and read transactions of the server's Binary DB                   *)
(* (remote_binary_db/{txn,journal,locks}.rs).  A writer changes the files  *)
(* in place.  What makes that a transaction is a rollback journal, one per *)
(* command scope, that names every file before it is touched and keeps     *)
(* every record before it is overwritten; removing the journal is the      *)
(* commit.  Writers and readers of different processes exclude each other  *)
(* with advisory file locks, and a writer that begins first undoes the     *)
(* journals that dead writers left in the scopes its locks overlap.        *)
(*                                                                         *)
(* A writer is one process.  A crash loses its locks and its memory, never *)
(* the files.                                                              *)
(***************************************************************************)
EXTENDS BinaryDbScopes, FiniteSets

CONSTANTS
  Writers, Readers,
  UsedScopes,    \* the command scopes the writers use
  Files,         \* the record, payload and index files
  IndexFiles,    \* those that are sorted indexes
  FamilyOf,      \* file -> the family that owns it
  Values,        \* record contents, ordered
  InitFile,      \* file -> its contents to begin with
  MaxRecords,    \* bound: records of a file
  MaxWrites,     \* bound: writes of a transaction
  Faults,        \* the faults that may happen
  MaxFaults      \* bound: faults of a behaviour

FaultKinds == {"crash", "io", "unlinkSync"}

ASSUME UsedScopesAssumption == UsedScopes \subseteq Scopes
ASSUME FamilyAssumption == FamilyOf \in [Files -> LockNames \ {"global"}]
ASSUME ValuesAssumption == Values \subseteq Int /\ IndexFiles \subseteq Files
ASSUME FaultsAssumption == Faults \subseteq FaultKinds
ASSUME BoundsAssumption == MaxRecords \in Nat /\ MaxWrites \in Nat /\ MaxFaults \in Nat

Nobody == "nobody"
NoScope == "none"
ASSUME ActorsAssumption == Nobody \notin Writers /\ Writers \cap Readers = {}

(* A file is absent, or a sequence of records.                             *)
Absent == [exists |-> FALSE, recs |-> <<>>]
Content == [exists : {TRUE}, recs : Seq(Values)] \cup {Absent}

(* The files to begin with, as a server that was shut down left them: the  *)
(* rows of an index are strictly sorted.                                   *)
StrictlySorted(rows) == \A i, j \in DOMAIN rows : i < j => rows[i] < rows[j]
ASSUME InitFileAssumption ==
  /\ InitFile \in [Files -> Content]
  /\ \A f \in IndexFiles : StrictlySorted(InitFile[f].recs)

(* Journal entries: a file's existence and length before it is touched,    *)
(* and the records from position i on before they are overwritten.         *)
FileEntry(f, c) == [kind |-> "file", f |-> f, existed |-> c.exists, len |-> Len(c.recs)]
BeforeImage(f, i, old) == [kind |-> "before", f |-> f, at |-> i, old |-> old]
Covers(e, f, i) == e.kind = "before" /\ e.f = f /\ i \in e.at .. (e.at + Len(e.old) - 1)

VARIABLES
  file,      \* file -> contents
  jstate,    \* scope -> "none", "headerless" or "ready": its journal file
  jentries,  \* scope -> the entries in its journal file
  excl,      \* lock -> the writer that holds it exclusively
  shared,    \* lock -> the actors that hold it shared
  gate,      \* the writer that holds the recovery admission lock
  pc,        \* writer -> where it is in its transaction
  scope,     \* writer -> the command scope of its transaction
  found,     \* writer -> recovery scopes seen before it took the locks
  want,      \* writer -> locks it has still to take
  todo,      \* writer -> recovery scopes it has still to recover
  entries,   \* writer -> the journal entries it works on, in memory
  cursor,    \* writer -> entries of them still to undo
  op,        \* writer -> the write it performs
  writes,    \* writer -> writes of its transaction so far
  reading,   \* reader -> the families of its transaction, {} outside one
  seen,      \* reader -> what it has read: a function of files
  faults     \* faults so far

files == <<file, jstate, jentries>>
locks == <<excl, shared, gate>>
begin == <<found, want, todo>>
txn == <<scope, entries, cursor, op, writes>>
readers == <<reading, seen>>
vars == <<files, locks, pc, begin, txn, readers, faults>>

NoOp == [kind |-> "none"]

Init ==
  /\ file = InitFile
  /\ jstate = [s \in Scopes |-> "none"]
  /\ jentries = [s \in Scopes |-> <<>>]
  /\ excl = [n \in LockNames |-> Nobody]
  /\ shared = [n \in LockNames |-> {}]
  /\ gate = Nobody
  /\ pc = [w \in Writers |-> "idle"]
  /\ scope = [w \in Writers |-> NoScope]
  /\ found = [w \in Writers |-> {}]
  /\ want = [w \in Writers |-> {}]
  /\ todo = [w \in Writers |-> {}]
  /\ entries = [w \in Writers |-> <<>>]
  /\ cursor = [w \in Writers |-> 0]
  /\ op = [w \in Writers |-> NoOp]
  /\ writes = [w \in Writers |-> 0]
  /\ reading = [r \in Readers |-> {}]
  /\ seen = [r \in Readers |-> <<>>]
  /\ faults = 0

-----------------------------------------------------------------------------
(* Journals on disk, and the scopes a writer must recover first: its own   *)
(* and, transitively, those of pending journals whose locks overlap.       *)
Pending == {s \in Scopes : jstate[s] # "none"}

ClosedUnderConflict(C, s) ==
  s \in C /\ \A p \in Pending : (\E c \in C : ConflictsWith(p, c)) => p \in C

(* Mutants of OverlappingRecoveryScopes: only the writer's own scope; only *)
(* the other ones.                                                         *)
OwnRecoveryScope(s) == {s}
OtherRecoveryScopes(s) == {p \in Pending \ {s} : ConflictsWith(p, s)}

OverlappingRecoveryScopes(s) ==
  {p \in Pending \cup {s} :
     \A C \in SUBSET (Pending \cup {s}) : ClosedUnderConflict(C, s) => p \in C}

(* The order in which locks are taken and scopes recovered.                *)
LockRank(n) == CHOOSE i \in 1 .. Len(LockOrder) : LockOrder[i] = n
ScopeRank(w, s) ==
  IF s = scope[w] THEN 0 ELSE CHOOSE i \in 1 .. Len(AllScopes) : AllScopes[i] = s
NextWanted(w) == CHOOSE n \in want[w] : \A m \in want[w] : LockRank(n) <= LockRank(m)
NextTodo(w) == CHOOSE s \in todo[w] : \A p \in todo[w] : ScopeRank(w, s) <= ScopeRank(w, p)

Unlocked(w) == [n \in LockNames |-> IF excl[n] = w THEN Nobody ELSE excl[n]]

(* The transaction object is gone: its locks are free and nothing of it    *)
(* stays in memory.  What it leaves in the journal stays.                  *)
Forget(w) ==
  /\ excl' = Unlocked(w)
  /\ gate' = IF gate = w THEN Nobody ELSE gate
  /\ scope' = [scope EXCEPT ![w] = NoScope]
  /\ found' = [found EXCEPT ![w] = {}]
  /\ want' = [want EXCEPT ![w] = {}]
  /\ todo' = [todo EXCEPT ![w] = {}]
  /\ entries' = [entries EXCEPT ![w] = <<>>]
  /\ cursor' = [cursor EXCEPT ![w] = 0]
  /\ op' = [op EXCEPT ![w] = NoOp]
  /\ writes' = [writes EXCEPT ![w] = 0]

Goto(w, from, to) == pc[w] = from /\ pc' = [pc EXCEPT ![w] = to]

-----------------------------------------------------------------------------
(* Begin (try_begin_with_recovery_admission and its retry loop).           *)

Begin(w, s) ==
  /\ Goto(w, "idle", "preflight")
  /\ scope' = [scope EXCEPT ![w] = s]
  /\ UNCHANGED <<files, locks, begin, entries, cursor, op, writes, readers, faults>>

(* The shared probe: it is taken and dropped before the gate is tried.     *)
Probed(w) == ReadLocks(WriteScope(scope[w]))

Preflight(w) ==
  /\ Goto(w, "preflight", "probing")
  /\ \A n \in Probed(w) : excl[n] = Nobody
  /\ shared' = [n \in LockNames |-> IF n \in Probed(w) THEN shared[n] \cup {w} ELSE shared[n]]
  /\ UNCHANGED <<files, excl, gate, begin, txn, readers, faults>>

DropPreflight(w) ==
  /\ Goto(w, "probing", "gate")
  /\ shared' = [n \in LockNames |-> shared[n] \ {w}]
  /\ UNCHANGED <<files, excl, gate, begin, txn, readers, faults>>

(* Mutant of Busy: the gate is kept.                                       *)
BusyWithGate(w) ==
  /\ pc' = [pc EXCEPT ![w] = "preflight"]
  /\ excl' = Unlocked(w)
  /\ found' = [found EXCEPT ![w] = {}]
  /\ want' = [want EXCEPT ![w] = {}]
  /\ UNCHANGED <<files, shared, gate, scope, todo, entries, cursor, op, writes, readers, faults>>

(* A writer that meets a lock in use gives back what it has.  Then it      *)
(* begins again, or gives up: it was told not to wait or its time is over. *)
Busy(w) ==
  /\ \/ pc' = [pc EXCEPT ![w] = "preflight"] /\ UNCHANGED scope
     \/ pc' = [pc EXCEPT ![w] = "idle"] /\ scope' = [scope EXCEPT ![w] = NoScope]
  /\ excl' = Unlocked(w)
  /\ gate' = IF gate = w THEN Nobody ELSE gate
  /\ found' = [found EXCEPT ![w] = {}]
  /\ want' = [want EXCEPT ![w] = {}]
  /\ UNCHANGED <<files, shared, todo, entries, cursor, op, writes, readers, faults>>

PreflightBusy(w) ==
  /\ pc[w] = "preflight"
  /\ \E n \in Probed(w) : excl[n] # Nobody
  /\ Busy(w)

(* Mutant of AcquireGate: the gate is not exclusive.                       *)
EnterGate(w) ==
  /\ Goto(w, "gate", "scan")
  /\ gate' = w
  /\ UNCHANGED <<files, excl, shared, begin, txn, readers, faults>>

AcquireGate(w) ==
  /\ Goto(w, "gate", "scan")
  /\ gate = Nobody
  /\ gate' = w
  /\ UNCHANGED <<files, excl, shared, begin, txn, readers, faults>>

GateBusy(w) ==
  /\ pc[w] = "gate"
  /\ gate # Nobody
  /\ Busy(w)

(* Find the scopes to recover, and with them the union of locks to take.   *)
Scan(w) ==
  LET scopes == OverlappingRecoveryScopes(scope[w]) IN
  /\ Goto(w, "scan", "lock")
  /\ found' = [found EXCEPT ![w] = scopes]
  /\ want' = [want EXCEPT ![w] = UNION {LocksOf(s) : s \in scopes}]
  /\ UNCHANGED <<files, locks, todo, txn, readers, faults>>

(* Mutant of LockFree: only readers exclude a writer.                      *)
NotRead(n) == shared[n] = {}

LockFree(n) == excl[n] = Nobody /\ shared[n] = {}

LockNext(w) ==
  LET n == NextWanted(w) IN
  /\ pc[w] = "lock"
  /\ want[w] # {}
  /\ LockFree(n)
  /\ excl' = [excl EXCEPT ![n] = w]
  /\ want' = [want EXCEPT ![w] = @ \ {n}]
  /\ UNCHANGED <<files, shared, gate, pc, found, todo, txn, readers, faults>>

LockBusy(w) ==
  /\ pc[w] = "lock"
  /\ want[w] # {}
  /\ ~LockFree(NextWanted(w))
  /\ Busy(w)

(* With the locks held, the scopes to recover are looked up again: a scope *)
(* that is new among them, whose locks are not held, would be a reason to  *)
(* begin again.  ScanStaysValid says that this never happens.              *)
Confirm(w) ==
  LET scopes == OverlappingRecoveryScopes(scope[w])
      same == scopes \subseteq found[w]
  IN
  /\ pc[w] = "lock"
  /\ want[w] = {}
  /\ pc' = [pc EXCEPT ![w] = IF same THEN "recover" ELSE "preflight"]
  /\ todo' = [todo EXCEPT ![w] = IF same THEN scopes ELSE {}]
  /\ excl' = IF same THEN excl ELSE Unlocked(w)
  /\ gate' = IF same THEN gate ELSE Nobody
  /\ UNCHANGED <<files, shared, found, want, txn, readers, faults>>

(* recover_existing, for the next scope: nothing to do, start to undo its  *)
(* journal, or fail closed on a journal without header.                    *)
RecoverSkip(w) ==
  /\ pc[w] = "recover"
  /\ todo[w] # {}
  /\ jstate[NextTodo(w)] = "none"
  /\ todo' = [todo EXCEPT ![w] = @ \ {NextTodo(w)}]
  /\ UNCHANGED <<files, locks, pc, found, want, txn, readers, faults>>

RecoverRead(w) ==
  /\ Goto(w, "recover", "undo")
  /\ todo[w] # {}
  /\ jstate[NextTodo(w)] = "ready"
  /\ entries' = [entries EXCEPT ![w] = jentries[NextTodo(w)]]
  /\ cursor' = [cursor EXCEPT ![w] = Len(jentries[NextTodo(w)])]
  /\ UNCHANGED <<files, locks, begin, scope, op, writes, readers, faults>>

RecoverCorrupt(w) ==
  /\ Goto(w, "recover", "idle")
  /\ todo[w] # {}
  /\ jstate[NextTodo(w)] = "headerless"
  /\ Forget(w)
  /\ UNCHANGED <<files, shared, readers, faults>>

(* rollback_entries, one entry: the last one not undone yet.               *)
Undone(e, c) ==
  IF e.kind = "before"
  THEN [c EXCEPT !.recs = [i \in DOMAIN @ |-> IF Covers(e, e.f, i)
                                              THEN e.old[i - e.at + 1] ELSE @[i]]]
  ELSE IF e.existed THEN [c EXCEPT !.recs = SubSeq(@, 1, e.len)]
  ELSE Absent

UndoEntry(w) ==
  LET e == entries[w][cursor[w]] IN
  /\ pc[w] \in {"undo", "abort"}
  /\ cursor[w] > 0
  /\ file' = [file EXCEPT ![e.f] = Undone(e, @)]
  /\ cursor' = [cursor EXCEPT ![w] = @ - 1]
  /\ UNCHANGED <<jstate, jentries, locks, pc, begin, scope, entries, op, writes, readers, faults>>

(* Mutant of NoJournal: the header is cleared and the file stays.          *)
HeaderCleared(s) ==
  /\ jstate' = [jstate EXCEPT ![s] = "headerless"]
  /\ UNCHANGED jentries
NoJournal(s) ==
  /\ jstate' = [jstate EXCEPT ![s] = "none"]
  /\ jentries' = [jentries EXCEPT ![s] = <<>>]

RecoverRemove(w) ==
  /\ Goto(w, "undo", "recover")
  /\ cursor[w] = 0
  /\ NoJournal(NextTodo(w))
  /\ todo' = [todo EXCEPT ![w] = @ \ {NextTodo(w)}]
  /\ entries' = [entries EXCEPT ![w] = <<>>]
  /\ UNCHANGED <<file, locks, found, want, scope, cursor, op, writes, readers, faults>>

(* create_new: the journal file appears, then its header; it is synced,    *)
(* the gate is released and the transaction is open.                       *)
CreateJournal(w) ==
  /\ Goto(w, "recover", "header")
  /\ todo[w] = {}
  /\ jstate[scope[w]] = "none"
  /\ jstate' = [jstate EXCEPT ![scope[w]] = "headerless"]
  /\ UNCHANGED <<file, jentries, locks, begin, txn, readers, faults>>

WriteHeader(w) ==
  /\ Goto(w, "header", "created")
  /\ jstate' = [jstate EXCEPT ![scope[w]] = "ready"]
  /\ UNCHANGED <<file, jentries, locks, begin, txn, readers, faults>>

Open(w) ==
  /\ Goto(w, "created", "open")
  /\ gate' = Nobody
  /\ found' = [found EXCEPT ![w] = {}]
  /\ UNCHANGED <<files, excl, shared, want, todo, txn, readers, faults>>

-----------------------------------------------------------------------------
(* Writes.  Each is a sequence of steps: journal the file, journal what is *)
(* overwritten, change the file.                                           *)

MayWrite(w, f) == FamilyOf[f] \in WriteScope(scope[w]) /\ writes[w] < MaxWrites

StartWrite(w, o) ==
  /\ Goto(w, "open", "track")
  /\ MayWrite(w, o.f)
  /\ op' = [op EXCEPT ![w] = o]
  /\ writes' = [writes EXCEPT ![w] = @ + 1]
  /\ UNCHANGED <<files, locks, begin, scope, entries, cursor, readers, faults>>

(* append_record(s), append_payload.                                       *)
StartAppend(w, f, v) ==
  /\ f \notin IndexFiles
  /\ Len(file[f].recs) < MaxRecords
  /\ StartWrite(w, [kind |-> "append", f |-> f, new |-> Append(file[f].recs, v)])

(* overwrite_record(s): the record is read first, and must be there.       *)
StartOverwrite(w, f, i, v) ==
  /\ f \notin IndexFiles
  /\ i \in 1 .. Len(file[f].recs)
  /\ StartWrite(w, [kind |-> "overwrite", f |-> f, at |-> i,
                    new |-> [file[f].recs EXCEPT ![i] = v]])

(* append_index_candidate(s): the rows are strictly sorted, which the      *)
(* merge checks, and stay so: a row that is new goes to its place.         *)
MergedRows(rows, v) ==
  LET k == Cardinality({i \in DOMAIN rows : rows[i] < v})
  IN IF \E i \in DOMAIN rows : rows[i] = v THEN rows
     ELSE SubSeq(rows, 1, k) \o <<v>> \o SubSeq(rows, k + 1, Len(rows))

StartMerge(w, f, v) ==
  /\ f \in IndexFiles
  /\ Len(file[f].recs) < MaxRecords
  /\ StartWrite(w, [kind |-> "merge", f |-> f, at |-> 1, new |-> MergedRows(file[f].recs, v)])

Entries(w) == {entries[w][k] : k \in 1 .. Len(entries[w])}
Boundary(w, f) == CHOOSE e \in Entries(w) : e.kind = "file" /\ e.f = f
Tracked(w, f) == \E e \in Entries(w) : e.kind = "file" /\ e.f = f

(* append_entries: on disk and synced before the writer goes on.           *)
AppendEntry(w, e) ==
  /\ jentries' = [jentries EXCEPT ![scope[w]] = Append(@, e)]
  /\ entries' = [entries EXCEPT ![w] = Append(@, e)]

TrackFile(w) ==
  LET f == op[w].f IN
  /\ Goto(w, "track", "image")
  /\ IF Tracked(w, f) THEN UNCHANGED <<jentries, entries>>
     ELSE AppendEntry(w, FileEntry(f, file[f]))
  /\ UNCHANGED <<file, jstate, locks, begin, scope, cursor, op, writes, readers, faults>>

(* Mutant of NeedsImage: the last record before the boundary is left out.  *)
NeedsImageBelow(w) ==
  /\ op[w].kind = "overwrite"
  /\ op[w].at < Boundary(w, op[w].f).len

(* Bytes at or beyond the boundary need no image: undoing truncates them.  *)
(* An index is imaged as a whole, once.                                    *)
NeedsImage(w) ==
  LET o == op[w] IN
  CASE o.kind = "append"    -> FALSE
    [] o.kind = "overwrite" -> o.at <= Boundary(w, o.f).len
    [] o.kind = "merge"     -> /\ Boundary(w, o.f).existed
                               /\ ~\E e \in Entries(w) : e.kind = "before" /\ e.f = o.f

Image(w) ==
  LET o == op[w]
      recs == file[o.f].recs
  IN BeforeImage(o.f, o.at, IF o.kind = "merge" THEN recs ELSE <<recs[o.at]>>)

TrackImage(w) ==
  /\ Goto(w, "image", "apply")
  /\ IF NeedsImage(w) THEN AppendEntry(w, Image(w)) ELSE UNCHANGED <<jentries, entries>>
  /\ UNCHANGED <<file, jstate, locks, begin, scope, cursor, op, writes, readers, faults>>

(* The file is written.  An index merge appends the rows by which the file *)
(* grows before it rewrites the rows that were there.                      *)
Apply(w) ==
  LET o == op[w]
      old == file[o.f].recs
      grown == old \o SubSeq(o.new, Len(old) + 1, Len(o.new))
  IN
  /\ Goto(w, "apply", IF o.kind = "merge" THEN "rewrite" ELSE "open")
  /\ file' = [file EXCEPT ![o.f] =
                [exists |-> TRUE, recs |-> IF o.kind = "merge" THEN grown ELSE o.new]]
  /\ op' = [op EXCEPT ![w] = IF o.kind = "merge" THEN @ ELSE NoOp]
  /\ UNCHANGED <<jstate, jentries, locks, begin, scope, entries, cursor, writes, readers, faults>>

RewriteIndex(w) ==
  /\ Goto(w, "rewrite", "open")
  /\ file' = [file EXCEPT ![op[w].f].recs = op[w].new]
  /\ op' = [op EXCEPT ![w] = NoOp]
  /\ UNCHANGED <<jstate, jentries, locks, begin, scope, entries, cursor, writes, readers, faults>>

-----------------------------------------------------------------------------
(* Commit: the touched files are synced, then the journal is removed, then *)
(* its directory is synced; after that the locks are released.             *)
CommitSync(w) ==
  /\ Goto(w, "open", "unlink")
  /\ UNCHANGED <<files, locks, begin, txn, readers, faults>>

CommitUnlink(w) ==
  /\ Goto(w, "unlink", "unlinked")
  /\ NoJournal(scope[w])
  /\ UNCHANGED <<file, locks, begin, txn, readers, faults>>

CommitDone(w) ==
  /\ Goto(w, "unlinked", "idle")
  /\ Forget(w)
  /\ UNCHANGED <<files, shared, readers, faults>>

(* Abort, called or dropped: undo all entries, then remove the journal.    *)
StartAbort(w) ==
  /\ pc' = [pc EXCEPT ![w] = "abort"]
  /\ cursor' = [cursor EXCEPT ![w] = Len(entries[w])]
  /\ op' = [op EXCEPT ![w] = NoOp]
  /\ UNCHANGED <<files, locks, begin, scope, entries, writes, readers>>

Abort(w) == pc[w] = "open" /\ StartAbort(w) /\ UNCHANGED faults

AbortDone(w) ==
  /\ Goto(w, "abort", "idle")
  /\ cursor[w] = 0
  /\ NoJournal(scope[w])
  /\ Forget(w)
  /\ UNCHANGED <<file, shared, readers, faults>>

-----------------------------------------------------------------------------
(* Faults.                                                                 *)
Fault(kind) == kind \in Faults /\ faults < MaxFaults /\ faults' = faults + 1

(* The process dies; the kernel releases its locks.                        *)
Crash(w) ==
  /\ Fault("crash")
  /\ pc[w] # "idle"
  /\ pc' = [pc EXCEPT ![w] = "idle"]
  /\ Forget(w)
  /\ shared' = [n \in LockNames |-> shared[n] \ {w}]
  /\ UNCHANGED <<files, readers>>

(* An I/O error while a transaction begins, or while it is undone, ends it *)
(* and leaves its journal.                                                 *)
FailAndLeave(w) ==
  /\ Fault("io")
  /\ pc[w] \in {"scan", "lock", "recover", "undo", "header", "created", "abort"}
  /\ pc' = [pc EXCEPT ![w] = "idle"]
  /\ Forget(w)
  /\ UNCHANGED <<files, shared, readers>>

(* An I/O error in a write or before the journal is removed aborts it; one *)
(* in an abort that was called, not dropped, makes the drop abort again.   *)
FailAndAbort(w) ==
  /\ Fault("io")
  /\ pc[w] \in {"track", "image", "apply", "rewrite", "unlink", "abort"}
  /\ StartAbort(w)

(* The journal is removed but the directory sync fails: commit reports an  *)
(* error, and dropping the transaction undoes it from memory.  No journal  *)
(* covers that undo: a crash or an error in it leaves the files in between.*)
UnlinkSyncFails(w) ==
  /\ Fault("unlinkSync")
  /\ pc[w] = "unlinked"
  /\ StartAbort(w)

-----------------------------------------------------------------------------
(* Mutant of ReadBegin: the shared locks are tried and not kept.           *)
ReadBeginUnlocked(r, families) ==
  /\ reading[r] = {}
  /\ \A n \in ReadLocks(families) : excl[n] = Nobody
  /\ reading' = [reading EXCEPT ![r] = families]
  /\ UNCHANGED <<files, locks, pc, begin, txn, seen, faults>>

(* Read transactions: shared locks, taken in the one order and all or      *)
(* none, and no look at any journal.                                       *)
ReadBegin(r, families) ==
  /\ reading[r] = {}
  /\ \A n \in ReadLocks(families) : excl[n] = Nobody
  /\ reading' = [reading EXCEPT ![r] = families]
  /\ shared' = [n \in LockNames |->
                  IF n \in ReadLocks(families) THEN shared[n] \cup {r} ELSE shared[n]]
  /\ UNCHANGED <<files, excl, gate, pc, begin, txn, seen, faults>>

Read(r, f) ==
  /\ FamilyOf[f] \in reading[r]
  /\ f \notin DOMAIN seen[r]
  /\ seen' = [seen EXCEPT ![r] =
                [g \in DOMAIN @ \cup {f} |-> IF g = f THEN file[f] ELSE @[g]]]
  /\ UNCHANGED <<files, locks, pc, begin, txn, reading, faults>>

ReadEnd(r) ==
  /\ reading[r] # {}
  /\ reading' = [reading EXCEPT ![r] = {}]
  /\ seen' = [seen EXCEPT ![r] = <<>>]
  /\ shared' = [n \in LockNames |-> shared[n] \ {r}]
  /\ UNCHANGED <<files, excl, gate, pc, begin, txn, faults>>

-----------------------------------------------------------------------------
BeginStep(w) ==
  \/ Preflight(w) \/ PreflightBusy(w) \/ DropPreflight(w) \/ AcquireGate(w) \/ GateBusy(w)
  \/ Scan(w) \/ LockNext(w) \/ LockBusy(w) \/ Confirm(w)
  \/ RecoverSkip(w) \/ RecoverRead(w) \/ RecoverCorrupt(w) \/ UndoEntry(w)
  \/ RecoverRemove(w) \/ CreateJournal(w) \/ WriteHeader(w) \/ Open(w)

WriteStep(w) ==
  \/ \E f \in Files, v \in Values : StartAppend(w, f, v) \/ StartMerge(w, f, v)
  \/ \E f \in Files, i \in 1 .. MaxRecords, v \in Values : StartOverwrite(w, f, i, v)
  \/ TrackFile(w) \/ TrackImage(w) \/ Apply(w) \/ RewriteIndex(w)

EndStep(w) ==
  CommitSync(w) \/ CommitUnlink(w) \/ CommitDone(w) \/ Abort(w) \/ AbortDone(w)

FaultStep(w) ==
  Crash(w) \/ FailAndLeave(w) \/ FailAndAbort(w) \/ UnlinkSyncFails(w)

ReadStep(r) ==
  \/ \E s \in UsedScopes : ReadBegin(r, WriteScope(s))
  \/ \E f \in Files : Read(r, f)
  \/ ReadEnd(r)

Next ==
  \/ \E w \in Writers :
       \/ \E s \in UsedScopes : Begin(w, s)
       \/ BeginStep(w) \/ WriteStep(w) \/ EndStep(w) \/ FaultStep(w)
  \/ \E r \in Readers : ReadStep(r)

Spec == Init /\ [][Next]_vars

-----------------------------------------------------------------------------
PCs == {"idle", "preflight", "probing", "gate", "scan", "lock", "recover", "undo", "header",
        "created", "open", "track", "image", "apply", "rewrite", "unlink", "unlinked", "abort"}

\* Families, journals, locks and transactions have the shape that the file layer, the
\* journal's entries and the control points of BinaryDbWriteTxn give them.
TypeOK ==
  /\ file \in [Files -> Content]
  /\ jstate \in [Scopes -> {"none", "headerless", "ready"}]
  /\ \A s \in Scopes : jstate[s] # "ready" => jentries[s] = <<>>
  /\ excl \in [LockNames -> Writers \cup {Nobody}]
  /\ shared \in [LockNames -> SUBSET (Writers \cup Readers)]
  /\ gate \in Writers \cup {Nobody}
  /\ pc \in [Writers -> PCs]
  /\ scope \in [Writers -> UsedScopes \cup {NoScope}]
  /\ found \in [Writers -> SUBSET Scopes]
  /\ want \in [Writers -> SUBSET LockNames]
  /\ todo \in [Writers -> SUBSET Scopes]
  /\ \A w \in Writers : cursor[w] \in 0 .. Len(entries[w])
  /\ writes \in [Writers -> 0 .. MaxWrites]
  /\ reading \in [Readers -> SUBSET LockNames]
  /\ \A r \in Readers : DOMAIN seen[r] \subseteq Files
  /\ faults \in 0 .. MaxFaults

(* The committed contents of the files: what undoing every pending journal *)
(* would leave.  A transaction is committed when its directory sync is     *)
(* done or its process dies after the journal was removed; until then its  *)
(* entries in memory count as its journal.                                 *)
InMemory == {w \in Writers : pc[w] \in {"unlinked", "abort"} /\ jstate[scope[w]] = "none"}

Journals ==
  {jentries[s] : s \in Pending} \cup {entries[w] : w \in InMemory}

Boundaries(J, f) == {k \in 1 .. Len(J) : J[k].kind = "file" /\ J[k].f = f}
BoundaryOf(J, f) == J[CHOOSE k \in Boundaries(J, f) : TRUE]

(* Of the images of one record the oldest counts.                          *)
Images(J, f, i) == {k \in 1 .. Len(J) : Covers(J[k], f, i)}
OldestImage(J, f, i) ==
  J[CHOOSE k \in Images(J, f, i) : \A m \in Images(J, f, i) : k <= m]

RecordBefore(J, f, i, recs) ==
  IF Images(J, f, i) = {} THEN recs[i]
  ELSE OldestImage(J, f, i).old[i - OldestImage(J, f, i).at + 1]

UndoAll(J, f, c) ==
  IF BoundaryOf(J, f).existed
  THEN [exists |-> TRUE,
        recs |-> [i \in 1 .. BoundaryOf(J, f).len |-> RecordBefore(J, f, i, c.recs)]]
  ELSE Absent

Committed(f) ==
  LET JS == {J \in Journals : Boundaries(J, f) # {}}
  IN IF JS = {} THEN file[f] ELSE UndoAll(CHOOSE J \in JS : TRUE, f, file[f])

Active == {"open", "track", "image", "apply", "rewrite", "unlink", "unlinked"}

ScopeFiles(s) == {f \in Files : FamilyOf[f] \in WriteScope(s)}

(* Writers that undo a transaction of which the journal is gone.           *)
Unjournaled == {w \in InMemory : pc[w] = "abort"}

Store == INSTANCE TransactionalStore WITH
  FileSets <- {ScopeFiles(s) : s \in UsedScopes},
  db <- [f \in Files |-> Committed(f)],
  work <- [w \in Writers |->
             IF pc[w] \in Active \/ w \in Unjournaled
             THEN [f \in ScopeFiles(scope[w]) |-> file[f]] ELSE <<>>],
  failed <- Unjournaled

(* Locks and journals make transactions: a transaction starts from         *)
(* committed files that nobody else works on, and what it wrote takes      *)
(* effect as a whole when it commits, or not at all, whatever crashes and  *)
(* fails in between and however recoveries are interrupted.  The exception *)
(* is a commit whose last directory sync failed: should the writer die or  *)
(* meet another error while it undoes that transaction without a journal,  *)
(* what is not undone stays, for good, in the files of that transaction.   *)
Transactional == Store!Spec

(* Journals that share a lock never exist together: the order in which     *)
(* stale journals are undone cannot matter, and no recovery undoes work    *)
(* that a later transaction committed.                                     *)
JournalsDisjoint ==
  \A s, t \in Pending : s # t => ~ConflictsWith(s, t)

(* Two writers that have their locks never share one, although they take   *)
(* them one by one, give them back when one is in use, and a recovering    *)
(* writer takes those of dead writers too.                                 *)
Holding == Active \cup {"recover", "undo", "header", "created", "abort"}
WriteExclusion ==
  \A v, w \in Writers :
    v # w /\ pc[v] \in Holding /\ pc[w] \in Holding => ~ConflictsWith(scope[v], scope[w])

(* create_new never meets a journal of its own scope: recovery removed it. *)
FreshJournal ==
  \A w \in Writers : pc[w] = "recover" /\ todo[w] = {} => jstate[scope[w]] = "none"

(* The set of scopes found before the locks were taken is still complete   *)
(* once they are held: no journal that overlaps them can appear while the  *)
(* recovery gate is held, so the second look of Confirm changes nothing.   *)
ScanStaysValid ==
  \A w \in Writers :
    pc[w] = "lock" /\ want[w] = {} => OverlappingRecoveryScopes(scope[w]) \subseteq found[w]

(* A reader's files are the committed ones, all from the same moment, as   *)
(* long as nobody left a journal behind: while writers begin, write,       *)
(* commit, undo and recover, a reader sees none of it, and a read that saw *)
(* an interrupted transaction is over before it is undone.                 *)
WorksOn(w, s) == scope[w] = s /\ pc[w] \in Holding \ {"recover", "undo"}
Interrupted == {s \in Pending : \A w \in Writers : ~WorksOn(w, s)}
ReadsUnlessInterrupted ==
  \A r \in Readers : \A f \in DOMAIN seen[r] :
    seen[r][f] = Committed(f) \/ \E s \in Interrupted : FamilyOf[f] \in WriteScope(s)

(* No writer waits while it holds the recovery gate, so one busy family    *)
(* cannot stop the writers of all others: the holder is between the scan   *)
(* and the end of its recovery, and its next step is always possible.      *)
GateNeverWaits ==
  \A w \in Writers : gate = w =>
    pc[w] \in {"scan", "lock", "recover", "undo", "header", "created"} /\ ENABLED BeginStep(w)
=============================================================================
