------------------------- MODULE RemoteBinaryDbProofs -------------------------
(***************************************************************************)
(* Proofs about RemoteBinaryDb, for every number of writers and readers,   *)
(* every choice of command scopes, files and faults and every bound: its   *)
(* locks and journals (LockInv), and what the rollback journal does to the *)
(* files (DataInv), so that a transaction is all or nothing.               *)
(***************************************************************************)
EXTENDS RemoteBinaryDb, FiniteSetTheorems, SequenceTheorems, WellFoundedInduction, TLAPS

-----------------------------------------------------------------------------
(* The invariant of the locks and journals.                                *)

(* The types it needs.                                                     *)
LockTypes ==
  /\ jstate \in [Scopes -> {"none", "headerless", "ready"}]
  /\ excl \in [LockNames -> Writers \cup {Nobody}]
  /\ gate \in Writers \cup {Nobody}
  /\ pc \in [Writers -> PCs]
  /\ scope \in [Writers -> UsedScopes \cup {NoScope}]
  /\ found \in [Writers -> SUBSET Scopes]
  /\ want \in [Writers -> SUBSET LockNames]
  /\ todo \in [Writers -> SUBSET Scopes]

Gated == {"scan", "lock", "recover", "undo", "header", "created"}
Writing == {"created", "open", "track", "image", "apply", "rewrite", "unlink"}

Owns(w, s) == \A n \in LocksOf(s) : excl[n] = w

(* What holds of one writer, wherever it is in its transaction: it has a   *)
(* scope; it has the gate exactly from the scan to the end of create_new;  *)
(* it owns the locks of its scope from the second look on; until then it   *)
(* owns, or still wants, those of every scope it found, and what it found  *)
(* is closed under conflicts; while it recovers, every pending journal in  *)
(* its way is one it has still to recover, and its locks are held; and     *)
(* from the creation of its journal to its removal the journal is there.   *)
WriterOK(w) ==
  /\ pc[w] # "idle" => scope[w] \in UsedScopes
  /\ gate = w <=> pc[w] \in Gated
  /\ pc[w] \in Holding => Owns(w, scope[w])
  /\ pc[w] = "lock" =>
       /\ ClosedUnderConflict(found[w], scope[w])
       /\ \A s \in found[w] : \A n \in LocksOf(s) : n \in want[w] \/ excl[n] = w
  /\ pc[w] \in {"recover", "undo"} =>
       /\ \A s \in todo[w] : Owns(w, s)
       /\ \A p \in Pending : ConflictsWith(p, scope[w]) => p \in todo[w]
  /\ pc[w] = "undo" => todo[w] # {}
  /\ pc[w] = "header" => jstate[scope[w]] = "headerless"
  /\ pc[w] \in Writing => jstate[scope[w]] = "ready"

LockInv == LockTypes /\ JournalsDisjoint /\ \A w \in Writers : WriterOK(w)

-----------------------------------------------------------------------------
(* Every scope has locks.                                                  *)
LEMMA ScopeLocks ==
  ASSUME NEW s \in Scopes
  PROVE  LocksOf(s) \subseteq LockNames /\ LocksOf(s) # {}
<1>1. CASE s = "General" BY <1>1 DEF LocksOf, LockFileNames, LockOrder, LockNames
<1>2. CASE s = "ServerContent" BY <1>2 DEF LocksOf, LockFileNames, LockNames
<1>3. CASE s = "ServerLand" BY <1>3 DEF LocksOf, LockFileNames, LockNames
<1>4. CASE s = "ServerPlan" BY <1>4 DEF LocksOf, LockFileNames, LockNames
<1>5. CASE s = "ServerQueue" BY <1>5 DEF LocksOf, LockFileNames, LockNames
<1>6. CASE s = "ServerRemoteSyncCommit" BY <1>6 DEF LocksOf, LockFileNames, LockNames
<1>7. CASE s = "ServerRepositoryPack" BY <1>7 DEF LocksOf, LockFileNames, LockNames
<1>8. CASE s = "ServerTaskStart" BY <1>8 DEF LocksOf, LockFileNames, LockNames
<1>9. CASE s = "ServerWorkflow" BY <1>9 DEF LocksOf, LockFileNames, LockNames
<1>10. CASE s = "ServerSnapshotCapture" BY <1>10 DEF LocksOf, LockFileNames, LockNames
<1>. QED BY <1>1, <1>2, <1>3, <1>4, <1>5, <1>6, <1>7, <1>8, <1>9, <1>10 DEF Scopes

LEMMA LessThanIsWellFounded ==
  \E R : IsWellFoundedOn(R, Nat) /\ \A x, y \in Nat : y < x => <<y, x>> \in R
<1>1. \A x, y \in Nat : y < x => <<y, x>> \in OpToRel(<, Nat)
  BY DEF OpToRel
<1>. QED BY <1>1, NatLessThanWellFounded, Zenon

(* A set of numbers that is not empty has a least one.                     *)
LEMMA LeastNumber ==
  ASSUME NEW T, T \subseteq Nat, T # {}
  PROVE  \E m \in T : \A k \in T : m <= k
<1>1. PICK R : IsWellFoundedOn(R, Nat) /\ \A x, y \in Nat : y < x => <<y, x>> \in R
  BY LessThanIsWellFounded
<1>2. PICK m \in T : \A k \in T : ~(<<k, m>> \in R)
  BY <1>1, WFMin
<1>3. \A k \in T : k \in Nat /\ m \in Nat /\ ~(k < m)
  BY <1>1, <1>2
<1>4. \A k \in T : m <= k
  BY <1>3
<1>. QED BY <1>4

(* The next lock to take is one of those wanted, and the next scope to     *)
(* recover one of those to do.                                             *)
LEMMA NextWantedIsWanted ==
  ASSUME NEW w, want[w] \subseteq LockNames, want[w] # {}
  PROVE  NextWanted(w) \in want[w]
<1>1. \A n \in LockNames : \E i \in 1 .. Len(LockOrder) : LockOrder[i] = n
  BY DEF LockNames, LockOrder
<1>2. \A n \in LockNames : LockRank(n) \in 1 .. Len(LockOrder)
  BY <1>1 DEF LockRank
<1>3. Len(LockOrder) \in Nat
  BY DEF LockOrder
<1> DEFINE T == {LockRank(n) : n \in want[w]}
<1>4. T \subseteq Nat /\ T # {}
  BY <1>2, <1>3
<1>5. PICK m \in T : \A k \in T : m <= k
  BY <1>4, LeastNumber
<1>6. PICK n \in want[w] : m = LockRank(n)
  BY <1>5
<1>7. \A q \in want[w] : LockRank(n) <= LockRank(q)
  BY <1>5, <1>6
<1>. QED BY <1>7 DEF NextWanted

LEMMA NextTodoIsToDo ==
  ASSUME NEW w, todo[w] \subseteq Scopes, todo[w] # {}
  PROVE  NextTodo(w) \in todo[w]
<1>1. \A s \in Scopes : \E i \in 1 .. Len(AllScopes) : AllScopes[i] = s
  BY DEF Scopes, AllScopes
<1>2. Len(AllScopes) \in Nat
  BY DEF AllScopes
<1>3. \A s \in Scopes : ScopeRank(w, s) \in Nat
  BY <1>1, <1>2 DEF ScopeRank
<1> DEFINE T == {ScopeRank(w, s) : s \in todo[w]}
<1>4. T \subseteq Nat /\ T # {}
  BY <1>3
<1>5. PICK m \in T : \A k \in T : m <= k
  BY <1>4, LeastNumber
<1>6. PICK s \in todo[w] : m = ScopeRank(w, s)
  BY <1>5
<1>7. \A p \in todo[w] : ScopeRank(w, s) <= ScopeRank(w, p)
  BY <1>5, <1>6
<1>. QED BY <1>7 DEF NextTodo

(* The scopes to recover are the least set that contains the writer's own  *)
(* and is closed under conflicts with pending journals.                    *)
LEMMA RecoveryScopesAreClosed ==
  ASSUME NEW s \in Scopes
  PROVE  /\ ClosedUnderConflict(OverlappingRecoveryScopes(s), s)
         /\ OverlappingRecoveryScopes(s) \subseteq Scopes
<1>1. s \in OverlappingRecoveryScopes(s)
  BY DEF OverlappingRecoveryScopes, ClosedUnderConflict
<1>2. ASSUME NEW p \in Pending, NEW c \in OverlappingRecoveryScopes(s), ConflictsWith(p, c)
      PROVE  p \in OverlappingRecoveryScopes(s)
  <2>1. \A C \in SUBSET (Pending \cup {s}) : ClosedUnderConflict(C, s) => p \in C
    BY <1>2 DEF OverlappingRecoveryScopes, ClosedUnderConflict
  <2>. QED BY <2>1 DEF OverlappingRecoveryScopes
<1>. QED BY <1>1, <1>2 DEF ClosedUnderConflict, OverlappingRecoveryScopes, Pending

LEMMA RecoveryScopesAreLeast ==
  ASSUME NEW s, NEW C, ClosedUnderConflict(C, s)
  PROVE  OverlappingRecoveryScopes(s) \subseteq C
<1> DEFINE D == C \cap (Pending \cup {s})
<1>1. ClosedUnderConflict(D, s)
  BY DEF ClosedUnderConflict
<1>2. D \in SUBSET (Pending \cup {s})
  OBVIOUS
<1>. QED BY <1>1, <1>2 DEF OverlappingRecoveryScopes

-----------------------------------------------------------------------------
(* A step of writer w as the others see it: it takes only locks that are   *)
(* free and gives back only its own, changes only journals whose locks it  *)
(* owns, and creates one only with the gate and with no conflicting one.   *)
StepSeenByOthers(w) ==
  /\ \A v \in Writers \ {w} :
       /\ pc'[v] = pc[v] /\ scope'[v] = scope[v]
       /\ found'[v] = found[v] /\ want'[v] = want[v] /\ todo'[v] = todo[v]
       /\ gate' = v <=> gate = v
  /\ \A n \in LockNames : excl[n] \in Writers \ {w} => excl'[n] = excl[n]
  /\ \A s \in Scopes : jstate'[s] # jstate[s] => Owns(w, s)
  /\ \A s \in Pending' \ Pending :
       gate = w /\ \A p \in Pending' : p # s => p \in Pending /\ ~ConflictsWith(p, s)

LEMMA OthersStayOK ==
  ASSUME LockInv, LockTypes', NEW w \in Writers, StepSeenByOthers(w),
         NEW v \in Writers, v # w
  PROVE  WriterOK(v)'
<1>1. WriterOK(v) /\ pc[v] \in PCs /\ (scope[v] \in UsedScopes => scope[v] \in Scopes)
  BY UsedScopesAssumption DEF LockInv, LockTypes
<1>2. /\ pc'[v] = pc[v] /\ scope'[v] = scope[v]
      /\ found'[v] = found[v] /\ want'[v] = want[v] /\ todo'[v] = todo[v]
      /\ gate' = v <=> gate = v
  BY DEF StepSeenByOthers
<1>3. \A s \in Scopes : \A n \in LocksOf(s) : excl[n] = v => excl'[n] = v
  BY ScopeLocks DEF StepSeenByOthers
<1>4. \A s \in Scopes : Owns(v, s) => Owns(v, s)' /\ jstate'[s] = jstate[s]
  <2>1. ASSUME NEW s \in Scopes, Owns(v, s), Owns(w, s)
        PROVE  FALSE
    BY <2>1, ScopeLocks DEF Owns
  <2>. QED BY <1>3, <2>1 DEF Owns, StepSeenByOthers
<1>5. gate = v => Pending' \subseteq Pending
  BY DEF StepSeenByOthers
<1>6. pc[v] # "idle" => scope[v] \in Scopes
  BY <1>1, UsedScopesAssumption DEF WriterOK
<1>7. found[v] \subseteq Scopes /\ todo[v] \subseteq Scopes
  BY DEF LockInv, LockTypes
<1>8. (pc[v] \in Holding => Owns(v, scope[v]))'
  BY <1>1, <1>2, <1>4, <1>6 DEF WriterOK, Holding, Active
<1>9. (pc[v] = "lock" =>
         /\ ClosedUnderConflict(found[v], scope[v])
         /\ \A s \in found[v] : \A n \in LocksOf(s) : n \in want[v] \/ excl[n] = v)'
  BY <1>1, <1>2, <1>3, <1>5, <1>7 DEF WriterOK, ClosedUnderConflict, Gated
<1>10. (pc[v] \in {"recover", "undo"} =>
         /\ \A s \in todo[v] : Owns(v, s)
         /\ \A p \in Pending : ConflictsWith(p, scope[v]) => p \in todo[v])'
  BY <1>1, <1>2, <1>4, <1>5, <1>7 DEF WriterOK, Gated
<1>11. /\ (pc[v] = "header" => jstate[scope[v]] = "headerless")'
       /\ (pc[v] \in Writing => jstate[scope[v]] = "ready")'
  BY <1>1, <1>2, <1>4, <1>6 DEF WriterOK, Holding, Active, Writing
<1>. QED BY <1>1, <1>2, <1>8, <1>9, <1>10, <1>11 DEF WriterOK

(* So a step keeps the invariant if it looks like one to the others and    *)
(* leaves its own writer in order.                                         *)
LEMMA StepKeepsLockInv ==
  ASSUME LockInv, LockTypes', NEW w \in Writers, StepSeenByOthers(w), WriterOK(w)'
  PROVE  LockInv'
<1>1. \A v \in Writers : WriterOK(v)'
  BY OthersStayOK
<1>2. JournalsDisjoint'
  <2>1. SUFFICES ASSUME NEW s \in Pending', NEW t \in Pending', s # t
                 PROVE  ~ConflictsWith(s, t)
    BY DEF JournalsDisjoint, ConflictsWith
  <2>2. ConflictsWith(s, t) = ConflictsWith(t, s)
    BY DEF ConflictsWith
  <2>. QED BY <2>1, <2>2 DEF StepSeenByOthers, LockInv, JournalsDisjoint
<1>. QED BY <1>1, <1>2 DEF LockInv

-----------------------------------------------------------------------------
(* Three kinds of steps.  A step that only moves its writer on:            *)
LEMMA MoveOn ==
  ASSUME LockInv, NEW w \in Writers, NEW q \in PCs,
         pc' = [pc EXCEPT ![w] = q],
         UNCHANGED <<jstate, excl, gate, found, want, todo, scope>>,
         pc[w] # "idle",
         q \in Gated <=> pc[w] \in Gated,
         q \in Holding => pc[w] \in Holding,
         q \in Writing => pc[w] \in Writing,
         q \in {"lock", "header"} => pc[w] = q,
         q \in {"recover", "undo"} => pc[w] \in {"recover", "undo"} /\ todo[w] # {}
  PROVE  LockInv' /\ StepSeenByOthers(w)
<1>1. pc'[w] = q /\ WriterOK(w) /\ Pending' = Pending
  BY DEF LockInv, LockTypes, Pending
<1>2. LockTypes'
  BY DEF LockInv, LockTypes
<1>3. StepSeenByOthers(w)
  BY <1>1 DEF StepSeenByOthers, LockInv, LockTypes
<1>4. WriterOK(w)'
  BY <1>1 DEF WriterOK, Owns, ClosedUnderConflict
<1>. QED BY <1>2, <1>3, <1>4, StepKeepsLockInv

(* One that ends the transaction, with or without its journal:             *)
LEMMA EndOfTransaction ==
  ASSUME LockInv, NEW w \in Writers, Forget(w), pc' = [pc EXCEPT ![w] = "idle"],
         UNCHANGED jstate \/ (pc[w] \in Holding /\ jstate' = [jstate EXCEPT ![scope[w]] = "none"])
  PROVE  LockInv' /\ StepSeenByOthers(w)
<1>1. /\ pc'[w] = "idle" /\ gate' # w
      /\ WriterOK(w)
      /\ Nobody \notin Writers
  BY ActorsAssumption DEF LockInv, LockTypes, Forget
<1>2. LockTypes'
  BY DEF LockInv, LockTypes, Forget, Unlocked, PCs
<1>3. Pending' \subseteq Pending
  BY DEF Pending, LockInv, LockTypes
<1>4. \A s \in Scopes : jstate'[s] # jstate[s] => Owns(w, s)
  BY <1>1 DEF WriterOK, LockInv, LockTypes
<1>5. StepSeenByOthers(w)
  BY <1>1, <1>3, <1>4 DEF StepSeenByOthers, LockInv, LockTypes, Forget, Unlocked
<1>6. WriterOK(w)'
  BY <1>1 DEF WriterOK, Gated, Holding, Active, Writing
<1>. QED BY <1>2, <1>5, <1>6, StepKeepsLockInv

(* One that meets a lock in use, and begins again or gives up:             *)
LEMMA BusyStep ==
  ASSUME LockInv, NEW w \in Writers, Busy(w), pc[w] # "idle"
  PROVE  LockInv' /\ StepSeenByOthers(w)
<1>1. /\ pc'[w] \in {"preflight", "idle"} /\ gate' # w
      /\ pc'[w] # "idle" => scope'[w] \in UsedScopes
      /\ WriterOK(w)
      /\ Nobody \notin Writers
  BY ActorsAssumption DEF LockInv, LockTypes, Busy, WriterOK
<1>2. LockTypes'
  BY DEF LockInv, LockTypes, Busy, Unlocked, PCs, files
<1>3. UNCHANGED <<jstate, todo>> /\ Pending' = Pending
  BY DEF Pending, Busy, files
<1>4. StepSeenByOthers(w)
  BY <1>1, <1>3 DEF StepSeenByOthers, LockInv, LockTypes, Busy, Unlocked
<1>5. WriterOK(w)'
  BY <1>1 DEF WriterOK, Gated, Holding, Active, Writing
<1>. QED BY <1>2, <1>4, <1>5, StepKeepsLockInv

-----------------------------------------------------------------------------
(* The steps that are of none of these kinds, one by one.                  *)
LEMMA BeginKeeps ==
  ASSUME LockInv, NEW w \in Writers, NEW s \in UsedScopes, Begin(w, s)
  PROVE  LockInv' /\ StepSeenByOthers(w)
<1>1. /\ pc[w] = "idle" /\ pc'[w] = "preflight" /\ scope'[w] = s
      /\ UNCHANGED <<jstate, excl, gate, found, want, todo>>
      /\ WriterOK(w) /\ Pending' = Pending
  BY DEF LockInv, LockTypes, Begin, Goto, files, locks, begin, Pending
<1>2. LockTypes'
  BY <1>1 DEF LockInv, LockTypes, Begin, Goto, PCs
<1>3. StepSeenByOthers(w)
  BY <1>1 DEF StepSeenByOthers, LockInv, LockTypes, Begin, Goto
<1>4. WriterOK(w)'
  BY <1>1 DEF WriterOK, Gated, Holding, Active, Writing
<1>. QED BY <1>2, <1>3, <1>4, StepKeepsLockInv

LEMMA AcquireGateKeeps ==
  ASSUME LockInv, NEW w \in Writers, AcquireGate(w)
  PROVE  LockInv' /\ StepSeenByOthers(w)
<1>1. /\ pc[w] = "gate" /\ pc'[w] = "scan" /\ gate = Nobody /\ gate' = w
      /\ UNCHANGED <<jstate, excl, found, want, todo, scope>>
      /\ WriterOK(w) /\ Pending' = Pending /\ Nobody \notin Writers
  BY ActorsAssumption DEF LockInv, LockTypes, AcquireGate, Goto, files, begin, txn, Pending
<1>2. LockTypes'
  BY <1>1 DEF LockInv, LockTypes, AcquireGate, Goto, PCs
<1>3. StepSeenByOthers(w)
  BY <1>1 DEF StepSeenByOthers, LockInv, LockTypes, AcquireGate, Goto
<1>4. WriterOK(w)'
  BY <1>1 DEF WriterOK, Gated, Holding, Active, Writing
<1>. QED BY <1>2, <1>3, <1>4, StepKeepsLockInv

(* The scan finds a closed set of scopes and wants all their locks.        *)
LEMMA ScanKeeps ==
  ASSUME LockInv, NEW w \in Writers, Scan(w)
  PROVE  LockInv' /\ StepSeenByOthers(w)
<1> DEFINE scopes == OverlappingRecoveryScopes(scope[w])
<1>1. /\ pc[w] = "scan" /\ pc'[w] = "lock"
      /\ found' = [found EXCEPT ![w] = scopes]
      /\ want' = [want EXCEPT ![w] = UNION {LocksOf(s) : s \in scopes}]
      /\ UNCHANGED <<jstate, excl, gate, todo, scope>>
      /\ WriterOK(w) /\ Pending' = Pending
  BY DEF LockInv, LockTypes, Scan, Goto, files, locks, txn, Pending
<1>2. scope[w] \in Scopes
  BY <1>1, UsedScopesAssumption DEF WriterOK
<1>3. ClosedUnderConflict(scopes, scope[w]) /\ scopes \subseteq Scopes
  BY <1>2, RecoveryScopesAreClosed
<1> HIDE DEF scopes
<1>4. UNION {LocksOf(s) : s \in scopes} \subseteq LockNames
  BY <1>3, ScopeLocks
<1>5. LockTypes'
  BY <1>1, <1>3, <1>4 DEF LockInv, LockTypes, Scan, Goto, PCs
<1>6. StepSeenByOthers(w)
  BY <1>1 DEF StepSeenByOthers, LockInv, LockTypes, Scan, Goto
<1>7. found'[w] = scopes /\ want'[w] = UNION {LocksOf(s) : s \in scopes}
  BY <1>1 DEF LockInv, LockTypes
<1>8. ClosedUnderConflict(found[w], scope[w])'
  BY <1>1, <1>3, <1>7 DEF ClosedUnderConflict
<1>9. WriterOK(w)'
  BY <1>1, <1>7, <1>8 DEF WriterOK, Gated, Holding, Active, Writing
<1>. QED BY <1>5, <1>6, <1>9, StepKeepsLockInv

LEMMA LockNextKeeps ==
  ASSUME LockInv, NEW w \in Writers, LockNext(w)
  PROVE  LockInv' /\ StepSeenByOthers(w)
<1> DEFINE n == NextWanted(w)
<1>1. /\ pc[w] = "lock" /\ want[w] # {} /\ excl[n] = Nobody
      /\ excl' = [excl EXCEPT ![n] = w]
      /\ want' = [want EXCEPT ![w] = @ \ {n}]
      /\ UNCHANGED <<jstate, gate, pc, found, todo, scope>>
      /\ WriterOK(w) /\ Pending' = Pending /\ Nobody \notin Writers
  BY ActorsAssumption DEF LockInv, LockNext, LockFree, files, txn, Pending
<1>2. n \in want[w] /\ n \in LockNames
  BY <1>1, NextWantedIsWanted DEF LockInv, LockTypes
<1> HIDE DEF n
<1>3. LockTypes'
  BY <1>1, <1>2 DEF LockInv, LockTypes
<1>4. StepSeenByOthers(w)
  BY <1>1, <1>2 DEF StepSeenByOthers, LockInv, LockTypes
<1>5. want'[w] = want[w] \ {n} /\ excl'[n] = w /\ \A m \in LockNames \ {n} : excl'[m] = excl[m]
  BY <1>1, <1>2 DEF LockInv, LockTypes
<1>6. \A s \in found[w] : LocksOf(s) \subseteq LockNames
  BY ScopeLocks DEF LockInv, LockTypes
<1>7. \A s \in found'[w] : \A m \in LocksOf(s) : m \in want'[w] \/ excl'[m] = w
  BY <1>1, <1>5, <1>6 DEF WriterOK
<1>8. WriterOK(w)'
  BY <1>1, <1>7 DEF WriterOK, ClosedUnderConflict, Gated, Holding, Active, Writing
<1>. QED BY <1>3, <1>4, <1>8, StepKeepsLockInv

(* The second look: the scopes found hold the locks of those to recover.   *)
LEMMA ConfirmKeeps ==
  ASSUME LockInv, NEW w \in Writers, Confirm(w)
  PROVE  LockInv' /\ StepSeenByOthers(w)
<1> DEFINE scopes == OverlappingRecoveryScopes(scope[w])
<1>1. /\ pc[w] = "lock" /\ want[w] = {}
      /\ UNCHANGED <<jstate, found, want, scope>>
      /\ WriterOK(w) /\ Pending' = Pending /\ Nobody \notin Writers
  BY ActorsAssumption DEF LockInv, Confirm, files, txn, Pending
<1>2. scope[w] \in Scopes /\ found[w] \subseteq Scopes
  BY <1>1, UsedScopesAssumption DEF WriterOK, LockInv, LockTypes
<1>3. ClosedUnderConflict(scopes, scope[w])
  BY <1>2, RecoveryScopesAreClosed
<1>4. scopes \subseteq found[w]
  BY <1>1, RecoveryScopesAreLeast DEF WriterOK
<1>5. /\ pc' = [pc EXCEPT ![w] = "recover"]
      /\ todo' = [todo EXCEPT ![w] = scopes]
      /\ UNCHANGED <<excl, gate>>
  BY <1>4 DEF Confirm
<1> HIDE DEF scopes
<1>6. pc'[w] = "recover" /\ todo'[w] = scopes
  BY <1>5 DEF LockInv, LockTypes
<1>7. LockTypes'
  BY <1>1, <1>2, <1>4, <1>5 DEF LockInv, LockTypes, PCs
<1>8. StepSeenByOthers(w)
  BY <1>1, <1>5 DEF StepSeenByOthers, LockInv, LockTypes
<1>9. \A s \in scopes : Owns(w, s)'
  BY <1>1, <1>4, <1>5 DEF WriterOK, Owns
<1>10. \A p \in Pending' : ConflictsWith(p, scope[w]) => p \in scopes
  BY <1>1, <1>3 DEF ClosedUnderConflict
<1>11. scope[w] \in scopes
  BY <1>3 DEF ClosedUnderConflict
<1>12. WriterOK(w)'
  BY <1>1, <1>5, <1>6, <1>9, <1>10, <1>11 DEF WriterOK, Gated, Holding, Active, Writing
<1>. QED BY <1>7, <1>8, <1>12, StepKeepsLockInv

LEMMA RecoverSkipKeeps ==
  ASSUME LockInv, NEW w \in Writers, RecoverSkip(w)
  PROVE  LockInv' /\ StepSeenByOthers(w)
<1> DEFINE s == NextTodo(w)
<1>1. /\ pc[w] = "recover" /\ jstate[s] = "none"
      /\ todo' = [todo EXCEPT ![w] = @ \ {s}]
      /\ UNCHANGED <<jstate, excl, gate, pc, found, want, scope>>
      /\ WriterOK(w) /\ Pending' = Pending
  BY DEF LockInv, RecoverSkip, files, locks, txn, Pending
<1> HIDE DEF s
<1>2. todo'[w] = todo[w] \ {s} /\ s \notin Pending
  BY <1>1 DEF LockInv, LockTypes, Pending
<1>3. LockTypes'
  BY <1>1 DEF LockInv, LockTypes
<1>4. StepSeenByOthers(w)
  BY <1>1 DEF StepSeenByOthers, LockInv, LockTypes
<1>5. WriterOK(w)'
  BY <1>1, <1>2 DEF WriterOK, Owns, ClosedUnderConflict, Gated, Holding, Active, Writing
<1>. QED BY <1>3, <1>4, <1>5, StepKeepsLockInv

LEMMA RecoverRemoveKeeps ==
  ASSUME LockInv, NEW w \in Writers, RecoverRemove(w)
  PROVE  LockInv' /\ StepSeenByOthers(w)
<1> DEFINE s == NextTodo(w)
<1>1. /\ pc[w] = "undo" /\ pc' = [pc EXCEPT ![w] = "recover"]
      /\ jstate' = [jstate EXCEPT ![s] = "none"]
      /\ todo' = [todo EXCEPT ![w] = @ \ {s}]
      /\ UNCHANGED <<excl, gate, found, want, scope>>
      /\ WriterOK(w)
  BY DEF LockInv, RecoverRemove, Goto, NoJournal, locks
<1>2. s \in todo[w] /\ s \in Scopes
  BY <1>1, NextTodoIsToDo DEF LockInv, LockTypes, WriterOK
<1> HIDE DEF s
<1>3. pc'[w] = "recover" /\ todo'[w] = todo[w] \ {s} /\ Pending' = Pending \ {s}
  BY <1>1, <1>2 DEF LockInv, LockTypes, Pending
<1>4. LockTypes'
  BY <1>1 DEF LockInv, LockTypes, PCs
<1>5. Owns(w, s)
  BY <1>1, <1>2 DEF WriterOK
<1>6. StepSeenByOthers(w)
  BY <1>1, <1>2, <1>3, <1>5 DEF StepSeenByOthers, LockInv, LockTypes
<1>7. WriterOK(w)'
  BY <1>1, <1>3 DEF WriterOK, Owns, Gated, Holding, Active, Writing
<1>. QED BY <1>4, <1>6, <1>7, StepKeepsLockInv

(* The new journal conflicts with none: all that did have been recovered.  *)
LEMMA CreateJournalKeeps ==
  ASSUME LockInv, NEW w \in Writers, CreateJournal(w)
  PROVE  LockInv' /\ StepSeenByOthers(w)
<1>1. /\ pc[w] = "recover" /\ pc' = [pc EXCEPT ![w] = "header"] /\ todo[w] = {}
      /\ jstate' = [jstate EXCEPT ![scope[w]] = "headerless"]
      /\ UNCHANGED <<excl, gate, found, want, todo, scope>>
      /\ WriterOK(w)
  BY DEF LockInv, CreateJournal, Goto, locks, begin, txn
<1>2. scope[w] \in Scopes /\ gate = w
  BY <1>1, UsedScopesAssumption DEF WriterOK, Gated
<1>3. pc'[w] = "header" /\ Pending' = Pending \cup {scope[w]} /\ jstate'[scope[w]] = "headerless"
  BY <1>1, <1>2 DEF LockInv, LockTypes, Pending
<1>4. LockTypes'
  BY <1>1 DEF LockInv, LockTypes, PCs
<1>5. Owns(w, scope[w]) /\ \A p \in Pending : ~ConflictsWith(p, scope[w])
  BY <1>1 DEF WriterOK, Holding
<1>6. StepSeenByOthers(w)
  BY <1>1, <1>2, <1>3, <1>5 DEF StepSeenByOthers, LockInv, LockTypes
<1>7. WriterOK(w)'
  BY <1>1, <1>3 DEF WriterOK, Owns, Gated, Holding, Active, Writing
<1>. QED BY <1>4, <1>6, <1>7, StepKeepsLockInv

LEMMA WriteHeaderKeeps ==
  ASSUME LockInv, NEW w \in Writers, WriteHeader(w)
  PROVE  LockInv' /\ StepSeenByOthers(w)
<1>1. /\ pc[w] = "header" /\ pc' = [pc EXCEPT ![w] = "created"]
      /\ jstate' = [jstate EXCEPT ![scope[w]] = "ready"]
      /\ UNCHANGED <<excl, gate, found, want, todo, scope>>
      /\ WriterOK(w)
  BY DEF LockInv, WriteHeader, Goto, locks, begin, txn
<1>2. scope[w] \in Scopes /\ jstate[scope[w]] = "headerless" /\ Owns(w, scope[w])
  BY <1>1, UsedScopesAssumption DEF WriterOK, Holding
<1>3. pc'[w] = "created" /\ Pending' = Pending /\ jstate'[scope[w]] = "ready"
  BY <1>1, <1>2 DEF LockInv, LockTypes, Pending
<1>4. LockTypes'
  BY <1>1 DEF LockInv, LockTypes, PCs
<1>5. StepSeenByOthers(w)
  BY <1>1, <1>2, <1>3 DEF StepSeenByOthers, LockInv, LockTypes
<1>6. WriterOK(w)'
  BY <1>1, <1>3 DEF WriterOK, Owns, Gated, Holding, Active, Writing
<1>. QED BY <1>4, <1>5, <1>6, StepKeepsLockInv

LEMMA OpenKeeps ==
  ASSUME LockInv, NEW w \in Writers, Open(w)
  PROVE  LockInv' /\ StepSeenByOthers(w)
<1>1. /\ pc[w] = "created" /\ pc' = [pc EXCEPT ![w] = "open"]
      /\ gate' = Nobody /\ found' = [found EXCEPT ![w] = {}]
      /\ UNCHANGED <<jstate, excl, want, todo, scope>>
      /\ WriterOK(w) /\ Nobody \notin Writers /\ Pending' = Pending
  BY ActorsAssumption DEF LockInv, Open, Goto, files, txn, Pending
<1>2. pc'[w] = "open" /\ gate = w
  BY <1>1 DEF LockInv, LockTypes, WriterOK, Gated
<1>3. LockTypes'
  BY <1>1 DEF LockInv, LockTypes, PCs
<1>4. StepSeenByOthers(w)
  BY <1>1, <1>2 DEF StepSeenByOthers, LockInv, LockTypes
<1>5. WriterOK(w)'
  BY <1>1, <1>2 DEF WriterOK, Owns, Gated, Holding, Active, Writing
<1>. QED BY <1>3, <1>4, <1>5, StepKeepsLockInv

LEMMA CommitUnlinkKeeps ==
  ASSUME LockInv, NEW w \in Writers, CommitUnlink(w)
  PROVE  LockInv' /\ StepSeenByOthers(w)
<1>1. /\ pc[w] = "unlink" /\ pc' = [pc EXCEPT ![w] = "unlinked"]
      /\ jstate' = [jstate EXCEPT ![scope[w]] = "none"]
      /\ UNCHANGED <<excl, gate, found, want, todo, scope>>
      /\ WriterOK(w)
  BY DEF LockInv, CommitUnlink, Goto, NoJournal, locks, begin, txn
<1>2. pc'[w] = "unlinked" /\ scope[w] \in Scopes /\ Owns(w, scope[w])
  BY <1>1, UsedScopesAssumption DEF LockInv, LockTypes, WriterOK, Holding, Active
<1>3. Pending' \subseteq Pending
  BY <1>1 DEF LockInv, LockTypes, Pending
<1>4. LockTypes'
  BY <1>1 DEF LockInv, LockTypes, PCs
<1>5. StepSeenByOthers(w)
  BY <1>1, <1>2, <1>3 DEF StepSeenByOthers, LockInv, LockTypes
<1>6. WriterOK(w)'
  BY <1>1, <1>2 DEF WriterOK, Owns, Gated, Holding, Active, Writing
<1>. QED BY <1>4, <1>5, <1>6, StepKeepsLockInv

-----------------------------------------------------------------------------
LEMMA LockInvInit == Init => LockInv
<1>. SUFFICES ASSUME Init PROVE LockInv
  OBVIOUS
<1>1. LockTypes
  BY DEF Init, LockTypes, PCs
<1>2. JournalsDisjoint
  BY DEF Init, JournalsDisjoint, Pending
<1>3. \A w \in Writers : WriterOK(w)
  BY ActorsAssumption DEF Init, WriterOK, Gated, Holding, Active, Writing
<1>. QED BY <1>1, <1>2, <1>3 DEF LockInv

(* What the locks and journals are made of stays: readers, stuttering.     *)
LEMMA LockInvFrame ==
  ASSUME LockInv, UNCHANGED <<jstate, excl, gate, pc, found, want, todo, scope>>
  PROVE  LockInv'
BY DEF LockInv, LockTypes, JournalsDisjoint, Pending, WriterOK, Owns, ClosedUnderConflict

LEMMA UnseenStep ==
  ASSUME LockInv, NEW w \in Writers,
         UNCHANGED <<jstate, excl, gate, pc, found, want, todo, scope>>
  PROVE  StepSeenByOthers(w)
BY DEF StepSeenByOthers, Pending

LEMMA BeginStepKeeps ==
  ASSUME LockInv, NEW w \in Writers, BeginStep(w)
  PROVE  LockInv' /\ StepSeenByOthers(w)
<1> USE DEF files, locks, begin, txn, readers
<1>1. CASE Preflight(w)
  BY <1>1, MoveOn DEF Preflight, Goto, Gated, Holding, Active, Writing, PCs
<1>2. CASE PreflightBusy(w)
  BY <1>2, BusyStep DEF PreflightBusy
<1>3. CASE DropPreflight(w)
  BY <1>3, MoveOn DEF DropPreflight, Goto, Gated, Holding, Active, Writing, PCs
<1>4. CASE GateBusy(w)
  BY <1>4, BusyStep DEF GateBusy
<1>5. CASE LockBusy(w)
  BY <1>5, BusyStep DEF LockBusy
<1>6. CASE RecoverRead(w)
  BY <1>6, MoveOn DEF RecoverRead, Goto, Gated, Holding, Active, Writing, PCs
<1>7. CASE RecoverCorrupt(w)
  BY <1>7, EndOfTransaction DEF RecoverCorrupt, Goto
<1>8. CASE UndoEntry(w)
  BY <1>8, LockInvFrame, UnseenStep DEF UndoEntry
<1>. QED BY <1>1, <1>2, <1>3, <1>4, <1>5, <1>6, <1>7, <1>8, AcquireGateKeeps, ScanKeeps,
            LockNextKeeps, ConfirmKeeps, RecoverSkipKeeps, RecoverRemoveKeeps,
            CreateJournalKeeps, WriteHeaderKeeps, OpenKeeps DEF BeginStep

LEMMA WriteStepKeeps ==
  ASSUME LockInv, NEW w \in Writers, WriteStep(w)
  PROVE  LockInv' /\ StepSeenByOthers(w)
<1> USE DEF files, locks, begin, txn, readers
<1>1. ASSUME NEW o, StartWrite(w, o) PROVE LockInv' /\ StepSeenByOthers(w)
  BY <1>1, MoveOn DEF StartWrite, Goto, Gated, Holding, Active, Writing, PCs
<1>2. CASE TrackFile(w)
  BY <1>2, MoveOn DEF TrackFile, Goto, Gated, Holding, Active, Writing, PCs
<1>3. CASE TrackImage(w)
  BY <1>3, MoveOn DEF TrackImage, Goto, Gated, Holding, Active, Writing, PCs
<1>4. CASE Apply(w)
  <2>1. PICK q \in {"rewrite", "open"} : Goto(w, "apply", q)
    BY <1>4 DEF Apply
  <2>. QED BY <1>4, <2>1, MoveOn DEF Apply, Goto, Gated, Holding, Active, Writing, PCs
<1>5. CASE RewriteIndex(w)
  BY <1>5, MoveOn DEF RewriteIndex, Goto, Gated, Holding, Active, Writing, PCs
<1>. QED BY <1>1, <1>2, <1>3, <1>4, <1>5
         DEF WriteStep, StartAppend, StartMerge, StartOverwrite

LEMMA StartAbortKeeps ==
  ASSUME LockInv, NEW w \in Writers, StartAbort(w), pc[w] \in Holding, pc[w] \notin Gated
  PROVE  LockInv' /\ StepSeenByOthers(w)
BY MoveOn DEF StartAbort, Gated, Holding, Active, Writing, PCs, files, locks, begin

LEMMA EndStepKeeps ==
  ASSUME LockInv, NEW w \in Writers, EndStep(w)
  PROVE  LockInv' /\ StepSeenByOthers(w)
<1> USE DEF files, locks, begin, txn, readers
<1>1. CASE CommitSync(w)
  BY <1>1, MoveOn DEF CommitSync, Goto, Gated, Holding, Active, Writing, PCs
<1>2. CASE CommitDone(w)
  BY <1>2, EndOfTransaction DEF CommitDone, Goto
<1>3. CASE Abort(w)
  BY <1>3, StartAbortKeeps DEF Abort, Holding, Active, Gated
<1>4. CASE AbortDone(w)
  BY <1>4, EndOfTransaction DEF AbortDone, Goto, NoJournal, Holding
<1>. QED BY <1>1, <1>2, <1>3, <1>4, CommitUnlinkKeeps DEF EndStep

LEMMA FaultStepKeeps ==
  ASSUME LockInv, NEW w \in Writers, FaultStep(w)
  PROVE  LockInv' /\ StepSeenByOthers(w)
<1> USE DEF files, locks, begin, txn, readers
<1>1. CASE Crash(w)
  BY <1>1, EndOfTransaction DEF Crash
<1>2. CASE FailAndLeave(w)
  BY <1>2, EndOfTransaction DEF FailAndLeave
<1>3. CASE FailAndAbort(w)
  BY <1>3, StartAbortKeeps DEF FailAndAbort, Holding, Active, Gated
<1>4. CASE UnlinkSyncFails(w)
  BY <1>4, StartAbortKeeps DEF UnlinkSyncFails, Holding, Active, Gated
<1>. QED BY <1>1, <1>2, <1>3, <1>4 DEF FaultStep

LEMMA LockInvNext == LockInv /\ [Next]_vars => LockInv'
<1>. SUFFICES ASSUME LockInv, [Next]_vars PROVE LockInv'
  OBVIOUS
<1>1. CASE UNCHANGED vars
  BY <1>1, LockInvFrame DEF vars, files, locks, begin, txn
<1>2. ASSUME NEW r \in Readers, ReadStep(r) PROVE LockInv'
  BY <1>2, LockInvFrame DEF ReadStep, ReadBegin, Read, ReadEnd, files, locks, begin, txn
<1>. QED BY <1>1, <1>2, BeginKeeps, BeginStepKeeps, WriteStepKeeps, EndStepKeeps,
            FaultStepKeeps DEF Next

(* The locks and journals are in order in every state.                     *)
THEOREM LocksAndJournals == Spec => []LockInv
BY LockInvInit, LockInvNext, PTL DEF Spec

-----------------------------------------------------------------------------
(* BinaryDbCommandLockSet: two writers that have their locks never share   *)
(* one, however many begin, recover, fail and die at a time.               *)
THEOREM WritersExclude == Spec => []WriteExclusion
<1>1. LockInv => WriteExclusion
  <2>. SUFFICES ASSUME LockInv, NEW v \in Writers, NEW w \in Writers, v # w,
                       pc[v] \in Holding, pc[w] \in Holding
                PROVE  ~ConflictsWith(scope[v], scope[w])
    BY DEF WriteExclusion
  <2>. QED BY DEF LockInv, WriterOK, Owns, ConflictsWith
<1>. QED BY <1>1, LocksAndJournals, PTL

(* overlapping_recovery_scopes, recover_existing and create_new: pending   *)
(* journals never share a lock, so the order in which they are undone      *)
(* cannot matter.                                                          *)
THEOREM JournalsNeverOverlap == Spec => []JournalsDisjoint
<1>1. LockInv => JournalsDisjoint
  BY DEF LockInv
<1>. QED BY <1>1, LocksAndJournals, PTL

(* create_new never meets a journal of its own scope.                      *)
THEOREM NewJournalIsFresh == Spec => []FreshJournal
<1>1. LockInv => FreshJournal
  <2>. SUFFICES ASSUME LockInv, NEW w \in Writers, pc[w] = "recover", todo[w] = {},
                       jstate[scope[w]] # "none"
                PROVE  FALSE
    BY DEF FreshJournal
  <2>1. WriterOK(w) /\ scope[w] \in Scopes
    BY UsedScopesAssumption DEF LockInv, WriterOK
  <2>2. scope[w] \in Pending /\ ConflictsWith(scope[w], scope[w])
    BY <2>1, ScopeLocks DEF Pending, ConflictsWith
  <2>. QED BY <2>1, <2>2 DEF WriterOK
<1>. QED BY <1>1, LocksAndJournals, PTL

(* try_begin_with_recovery_admission: under the gate no journal appears    *)
(* that the first look missed, so the second look changes nothing.         *)
THEOREM ScanIsStable == Spec => []ScanStaysValid
<1>1. LockInv => ScanStaysValid
  BY RecoveryScopesAreLeast DEF LockInv, WriterOK, ScanStaysValid
<1>. QED BY <1>1, LocksAndJournals, PTL

-----------------------------------------------------------------------------
(* The invariant of the journals' contents.  J is a journal, F the files.  *)

FileEntries == [kind : {"file"}, f : Files, existed : BOOLEAN, len : Nat]
BeforeImages == [kind : {"before"}, f : Files, at : Nat \ {0}, old : Seq(Values)]
JournalEntries == FileEntries \cup BeforeImages

IsFile(e) == e.kind = "file"
IsImage(e) == e.kind = "before"
HasBoundary(J, f) == \E k \in 1 .. Len(J) : IsFile(J[k]) /\ J[k].f = f

(* The entries of a scope's journal are about files of the scope, with one *)
(* boundary per file; one that did not exist had no records.               *)
OneBoundary(J, s) ==
  /\ J \in Seq(JournalEntries)
  /\ \A k \in 1 .. Len(J) : IsFile(J[k]) /\ ~J[k].existed => J[k].len = 0
  /\ \A k \in 1 .. Len(J) : J[k].f \in ScopeFiles(s)
  /\ \A k, m \in 1 .. Len(J) : IsFile(J[k]) /\ IsFile(J[m]) /\ J[k].f = J[m].f => k = m

(* It comes before the file's images, which a file that did not exist has  *)
(* none of, and an index is imaged as a whole.                             *)
BoundaryFirst(J) ==
  \A m \in 1 .. Len(J) : IsImage(J[m]) =>
    \E k \in 1 .. (m - 1) :
      /\ IsFile(J[k]) /\ J[k].f = J[m].f /\ J[k].existed
      /\ J[m].f \in IndexFiles => J[m].at = 1 /\ J[k].len <= Len(J[m].old)

(* No file is shorter than its boundary: truncating to it is possible.     *)
LongEnough(J, F) ==
  \A k \in 1 .. Len(J) : IsFile(J[k]) /\ J[k].existed =>
    F[J[k].f].exists /\ J[k].len <= Len(F[J[k].f].recs)

JournalOK(J, s, F) == OneBoundary(J, s) /\ BoundaryFirst(J) /\ LongEnough(J, F)

(* The entries after position c are undone: a boundary's file has the      *)
(* boundary's length, and a record has the contents of its oldest image    *)
(* among them.                                                             *)
LengthsUndone(J, c, F) ==
  \A k \in (c + 1) .. Len(J) : IsFile(J[k]) =>
    IF J[k].existed THEN Len(F[J[k].f].recs) = J[k].len ELSE F[J[k].f] = Absent

RecordsUndone(J, c, F) ==
  \A k \in (c + 1) .. Len(J) : IsImage(J[k]) =>
    \A i \in 1 .. Len(F[J[k].f].recs) :
      Covers(J[k], J[k].f, i) /\ (\A m \in (c + 1) .. (k - 1) : ~Covers(J[m], J[k].f, i))
        => F[J[k].f].recs[i] = J[k].old[i - J[k].at + 1]

UndoneTo(J, c, F) == LengthsUndone(J, c, F) /\ RecordsUndone(J, c, F)

(* The write a writer performs: it only grows the file and keeps what it   *)
(* does not say it changes; the journal knows the file, and then every     *)
(* record below the boundary that the write may change.                    *)
WriteOps ==
  [kind : {"append"}, f : Files \ IndexFiles, new : Seq(Values)]
    \cup [kind : {"overwrite"}, f : Files \ IndexFiles, at : Nat \ {0}, new : Seq(Values)]
    \cup [kind : {"merge"}, f : IndexFiles, at : {1}, new : Seq(Values)]

MayChange(o, i) == o.kind = "merge" \/ (o.kind = "overwrite" /\ i = o.at)

GrowsFile(o, s, F) ==
  /\ o \in WriteOps /\ o.f \in ScopeFiles(s)
  /\ Len(F[o.f].recs) <= Len(o.new)
  /\ o.kind = "overwrite" => o.at <= Len(F[o.f].recs)
  /\ \A i \in 1 .. Len(F[o.f].recs) : ~MayChange(o, i) => o.new[i] = F[o.f].recs[i]

Protected(o, J) ==
  \A k \in 1 .. Len(J) : IsFile(J[k]) /\ J[k].f = o.f /\ J[k].existed =>
    \A i \in 1 .. J[k].len : MayChange(o, i) => \E m \in 1 .. Len(J) : Covers(J[m], o.f, i)

InTransaction == Writing \cup {"unlinked", "abort"}

(* The entries a writer has in memory are those of the journal it undoes,  *)
(* or of its own; and how far it is in undoing them.                       *)
EntriesOK(w) ==
  /\ pc[w] \notin (InTransaction \ {"created"}) \cup {"undo"} => entries[w] = <<>>
  /\ pc[w] \notin {"undo", "abort"} => cursor[w] = 0
  /\ pc[w] = "undo" => jstate[NextTodo(w)] = "ready" /\ entries[w] = jentries[NextTodo(w)]
  /\ pc[w] \in InTransaction =>
       /\ JournalOK(entries[w], scope[w], file)
       /\ jstate[scope[w]] = "ready" => entries[w] = jentries[scope[w]]
  /\ pc[w] \in {"undo", "abort"} =>
       cursor[w] \in 0 .. Len(entries[w]) /\ UndoneTo(entries[w], cursor[w], file)

(* From the removal of its journal on a writer still keeps all others out. *)
RemovedOK(w) ==
  /\ pc[w] = "unlinked" => jstate[scope[w]] = "none"
  /\ pc[w] = "abort" => jstate[scope[w]] \in {"ready", "none"}
  /\ w \in InMemory => \A p \in Pending : ~ConflictsWith(p, scope[w])

WriteOK(w) ==
  /\ pc[w] \in {"track", "image", "apply", "rewrite"} => GrowsFile(op[w], scope[w], file)
  /\ pc[w] \in {"image", "apply", "rewrite"} => HasBoundary(entries[w], op[w].f)
  /\ pc[w] \in {"apply", "rewrite"} => Protected(op[w], entries[w])
  /\ pc[w] = "rewrite" => /\ op[w].kind = "merge" /\ file[op[w].f].exists
                          /\ Len(op[w].new) = Len(file[op[w].f].recs)

DataTypes ==
  /\ file \in [Files -> Content]
  /\ jentries \in [Scopes -> Seq(JournalEntries)]
  /\ entries \in [Writers -> Seq(JournalEntries)]
  /\ cursor \in [Writers -> Nat]
  /\ faults \in 0 .. MaxFaults
  /\ DOMAIN op = Writers

DataInv ==
  /\ DataTypes
  /\ \A s \in Scopes : JournalOK(jentries[s], s, file) /\ (jstate[s] # "ready" => jentries[s] = <<>>)
  /\ \A w \in Writers : EntriesOK(w) /\ RemovedOK(w) /\ WriteOK(w)

-----------------------------------------------------------------------------
(* Entries and journals.                                                   *)
LEMMA EntryFields ==
  ASSUME NEW e \in JournalEntries
  PROVE  /\ e.f \in Files
         /\ IsFile(e) \/ IsImage(e)
         /\ ~(IsFile(e) /\ IsImage(e))
         /\ IsFile(e) => e.existed \in BOOLEAN /\ e.len \in Nat
         /\ IsImage(e) => e.at \in Nat \ {0} /\ e.old \in Seq(Values)
         /\ \A f, i : Covers(e, f, i) =>
              /\ IsImage(e) /\ e.f = f /\ i \in Nat /\ i > 0
              /\ i - e.at + 1 \in 1 .. Len(e.old)
<1>1. CASE e \in FileEntries
  BY <1>1 DEF FileEntries, IsFile, IsImage, Covers
<1>2. CASE e \in BeforeImages
  <2>1. e.f \in Files /\ IsImage(e) /\ ~IsFile(e) /\ e.at \in Nat \ {0} /\ e.old \in Seq(Values)
    BY <1>2 DEF BeforeImages, IsFile, IsImage
  <2>2. Len(e.old) \in Nat
    BY <2>1
  <2>. QED BY <2>1, <2>2 DEF Covers
<1>. QED BY <1>1, <1>2 DEF JournalEntries

LEMMA ContentFields ==
  ASSUME NEW c \in Content
  PROVE  /\ c.exists \in BOOLEAN /\ c.recs \in Seq(Values) /\ Len(c.recs) \in Nat
         /\ ~c.exists => c = Absent
         /\ c.exists => c = [exists |-> TRUE, recs |-> c.recs]
<1>1. CASE c \in [exists : {TRUE}, recs : Seq(Values)]
  <2>1. c = [exists |-> c.exists, recs |-> c.recs]
    BY <1>1
  <2>2. c.exists = TRUE /\ c.recs \in Seq(Values)
    BY <1>1
  <2>3. Len(c.recs) \in Nat
    BY <2>2
  <2>. QED BY <2>1, <2>2, <2>3, Zenon
<1>2. CASE c = Absent
  BY <1>2 DEF Absent
<1>. QED BY <1>1, <1>2 DEF Content

LEMMA FileEntryOfContent ==
  ASSUME NEW f \in Files, NEW c \in Content
  PROVE  /\ FileEntry(f, c) \in JournalEntries /\ IsFile(FileEntry(f, c))
         /\ FileEntry(f, c).f = f
         /\ FileEntry(f, c).existed = c.exists /\ FileEntry(f, c).len = Len(c.recs)
BY ContentFields DEF FileEntry, JournalEntries, FileEntries, IsFile

LEMMA BeforeImageOfRecords ==
  ASSUME NEW f \in Files, NEW i \in Nat \ {0}, NEW old \in Seq(Values)
  PROVE  /\ BeforeImage(f, i, old) \in JournalEntries /\ IsImage(BeforeImage(f, i, old))
         /\ BeforeImage(f, i, old).f = f
         /\ BeforeImage(f, i, old).at = i /\ BeforeImage(f, i, old).old = old
BY DEF BeforeImage, JournalEntries, BeforeImages, IsImage

LEMMA EmptyJournal ==
  ASSUME NEW s, NEW F
  PROVE  JournalOK(<<>>, s, F) /\ \A c \in Nat : UndoneTo(<<>>, c, F)
BY DEF JournalOK, OneBoundary, BoundaryFirst, LongEnough, UndoneTo, LengthsUndone, RecordsUndone

(* A journal is still good, and undone as far, if its scope's files stay.  *)
LEMMA JournalFrame ==
  ASSUME NEW J, NEW s, NEW F, NEW G, JournalOK(J, s, F),
         \A f \in ScopeFiles(s) : G[f] = F[f]
  PROVE  /\ JournalOK(J, s, G)
         /\ \A c \in Nat : UndoneTo(J, c, F) => UndoneTo(J, c, G)
<1>1. \A k \in 1 .. Len(J) : G[J[k].f] = F[J[k].f]
  BY DEF JournalOK, OneBoundary
<1>2. Len(J) \in Nat
  BY DEF JournalOK, OneBoundary
<1>3. LongEnough(J, G)
  BY <1>1 DEF JournalOK, LongEnough
<1>4. ASSUME NEW c \in Nat, UndoneTo(J, c, F) PROVE UndoneTo(J, c, G)
  <2>1. \A k \in (c + 1) .. Len(J) : k \in 1 .. Len(J)
    BY <1>2
  <2>. QED BY <1>1, <1>4, <2>1 DEF UndoneTo, LengthsUndone, RecordsUndone
<1>. QED BY <1>3, <1>4 DEF JournalOK

(* Of a file that only grows, too.                                         *)
LEMMA JournalOfGrownFile ==
  ASSUME NEW J, NEW s, NEW F, NEW G, JournalOK(J, s, F),
         F \in [Files -> Content], G \in [Files -> Content],
         \A f \in ScopeFiles(s) :
           G[f] = F[f] \/ (G[f].exists /\ Len(F[f].recs) <= Len(G[f].recs))
  PROVE  JournalOK(J, s, G)
<1>1. ASSUME NEW k \in 1 .. Len(J), IsFile(J[k]), J[k].existed
      PROVE  G[J[k].f].exists /\ J[k].len <= Len(G[J[k].f].recs)
  <2>1. J[k] \in JournalEntries /\ J[k].f \in ScopeFiles(s) /\ J[k].f \in Files
    BY EntryFields DEF JournalOK, OneBoundary
  <2>2. J[k].len \in Nat /\ Len(F[J[k].f].recs) \in Nat /\ Len(G[J[k].f].recs) \in Nat
    BY <1>1, <2>1, EntryFields, ContentFields
  <2>3. F[J[k].f].exists /\ J[k].len <= Len(F[J[k].f].recs)
    BY <1>1 DEF JournalOK, LongEnough
  <2>. QED BY <2>1, <2>2, <2>3
<1>. QED BY <1>1 DEF JournalOK, LongEnough

(* Appending an entry: the old ones keep their place.                      *)
LEMMA Appended ==
  ASSUME NEW J \in Seq(JournalEntries), NEW e \in JournalEntries
  PROVE  /\ Append(J, e) \in Seq(JournalEntries)
         /\ Len(J) \in Nat /\ Len(Append(J, e)) = Len(J) + 1
         /\ \A k \in 1 .. Len(J) : Append(J, e)[k] = J[k] /\ k \in 1 .. Len(Append(J, e))
         /\ Append(J, e)[Len(J) + 1] = e
         /\ \A k \in 1 .. Len(Append(J, e)) : k \in 1 .. Len(J) \/ k = Len(J) + 1
OBVIOUS

(* The boundary of a file that has none.                                   *)
LEMMA AppendBoundary ==
  ASSUME NEW J, NEW s, NEW F \in [Files -> Content], JournalOK(J, s, F),
         NEW f \in ScopeFiles(s), ~HasBoundary(J, f)
  PROVE  JournalOK(Append(J, FileEntry(f, F[f])), s, F)
<1> DEFINE e == FileEntry(f, F[f])
           K == Append(J, e)
<1>0. ~F[f].exists => Len(F[f].recs) = 0
  BY ContentFields DEF ScopeFiles, Absent
<1>1. f \in Files /\ F[f] \in Content /\ J \in Seq(JournalEntries)
  BY DEF ScopeFiles, JournalOK, OneBoundary
<1>2. /\ e \in JournalEntries /\ IsFile(e) /\ ~IsImage(e) /\ e.f = f
      /\ e.existed = F[f].exists /\ e.len = Len(F[f].recs) /\ e.len \in Nat
  BY <1>1, FileEntryOfContent, EntryFields, ContentFields
<1> HIDE DEF e
<1>3. /\ K \in Seq(JournalEntries) /\ Len(J) \in Nat /\ Len(K) = Len(J) + 1
      /\ \A k \in 1 .. Len(J) : K[k] = J[k] /\ k \in 1 .. Len(K)
      /\ K[Len(J) + 1] = e
      /\ \A k \in 1 .. Len(K) : k \in 1 .. Len(J) \/ k = Len(J) + 1
  BY <1>1, <1>2, Appended
<1> HIDE DEF K
<1>4. OneBoundary(K, s)
  BY <1>0, <1>2, <1>3 DEF JournalOK, OneBoundary, HasBoundary
<1>5. BoundaryFirst(K)
  <2>. SUFFICES ASSUME NEW m \in 1 .. Len(K), IsImage(K[m])
                PROVE  \E k \in 1 .. (m - 1) :
                         /\ IsFile(K[k]) /\ K[k].f = K[m].f /\ K[k].existed
                         /\ K[m].f \in IndexFiles => K[m].at = 1 /\ K[k].len <= Len(K[m].old)
    BY DEF BoundaryFirst
  <2>1. m \in 1 .. Len(J) /\ K[m] = J[m]
    BY <1>2, <1>3
  <2>2. \A k \in 1 .. (m - 1) : K[k] = J[k]
    BY <1>3, <2>1
  <2>. QED BY <2>1, <2>2 DEF JournalOK, BoundaryFirst
<1>6. LongEnough(K, F)
  BY <1>2, <1>3 DEF JournalOK, LongEnough
<1>. QED BY <1>4, <1>5, <1>6 DEF JournalOK, K, e

(* An image of a file whose boundary is there.                             *)
LEMMA AppendImage ==
  ASSUME NEW J, NEW s, NEW F, JournalOK(J, s, F),
         NEW b \in 1 .. Len(J), IsFile(J[b]), J[b].existed,
         NEW i \in Nat \ {0}, NEW old \in Seq(Values),
         J[b].f \in IndexFiles => i = 1 /\ J[b].len <= Len(old)
  PROVE  JournalOK(Append(J, BeforeImage(J[b].f, i, old)), s, F)
<1> DEFINE f == J[b].f
           e == BeforeImage(f, i, old)
           K == Append(J, e)
<1>1. f \in Files /\ f \in ScopeFiles(s) /\ J \in Seq(JournalEntries)
  BY DEF ScopeFiles, JournalOK, OneBoundary
<1>2. /\ e \in JournalEntries /\ ~IsFile(e) /\ IsImage(e) /\ e.f = f
      /\ e.at = i /\ e.old = old
  BY <1>1, BeforeImageOfRecords, EntryFields
<1> HIDE DEF e
<1>3. /\ K \in Seq(JournalEntries) /\ Len(J) \in Nat /\ Len(K) = Len(J) + 1
      /\ \A k \in 1 .. Len(J) : K[k] = J[k] /\ k \in 1 .. Len(K)
      /\ K[Len(J) + 1] = e
      /\ \A k \in 1 .. Len(K) : k \in 1 .. Len(J) \/ k = Len(J) + 1
  BY <1>1, <1>2, Appended
<1> HIDE DEF K
<1>4. OneBoundary(K, s)
  BY <1>1, <1>2, <1>3 DEF JournalOK, OneBoundary
<1>5. BoundaryFirst(K)
  <2>. SUFFICES ASSUME NEW m \in 1 .. Len(K), IsImage(K[m])
                PROVE  \E k \in 1 .. (m - 1) :
                         /\ IsFile(K[k]) /\ K[k].f = K[m].f /\ K[k].existed
                         /\ K[m].f \in IndexFiles => K[m].at = 1 /\ K[k].len <= Len(K[m].old)
    BY DEF BoundaryFirst
  <2>1. CASE m = Len(J) + 1
    <3>1. b \in 1 .. (m - 1) /\ K[b] = J[b]
      BY <1>3, <2>1
    <3>. QED BY <1>2, <1>3, <2>1, <3>1
  <2>2. CASE m \in 1 .. Len(J)
    <3>1. \A k \in 1 .. (m - 1) : K[k] = J[k]
      BY <1>3, <2>2
    <3>. QED BY <1>3, <2>2, <3>1 DEF JournalOK, BoundaryFirst
  <2>. QED BY <1>3, <2>1, <2>2
<1>6. LongEnough(K, F)
  BY <1>2, <1>3 DEF JournalOK, LongEnough
<1>. QED BY <1>4, <1>5, <1>6 DEF JournalOK, K, e

(* Undoing an entry of a file that is there, or was not.                   *)
LEMMA UndoneContent ==
  ASSUME NEW e \in JournalEntries, NEW c \in Content,
         IsFile(e) /\ e.existed => c.exists /\ e.len <= Len(c.recs)
  PROVE  /\ Undone(e, c) \in Content
         /\ IsImage(e) =>
              /\ Undone(e, c).exists = c.exists /\ Len(Undone(e, c).recs) = Len(c.recs)
              /\ \A i \in 1 .. Len(c.recs) :
                   Undone(e, c).recs[i] =
                     IF Covers(e, e.f, i) THEN e.old[i - e.at + 1] ELSE c.recs[i]
         /\ IsFile(e) /\ e.existed =>
              /\ Undone(e, c).exists /\ Len(Undone(e, c).recs) = e.len
              /\ \A i \in 1 .. e.len : Undone(e, c).recs[i] = c.recs[i]
         /\ IsFile(e) /\ ~e.existed => Undone(e, c) = Absent
<1>1. /\ c.exists \in BOOLEAN /\ c.recs \in Seq(Values) /\ Len(c.recs) \in Nat
      /\ ~c.exists => c = Absent
      /\ c.exists => c = [exists |-> TRUE, recs |-> c.recs]
  BY ContentFields
<1>2. CASE IsImage(e)
  <2> DEFINE R == [i \in 1 .. Len(c.recs) |->
                     IF Covers(e, e.f, i) THEN e.old[i - e.at + 1] ELSE c.recs[i]]
  <2>1. DOMAIN c.recs = 1 .. Len(c.recs)
    BY <1>1
  <2>2. Undone(e, c) = [c EXCEPT !.recs = R]
    BY <1>2, <2>1 DEF Undone, IsImage
  <2>3. \A i \in 1 .. Len(c.recs) : R[i] \in Values
    BY <1>1, EntryFields
  <2>4. R \in Seq(Values) /\ Len(R) = Len(c.recs)
    <3>1. R \in [1 .. Len(c.recs) -> Values]
      BY <2>3
    <3> HIDE DEF R
    <3>. QED BY <1>1, <3>1
  <2>5. \A i \in 1 .. Len(c.recs) : R[i] =
          IF Covers(e, e.f, i) THEN e.old[i - e.at + 1] ELSE c.recs[i]
    OBVIOUS
  <2> HIDE DEF R
  <2>6. CASE c.exists
    BY <1>1, <1>2, <2>2, <2>4, <2>5, <2>6, EntryFields DEF Content
  <2>7. CASE ~c.exists
    <3>1. c = [exists |-> FALSE, recs |-> <<>>]
      BY <1>1, <2>7 DEF Absent
    <3>2. R = <<>>
      BY <2>4, <3>1
    <3>3. Undone(e, c) = Absent
      BY <2>2, <3>1, <3>2 DEF Absent
    <3>4. Undone(e, c) \in Content
      BY <3>3 DEF Content
    <3>5. Undone(e, c).exists = c.exists /\ Undone(e, c).recs = c.recs /\ c.recs = <<>>
      BY <3>1, <3>3 DEF Absent
    <3>6. \A i \in 1 .. Len(c.recs) : FALSE
      BY <3>5
    <3>. QED BY <1>2, <3>4, <3>5, <3>6, EntryFields
  <2>. QED BY <1>1, <2>6, <2>7
<1>3. CASE IsFile(e) /\ e.existed
  <2>1. Undone(e, c) = [c EXCEPT !.recs = SubSeq(c.recs, 1, e.len)]
    BY <1>3 DEF Undone, IsFile
  <2>2. c = [exists |-> TRUE, recs |-> c.recs] /\ e.len \in Nat /\ e.len <= Len(c.recs)
    BY <1>1, <1>3, EntryFields
  <2>3. /\ SubSeq(c.recs, 1, e.len) \in Seq(Values)
        /\ Len(SubSeq(c.recs, 1, e.len)) = e.len
        /\ \A i \in 1 .. e.len : SubSeq(c.recs, 1, e.len)[i] = c.recs[i]
    BY <1>1, <2>2
  <2> DEFINE R == SubSeq(c.recs, 1, e.len)
  <2> HIDE DEF R
  <2>4. Undone(e, c) = [c EXCEPT !.recs = R]
    BY <2>1 DEF R
  <2>5. /\ R \in Seq(Values) /\ Len(R) = e.len
        /\ \A i \in 1 .. e.len : R[i] = c.recs[i]
    BY <2>3 DEF R
  <2>6. c \in [exists : {TRUE}, recs : Seq(Values)]
    <3>1. c.exists
      BY <1>3
    <3>2. ~Absent.exists
      BY DEF Absent
    <3>. QED BY <3>1, <3>2, Zenon DEF Content
  <2>7. Undone(e, c) \in [exists : {TRUE}, recs : Seq(Values)] /\ Undone(e, c).recs = R
    BY <2>4, <2>5, <2>6
  <2>8. Undone(e, c) \in Content /\ Undone(e, c).exists
    BY <2>7 DEF Content
  <2>. QED BY <1>3, <2>5, <2>7, <2>8, EntryFields
<1>4. CASE IsFile(e) /\ ~e.existed
  BY <1>4, EntryFields DEF Undone, IsFile, Content
<1>. QED BY <1>2, <1>3, <1>4, EntryFields

(* rollback_entries, one step: the journal stays good and one more entry   *)
(* is undone.                                                              *)
UndoneFiles(J, c, F) == [F EXCEPT ![J[c].f] = Undone(J[c], @)]

LEMMA UndoStep ==
  ASSUME NEW J, NEW s, NEW F \in [Files -> Content], JournalOK(J, s, F),
         NEW c \in 1 .. Len(J), UndoneTo(J, c, F), NEW G,
         G = UndoneFiles(J, c, F)
  PROVE  /\ G \in [Files -> Content]
         /\ \A f \in Files : f # J[c].f => G[f] = F[f]
         /\ JournalOK(J, s, G) /\ UndoneTo(J, c - 1, G)
<1> DEFINE e == J[c]
           f == e.f
<1>1. J \in Seq(JournalEntries) /\ Len(J) \in Nat /\ e \in JournalEntries /\ f \in Files
  BY EntryFields DEF JournalOK, OneBoundary
<1>2. F[f] \in Content /\ (IsFile(e) /\ e.existed => F[f].exists /\ e.len <= Len(F[f].recs))
  BY <1>1 DEF JournalOK, LongEnough
<1>3. G[f] = Undone(e, F[f]) /\ \A g \in Files : g # f => G[g] = F[g]
  BY <1>1 DEF UndoneFiles
<1>4. Undone(e, F[f]) \in Content
  BY <1>1, <1>2, UndoneContent
<1>5. G \in [Files -> Content]
  BY <1>1, <1>4 DEF UndoneFiles
<1>6. \A k \in 1 .. Len(J) : J[k] \in JournalEntries /\ J[k].f \in Files
  BY <1>1, EntryFields
<1>7. LongEnough(J, G)
  <2>. SUFFICES ASSUME NEW k \in 1 .. Len(J), IsFile(J[k]), J[k].existed
                PROVE  G[J[k].f].exists /\ J[k].len <= Len(G[J[k].f].recs)
    BY DEF LongEnough
  <2>1. F[J[k].f].exists /\ J[k].len <= Len(F[J[k].f].recs) /\ J[k].len \in Nat
    BY <1>6, EntryFields DEF JournalOK, LongEnough
  <2>2. CASE J[k].f # f
    BY <1>3, <1>6, <2>1, <2>2
  <2>3. CASE J[k].f = f /\ IsFile(e)
    <3>1. k = c
      BY <2>3 DEF JournalOK, OneBoundary
    <3>. QED BY <1>1, <1>2, <1>3, <2>1, <2>3, <3>1, UndoneContent
  <2>4. CASE J[k].f = f /\ IsImage(e)
    BY <1>1, <1>2, <1>3, <2>1, <2>4, UndoneContent
  <2>. QED BY <1>1, <2>2, <2>3, <2>4, EntryFields
<1>8. JournalOK(J, s, G)
  BY <1>7 DEF JournalOK
(* An undone boundary of the same file would be before this entry.         *)
<1>9. \A k \in (c + 1) .. Len(J) : k \in 1 .. Len(J) /\ (IsFile(J[k]) => J[k].f # f)
  <2>. SUFFICES ASSUME NEW k \in (c + 1) .. Len(J), IsFile(J[k]), J[k].f = f
                PROVE  FALSE
    BY <1>1
  <2>1. k \in 1 .. Len(J) /\ k > c
    BY <1>1
  <2>2. CASE IsFile(e)
    BY <2>1, <2>2 DEF JournalOK, OneBoundary
  <2>3. CASE IsImage(e)
    <3>1. PICK m \in 1 .. (c - 1) : IsFile(J[m]) /\ J[m].f = f
      BY <2>3 DEF JournalOK, BoundaryFirst
    <3>2. m \in 1 .. Len(J) /\ m < c
      BY <1>1, <3>1
    <3>3. m = k
      BY <2>1, <3>1, <3>2 DEF JournalOK, OneBoundary
    <3>. QED BY <1>1, <2>1, <3>2, <3>3
  <2>. QED BY <1>1, <2>2, <2>3, EntryFields
<1>10. \A k \in ((c - 1) + 1) .. Len(J) : k = c \/ k \in (c + 1) .. Len(J)
  BY <1>1
<1>11. LengthsUndone(J, c - 1, G)
  <2>. SUFFICES ASSUME NEW k \in ((c - 1) + 1) .. Len(J), IsFile(J[k])
                PROVE  IF J[k].existed THEN Len(G[J[k].f].recs) = J[k].len
                       ELSE G[J[k].f] = Absent
    BY DEF LengthsUndone
  <2>1. CASE k = c
    BY <1>1, <1>2, <1>3, <2>1, UndoneContent
  <2>2. CASE k \in (c + 1) .. Len(J)
    BY <1>3, <1>6, <1>9, <2>2 DEF UndoneTo, LengthsUndone
  <2>. QED BY <1>10, <2>1, <2>2
<1>12. RecordsUndone(J, c - 1, G)
  <2>. SUFFICES ASSUME NEW k \in ((c - 1) + 1) .. Len(J), IsImage(J[k]),
                       NEW i \in 1 .. Len(G[J[k].f].recs), Covers(J[k], J[k].f, i),
                       \A m \in ((c - 1) + 1) .. (k - 1) : ~Covers(J[m], J[k].f, i)
                PROVE  G[J[k].f].recs[i] = J[k].old[i - J[k].at + 1]
    BY DEF RecordsUndone
  <2>1. CASE k = c
    <3>1. Len(G[f].recs) = Len(F[f].recs)
      BY <1>1, <1>2, <1>3, <2>1, UndoneContent
    <3>2. i \in 1 .. Len(F[f].recs)
      BY <2>1, <3>1
    <3>. QED BY <1>1, <1>2, <1>3, <2>1, <3>2, UndoneContent
  <2>2. CASE k \in (c + 1) .. Len(J)
    <3>1. \A m \in (c + 1) .. (k - 1) : ~Covers(J[m], J[k].f, i)
      BY <1>1, <2>2
    <3>2. ~Covers(J[c], J[k].f, i)
      BY <1>1, <2>2
    <3>3. CASE J[k].f # f
      BY <1>3, <1>6, <1>9, <2>2, <3>1, <3>3 DEF UndoneTo, RecordsUndone
    <3>4. CASE J[k].f = f /\ IsImage(e)
      <4>1. i \in 1 .. Len(F[f].recs) /\ G[f].recs[i] = F[f].recs[i]
        BY <1>1, <1>2, <1>3, <3>2, <3>4, UndoneContent
      <4>. QED BY <2>2, <3>1, <3>4, <4>1 DEF UndoneTo, RecordsUndone
    <3>5. CASE J[k].f = f /\ IsFile(e)
      <4>1. k \in 1 .. Len(J) /\ k > c
        BY <1>1, <2>2
      <4>2. PICK m \in 1 .. (k - 1) : IsFile(J[m]) /\ J[m].f = f /\ J[m].existed
        BY <3>5, <4>1 DEF JournalOK, BoundaryFirst
      <4>3. m = c
        BY <1>1, <3>5, <4>1, <4>2 DEF JournalOK, OneBoundary
      <4>4. e.len \in Nat /\ Len(F[f].recs) \in Nat /\ Len(G[f].recs) = e.len
        BY <1>1, <1>2, <1>3, <3>5, <4>2, <4>3, UndoneContent, EntryFields, ContentFields
      <4>5. i \in 1 .. Len(F[f].recs) /\ G[f].recs[i] = F[f].recs[i]
        BY <1>1, <1>2, <1>3, <3>5, <4>2, <4>3, <4>4, UndoneContent
      <4>. QED BY <2>2, <3>1, <3>5, <4>5 DEF UndoneTo, RecordsUndone
    <3>. QED BY <1>1, <3>3, <3>4, <3>5, EntryFields
  <2>. QED BY <1>10, <2>1, <2>2
<1>. QED BY <1>3, <1>5, <1>8, <1>11, <1>12 DEF UndoneTo

-----------------------------------------------------------------------------
(* Writes.                                                                 *)

(* A merge keeps the number of rows or adds one.                           *)
LEMMA MergedRowsGrow ==
  ASSUME NEW rows \in Seq(Values), NEW v \in Values
  PROVE  MergedRows(rows, v) \in Seq(Values) /\ Len(rows) <= Len(MergedRows(rows, v))
<1> DEFINE n == Len(rows)
           below == {i \in DOMAIN rows : rows[i] < v}
           k == Cardinality(below)
<1>1. n \in Nat /\ DOMAIN rows = 1 .. n
  OBVIOUS
<1>2. IsFiniteSet(1 .. n) /\ Cardinality(1 .. n) = n
  BY <1>1, FS_Interval
<1>3. below \subseteq 1 .. n
  BY <1>1
<1>4. k \in Nat /\ k <= n
  BY <1>2, <1>3, FS_Subset, FS_CardinalityType
<1> HIDE DEF k, n
<1> DEFINE L == SubSeq(rows, 1, k)
           R == SubSeq(rows, k + 1, n)
<1>5. L \in Seq(Values) /\ Len(L) = k
  BY <1>1, <1>4 DEF n
<1>6. R \in Seq(Values) /\ Len(R) = n - k
  <2>1. \A i \in (k + 1) .. n : rows[i] \in Values
    BY <1>1, <1>4
  <2>2. R \in Seq(Values) /\ Len(R) = IF k + 1 <= n THEN n - (k + 1) + 1 ELSE 0
    BY <1>1, <1>4, <2>1, SubSeqProperties
  <2> HIDE DEF R
  <2>. QED BY <1>1, <1>4, <2>2
<1>7. <<v>> \in Seq(Values) /\ Len(<<v>>) = 1
  OBVIOUS
<1>8. (L \o <<v>>) \o R \in Seq(Values) /\ Len((L \o <<v>>) \o R) = n + 1
  <2> HIDE DEF L, R
  <2> DEFINE one == <<v>>
  <2>1. one \in Seq(Values) /\ Len(one) = 1
    BY <1>7
  <2> HIDE DEF one
  <2>2. L \o one \in Seq(Values) /\ Len(L \o one) = Len(L) + Len(one)
    BY <1>5, <2>1, ConcatProperties, Zenon
  <2>3. (L \o one) \o R \in Seq(Values) /\ Len((L \o one) \o R) = Len(L \o one) + Len(R)
    BY <1>6, <2>2, ConcatProperties, Zenon
  <2>4. Len((L \o one) \o R) = (k + 1) + (n - k)
    BY <1>5, <1>6, <2>1, <2>2, <2>3
  <2>. QED BY <1>1, <1>4, <2>3, <2>4 DEF one
<1>9. MergedRows(rows, v) = IF \E i \in DOMAIN rows : rows[i] = v THEN rows ELSE (L \o <<v>>) \o R
  BY DEF MergedRows, k, n
<1> HIDE DEF L, R
<1>. QED BY <1>1, <1>8, <1>9 DEF n

(* The three kinds of writes, as they start.                               *)
LEMMA AppendGrows ==
  ASSUME NEW F \in [Files -> Content], NEW s, NEW f \in ScopeFiles(s), f \notin IndexFiles,
         NEW v \in Values
  PROVE  GrowsFile([kind |-> "append", f |-> f, new |-> Append(F[f].recs, v)], s, F)
<1> DEFINE new == Append(F[f].recs, v)
<1>1. f \in Files /\ F[f].recs \in Seq(Values) /\ Len(F[f].recs) \in Nat
  BY ContentFields DEF ScopeFiles
<1>2. /\ new \in Seq(Values) /\ Len(F[f].recs) <= Len(new)
      /\ \A i \in 1 .. Len(F[f].recs) : new[i] = F[f].recs[i]
  BY <1>1
<1> HIDE DEF new
<1> DEFINE o == [kind |-> "append", f |-> f, new |-> new]
<1>3. o \in WriteOps /\ o.f = f /\ o.new = new /\ o.kind = "append"
  BY <1>1, <1>2 DEF WriteOps
<1> HIDE DEF o
<1>4. GrowsFile(o, s, F)
  BY <1>2, <1>3 DEF GrowsFile
<1>. QED BY <1>4 DEF o, new

LEMMA OverwriteGrows ==
  ASSUME NEW F \in [Files -> Content], NEW s, NEW f \in ScopeFiles(s), f \notin IndexFiles,
         NEW v \in Values, NEW i \in 1 .. Len(F[f].recs)
  PROVE  GrowsFile([kind |-> "overwrite", f |-> f, at |-> i, new |-> [F[f].recs EXCEPT ![i] = v]],
                   s, F)
<1> DEFINE new == [F[f].recs EXCEPT ![i] = v]
<1>1. f \in Files /\ F[f].recs \in Seq(Values) /\ Len(F[f].recs) \in Nat
  BY ContentFields DEF ScopeFiles
<1>2. /\ new \in Seq(Values) /\ Len(F[f].recs) = Len(new)
      /\ \A j \in 1 .. Len(F[f].recs) : j # i => new[j] = F[f].recs[j]
  BY <1>1
<1> HIDE DEF new
<1> DEFINE o == [kind |-> "overwrite", f |-> f, at |-> i, new |-> new]
<1>3. o \in WriteOps /\ o.f = f /\ o.new = new /\ o.kind = "overwrite" /\ o.at = i
  BY <1>1, <1>2 DEF WriteOps
<1> HIDE DEF o
<1>4. GrowsFile(o, s, F)
  BY <1>1, <1>2, <1>3 DEF GrowsFile, MayChange
<1>. QED BY <1>4 DEF o, new

LEMMA MergeGrows ==
  ASSUME NEW F \in [Files -> Content], NEW s, NEW f \in ScopeFiles(s), f \in IndexFiles,
         NEW v \in Values
  PROVE  GrowsFile([kind |-> "merge", f |-> f, at |-> 1, new |-> MergedRows(F[f].recs, v)], s, F)
<1> DEFINE new == MergedRows(F[f].recs, v)
<1>1. f \in Files /\ F[f].recs \in Seq(Values) /\ Len(F[f].recs) \in Nat
  BY ContentFields DEF ScopeFiles
<1>2. new \in Seq(Values) /\ Len(F[f].recs) <= Len(new)
  BY <1>1, MergedRowsGrow
<1> HIDE DEF new
<1> DEFINE o == [kind |-> "merge", f |-> f, at |-> 1, new |-> new]
<1>3. o \in WriteOps /\ o.f = f /\ o.new = new /\ o.kind = "merge"
  BY <1>1, <1>2 DEF WriteOps
<1> HIDE DEF o
<1>4. GrowsFile(o, s, F)
  BY <1>2, <1>3 DEF GrowsFile, MayChange
<1>. QED BY <1>4 DEF o, new

LEMMA WriteOpFields ==
  ASSUME NEW o \in WriteOps
  PROVE  /\ o.f \in Files /\ o.new \in Seq(Values) /\ Len(o.new) \in Nat
         /\ o.kind \in {"append", "overwrite", "merge"}
         /\ o.kind = "merge" <=> o.f \in IndexFiles
         /\ o.kind # "append" => o.at \in Nat \ {0}
         /\ o.kind = "merge" => o.at = 1
<1>1. CASE o \in [kind : {"append"}, f : Files \ IndexFiles, new : Seq(Values)]
  BY <1>1
<1>2. CASE o \in [kind : {"overwrite"}, f : Files \ IndexFiles, at : Nat \ {0}, new : Seq(Values)]
  BY <1>2
<1>3. CASE o \in [kind : {"merge"}, f : IndexFiles, at : {1}, new : Seq(Values)]
  BY <1>3, ValuesAssumption
<1>. QED BY <1>1, <1>2, <1>3 DEF WriteOps

(* What Apply writes: the file keeps its records up to its length, or gets *)
(* the new ones that the journal is protected against.                     *)
Applied(o, c) ==
  IF o.kind = "merge" THEN c.recs \o SubSeq(o.new, Len(c.recs) + 1, Len(o.new)) ELSE o.new

LEMMA AppliedRecords ==
  ASSUME NEW F \in [Files -> Content], NEW o, NEW s, GrowsFile(o, s, F)
  PROVE  LET c == F[o.f] IN
         /\ Applied(o, c) \in Seq(Values)
         /\ Len(Applied(o, c)) = Len(o.new) /\ Len(c.recs) <= Len(o.new)
         /\ Len(c.recs) \in Nat /\ Len(o.new) \in Nat
         /\ \A i \in 1 .. Len(c.recs) : Applied(o, c)[i] = c.recs[i] \/ MayChange(o, i)
<1> DEFINE c == F[o.f]
           more == SubSeq(o.new, Len(c.recs) + 1, Len(o.new))
<1>1. /\ o \in WriteOps /\ o.f \in Files /\ o.new \in Seq(Values) /\ Len(o.new) \in Nat
      /\ c.recs \in Seq(Values) /\ Len(c.recs) \in Nat /\ Len(c.recs) <= Len(o.new)
  BY WriteOpFields, ContentFields DEF GrowsFile
<1>2. CASE o.kind = "merge"
  <2> DEFINE a == Len(c.recs) + 1
             z == Len(o.new)
  <2>1. a \in Int /\ z \in Int /\ \A i \in a .. z : o.new[i] \in Values
    BY <1>1
  <2> HIDE DEF a, z
  <2>2. /\ SubSeq(o.new, a, z) \in Seq(Values)
        /\ Len(SubSeq(o.new, a, z)) = IF a <= z THEN z - a + 1 ELSE 0
    BY <2>1, SubSeqProperties
  <2>3. more \in Seq(Values) /\ Len(more) = Len(o.new) - Len(c.recs)
    <3>1. more = SubSeq(o.new, a, z)
      BY Zenon DEF a, z
    <3>2. a = Len(c.recs) + 1 /\ z = Len(o.new)
      BY Zenon DEF a, z
    <3> HIDE DEF more, c
    <3>3. more \in Seq(Values) /\ Len(more) = IF a <= z THEN z - a + 1 ELSE 0
      BY <2>2, <3>1, Zenon
    <3>4. Len(c.recs) \in Nat /\ Len(o.new) \in Nat /\ Len(c.recs) <= Len(o.new)
      BY <1>1
    <3>5. \A l, n \in Nat : l <= n => (IF l + 1 <= n THEN n - (l + 1) + 1 ELSE 0) = n - l
      OBVIOUS
    <3>. QED BY <3>2, <3>3, <3>4, <3>5, Zenon
  <2> HIDE DEF more
  <2>4. c.recs \o more \in Seq(Values) /\ Len(c.recs \o more) = Len(c.recs) + Len(more)
    BY <1>1, <2>3, ConcatProperties, Zenon
  <2>5. Applied(o, c) = c.recs \o more
    BY <1>2 DEF Applied, more
  <2>. QED BY <1>1, <1>2, <2>3, <2>4, <2>5 DEF MayChange
<1>3. CASE o.kind # "merge"
  BY <1>1, <1>3 DEF Applied, GrowsFile
<1>. QED BY <1>2, <1>3

-----------------------------------------------------------------------------
(* The scope a step works on: its journal exists, or existed until the     *)
(* writer removed it.                                                      *)
WorksOnJournal(w, s) == Owns(w, s) /\ (s \in Pending \/ (w \in InMemory /\ s = scope[w]))

LEMMA OwnersApart ==
  ASSUME NEW v \in Writers, NEW w \in Writers, v # w, NEW s, NEW t, Owns(v, t), Owns(w, s)
  PROVE  ScopeFiles(s) \cap ScopeFiles(t) = {}
BY DEF Owns, ScopeFiles, WriteScope

LEMMA JournalsApart ==
  ASSUME JournalsDisjoint, NEW w \in Writers, RemovedOK(w), NEW s, WorksOnJournal(w, s),
         NEW t \in Pending, t # s
  PROVE  ScopeFiles(s) \cap ScopeFiles(t) = {}
<1>1. ~ConflictsWith(s, t)
  <2>1. CASE s \in Pending
    BY <2>1 DEF JournalsDisjoint
  <2>2. CASE w \in InMemory /\ s = scope[w]
    BY <2>2 DEF RemovedOK, ConflictsWith
  <2>. QED BY <2>1, <2>2 DEF WorksOnJournal
<1>. QED BY <1>1 DEF ConflictsWith, ScopeFiles, WriteScope

(* A step of writer w as the others see it: it changes files and the       *)
(* journal of one scope whose locks it owns, and nobody else's memory.     *)
DataSeenByOthers(w, s) ==
  /\ s \in Scopes
  /\ UNCHANGED <<file, jstate, jentries>> \/ Owns(w, s)
  /\ file' = file \/ WorksOnJournal(w, s)
  /\ \A f \in Files \ ScopeFiles(s) : file'[f] = file[f]
  /\ \A t \in Scopes \ {s} : jentries'[t] = jentries[t] /\ jstate'[t] = jstate[t]
  /\ \A v \in Writers \ {w} : entries'[v] = entries[v] /\ cursor'[v] = cursor[v] /\ op'[v] = op[v]
  /\ faults' \in faults .. MaxFaults

(* The files of a writer that has its locks.                               *)
LEMMA FilesOfOthers ==
  ASSUME NEW w \in Writers, NEW s, DataSeenByOthers(w, s), NEW v \in Writers, v # w,
         NEW t \in Scopes, Owns(v, t)
  PROVE  /\ \A f \in ScopeFiles(t) : file'[f] = file[f]
         /\ jentries'[t] = jentries[t] /\ jstate'[t] = jstate[t]
<1>1. CASE UNCHANGED <<file, jstate, jentries>>
  BY <1>1
<1>2. CASE Owns(w, s)
  <2>1. ScopeFiles(s) \cap ScopeFiles(t) = {} /\ s # t
    BY <1>2, OwnersApart, ScopeLocks DEF Owns
  <2>2. \A f \in ScopeFiles(t) : f \in Files \ ScopeFiles(s)
    BY <2>1 DEF ScopeFiles
  <2>. QED BY <2>1, <2>2 DEF DataSeenByOthers
<1>. QED BY <1>1, <1>2 DEF DataSeenByOthers

(* An operation that does not see its files change.                        *)
LEMMA WriteFrame ==
  ASSUME NEW o, NEW s, NEW F, NEW G, \A f \in ScopeFiles(s) : G[f] = F[f], GrowsFile(o, s, F)
  PROVE  GrowsFile(o, s, G) /\ G[o.f] = F[o.f]
BY DEF GrowsFile

LEMMA DataOfOthers ==
  ASSUME LockInv, LockInv', DataInv, NEW w \in Writers, StepSeenByOthers(w),
         NEW s, DataSeenByOthers(w, s), NEW v \in Writers, v # w
  PROVE  EntriesOK(v)' /\ RemovedOK(v)' /\ WriteOK(v)'
<1>1. /\ pc'[v] = pc[v] /\ scope'[v] = scope[v] /\ todo'[v] = todo[v]
      /\ entries'[v] = entries[v] /\ cursor'[v] = cursor[v] /\ op'[v] = op[v]
      /\ faults' \in faults .. MaxFaults /\ faults \in 0 .. MaxFaults /\ MaxFaults \in Nat
      /\ cursor[v] \in Nat
  BY BoundsAssumption DEF StepSeenByOthers, DataSeenByOthers, DataInv, DataTypes
<1>2. WriterOK(v) /\ EntriesOK(v) /\ RemovedOK(v) /\ WriteOK(v)
  BY DEF LockInv, DataInv
<1>3. pc[v] # "idle" => scope[v] \in Scopes
  BY <1>2, UsedScopesAssumption DEF WriterOK
<1>4. pc[v] \in Holding =>
        /\ Owns(v, scope[v])
        /\ \A f \in ScopeFiles(scope[v]) : file'[f] = file[f]
        /\ jentries'[scope[v]] = jentries[scope[v]] /\ jstate'[scope[v]] = jstate[scope[v]]
  BY <1>2, <1>3, FilesOfOthers DEF WriterOK, Holding, Active
<1>5. NextTodo(v)' = NextTodo(v)
  BY <1>1 DEF NextTodo, ScopeRank
<1>6. pc[v] = "undo" =>
        /\ \A f \in ScopeFiles(NextTodo(v)) : file'[f] = file[f]
        /\ jentries'[NextTodo(v)] = jentries[NextTodo(v)]
        /\ jstate'[NextTodo(v)] = jstate[NextTodo(v)]
        /\ JournalOK(entries[v], NextTodo(v), file)
  <2>. SUFFICES ASSUME pc[v] = "undo"
                PROVE  /\ \A f \in ScopeFiles(NextTodo(v)) : file'[f] = file[f]
                       /\ jentries'[NextTodo(v)] = jentries[NextTodo(v)]
                       /\ jstate'[NextTodo(v)] = jstate[NextTodo(v)]
                       /\ JournalOK(entries[v], NextTodo(v), file)
    OBVIOUS
  <2>1. NextTodo(v) \in todo[v] /\ NextTodo(v) \in Scopes
    BY <1>2, NextTodoIsToDo DEF WriterOK, LockInv, LockTypes
  <2>2. Owns(v, NextTodo(v))
    BY <1>2, <2>1 DEF WriterOK
  <2>. QED BY <1>2, <2>1, <2>2, FilesOfOthers DEF EntriesOK, DataInv
<1>7. EntriesOK(v)'
  <2>1. (pc[v] = "undo" => jstate[NextTodo(v)] = "ready" /\ entries[v] = jentries[NextTodo(v)])'
    BY <1>1, <1>2, <1>5, <1>6 DEF EntriesOK
  <2>2. pc[v] \in InTransaction => pc[v] \in Holding
    BY DEF InTransaction, Writing, Holding, Active
  <2>3. pc[v] \in InTransaction =>
          /\ JournalOK(entries[v], scope[v], file')
          /\ jstate'[scope[v]] = "ready" => entries[v] = jentries'[scope[v]]
    BY <1>2, <1>4, <2>2, JournalFrame DEF EntriesOK
  <2>4. pc[v] \in {"undo", "abort"} => UndoneTo(entries[v], cursor[v], file')
    <3>1. CASE pc[v] = "undo"
      BY <1>1, <1>2, <1>6, <3>1, JournalFrame DEF EntriesOK
    <3>2. CASE pc[v] = "abort"
      <4>1. pc[v] \in InTransaction /\ pc[v] \in Holding
        BY <2>2, <3>2 DEF InTransaction
      <4>2. JournalOK(entries[v], scope[v], file) /\ UndoneTo(entries[v], cursor[v], file)
        BY <1>2, <3>2, <4>1 DEF EntriesOK
      <4>3. \A f \in ScopeFiles(scope[v]) : file'[f] = file[f]
        BY <1>4, <4>1
      <4>4. \A c \in Nat : UndoneTo(entries[v], c, file) => UndoneTo(entries[v], c, file')
        BY <4>2, <4>3, JournalFrame, ZenonT(30)
      <4>. QED BY <1>1, <4>2, <4>4
    <3>. QED BY <3>1, <3>2
  <2>. QED BY <1>1, <1>2, <2>1, <2>3, <2>4 DEF EntriesOK
<1>8. RemovedOK(v)'
  <2>1. /\ (pc[v] = "unlinked" => jstate[scope[v]] = "none")'
        /\ (pc[v] = "abort" => jstate[scope[v]] \in {"ready", "none"})'
    BY <1>1, <1>2, <1>4 DEF RemovedOK, Holding, Active
  <2>2. ASSUME (v \in InMemory)', NEW p \in Pending' PROVE ~ConflictsWith(p, scope[v])
    <3>1. pc[v] \in Holding /\ v \in InMemory
      BY <1>1, <1>4, <2>2 DEF InMemory, Holding, Active
    <3>2. CASE p \in Pending
      BY <1>2, <3>1, <3>2 DEF RemovedOK
    <3>3. CASE p \notin Pending
      <4>1. Owns(w, p)
        BY <3>3 DEF StepSeenByOthers, Pending
      <4>. QED BY <1>4, <3>1, <4>1 DEF Owns, ConflictsWith
    <3>. QED BY <3>2, <3>3
  <2>. QED BY <1>1, <2>1, <2>2 DEF RemovedOK
<1>9. WriteOK(v)'
  <2>1. CASE pc[v] \in {"track", "image", "apply", "rewrite"}
    <3>1. \A f \in ScopeFiles(scope[v]) : file'[f] = file[f]
      BY <1>4, <2>1 DEF Holding, Active
    <3>2. GrowsFile(op[v], scope[v], file') /\ file'[op[v].f] = file[op[v].f]
      BY <1>2, <2>1, <3>1, WriteFrame DEF WriteOK
    <3>. QED BY <1>1, <1>2, <3>2 DEF WriteOK
  <2>2. CASE pc[v] \notin {"track", "image", "apply", "rewrite"}
    BY <1>1, <2>2 DEF WriteOK
  <2>. QED BY <2>1, <2>2
<1>. QED BY <1>7, <1>8, <1>9

(* The journals a step does not work on.                                   *)
LEMMA DataOfScopes ==
  ASSUME LockInv, DataInv, NEW w \in Writers, NEW s, DataSeenByOthers(w, s),
         NEW t \in Scopes, t # s
  PROVE  JournalOK(jentries'[t], t, file') /\ (jstate'[t] # "ready" => jentries'[t] = <<>>)
<1>1. /\ jentries'[t] = jentries[t] /\ jstate'[t] = jstate[t]
      /\ JournalOK(jentries[t], t, file) /\ (jstate[t] # "ready" => jentries[t] = <<>>)
  BY DEF DataSeenByOthers, DataInv
<1>2. CASE t \notin Pending
  BY <1>1, <1>2, EmptyJournal DEF Pending
<1>3. CASE t \in Pending
  <2>1. \A f \in ScopeFiles(t) : file'[f] = file[f]
    <3>1. CASE file' = file
      BY <3>1
    <3>2. CASE WorksOnJournal(w, s)
      <4>1. ScopeFiles(s) \cap ScopeFiles(t) = {}
        BY <1>3, <3>2, JournalsApart DEF LockInv, DataInv
      <4>2. \A f \in ScopeFiles(t) : f \in Files \ ScopeFiles(s)
        BY <4>1 DEF ScopeFiles
      <4>. QED BY <4>2 DEF DataSeenByOthers
    <3>. QED BY <3>1, <3>2 DEF DataSeenByOthers
  <2>. QED BY <1>1, <2>1, JournalFrame
<1>. QED BY <1>2, <1>3

LEMMA StepKeepsDataInv ==
  ASSUME LockInv, LockInv', DataInv, DataTypes', NEW w \in Writers, StepSeenByOthers(w),
         NEW s, DataSeenByOthers(w, s),
         JournalOK(jentries'[s], s, file'), jstate'[s] # "ready" => jentries'[s] = <<>>,
         EntriesOK(w)', RemovedOK(w)', WriteOK(w)'
  PROVE  DataInv'
<1>1. \A v \in Writers : EntriesOK(v)' /\ RemovedOK(v)' /\ WriteOK(v)'
  BY DataOfOthers
<1>2. \A t \in Scopes : JournalOK(jentries'[t], t, file') /\ (jstate'[t] # "ready" => jentries'[t] = <<>>)
  BY DataOfScopes
<1>. QED BY <1>1, <1>2 DEF DataInv

-----------------------------------------------------------------------------
(* The steps, one by one.                                                  *)
DataStep(w) == LockInv /\ LockInv' /\ StepSeenByOthers(w) /\ DataInv

LEMMA OwnScope ==
  ASSUME LockInv, NEW w \in Writers
  PROVE  /\ pc[w] # "idle" => scope[w] \in Scopes
         /\ pc[w] \in Holding => Owns(w, scope[w])
         /\ pc[w] = "undo" => NextTodo(w) \in Scopes /\ Owns(w, NextTodo(w))
         /\ pc[w] \in Writing => jstate[scope[w]] = "ready" /\ scope[w] \in Pending
<1>1. WriterOK(w) /\ todo[w] \subseteq Scopes
  BY DEF LockInv, LockTypes
<1>2. pc[w] # "idle" => scope[w] \in Scopes
  BY <1>1, UsedScopesAssumption DEF WriterOK
<1>3. pc[w] = "undo" => NextTodo(w) \in todo[w]
  BY <1>1, NextTodoIsToDo DEF WriterOK
<1>4. pc[w] = "undo" => NextTodo(w) \in Scopes /\ Owns(w, NextTodo(w))
  BY <1>1, <1>3 DEF WriterOK
<1>. QED BY <1>1, <1>2, <1>4 DEF WriterOK, Pending, Writing

(* Before a transaction and after it nothing of it is in memory.           *)
LEMMA OutsideTransaction ==
  ASSUME NEW w \in Writers, DataStep(w),
         pc[w] \notin InTransaction \cup {"undo"}, pc'[w] \notin InTransaction \cup {"undo"},
         UNCHANGED <<file, jstate, jentries, entries, cursor, op, faults>>
  PROVE  DataInv'
<1>1. DataTypes' /\ EntriesOK(w)
  BY DEF DataStep, DataInv, DataTypes
<1>2. PICK s \in Scopes : TRUE
  BY DEF Scopes
<1>3. DataSeenByOthers(w, s)
  BY <1>1, <1>2, BoundsAssumption DEF DataSeenByOthers, DataTypes
<1>4. JournalOK(jentries'[s], s, file') /\ (jstate'[s] # "ready" => jentries'[s] = <<>>)
  BY <1>2 DEF DataStep, DataInv
<1>5. EntriesOK(w)'
  BY <1>1 DEF EntriesOK, InTransaction
<1>6. RemovedOK(w)'
  BY DEF RemovedOK, InMemory, InTransaction
<1>7. WriteOK(w)'
  BY DEF WriteOK, InTransaction, Writing
<1>. QED BY <1>1, <1>3, <1>4, <1>5, <1>6, <1>7, StepKeepsDataInv DEF DataStep

(* A transaction that ends is forgotten; its journal stays or is removed.  *)
LEMMA ForgottenTransaction ==
  ASSUME NEW w \in Writers, DataStep(w), Forget(w), pc'[w] = "idle", file' = file,
         \/ UNCHANGED <<jstate, jentries>>
         \/ pc[w] \in Holding /\ NoJournal(scope[w]),
         faults' \in faults .. MaxFaults
  PROVE  DataInv'
<1>1. DataTypes'
  <2>1. <<>> \in Seq(JournalEntries)
    OBVIOUS
  <2>2. faults' \in 0 .. MaxFaults
    BY BoundsAssumption DEF DataStep, DataInv, DataTypes
  <2>3. DataTypes
    BY DEF DataStep, DataInv
  <2>4. jentries' \in [Scopes -> Seq(JournalEntries)]
    BY <2>1, <2>3 DEF DataTypes, NoJournal
  <2>5. entries' \in [Writers -> Seq(JournalEntries)]
    BY <2>1, <2>3 DEF DataTypes, Forget
  <2>6. cursor' \in [Writers -> Nat] /\ DOMAIN op' = Writers
    BY <2>3 DEF DataTypes, Forget
  <2>7. file' \in [Files -> Content]
    BY <2>3 DEF DataTypes
  <2>. QED BY <2>2, <2>4, <2>5, <2>6, <2>7 DEF DataTypes
<1>2. EntriesOK(w)'
  <2>1. entries'[w] = <<>> /\ cursor'[w] = 0
    BY DEF DataStep, DataInv, DataTypes, Forget
  <2>. QED BY <2>1 DEF EntriesOK, InTransaction, Writing
<1>3. RemovedOK(w)'
  BY DEF RemovedOK, InMemory
<1>4. WriteOK(w)'
  BY DEF WriteOK
<1>5. \A v \in Writers \ {w} : entries'[v] = entries[v] /\ cursor'[v] = cursor[v] /\ op'[v] = op[v]
  BY DEF DataStep, DataInv, DataTypes, Forget
<1>6. CASE UNCHANGED <<jstate, jentries>>
  <2>1. PICK s \in Scopes : TRUE
    BY DEF Scopes
  <2>2. DataSeenByOthers(w, s)
    BY <1>5, <1>6, <2>1 DEF DataSeenByOthers
  <2>3. JournalOK(jentries'[s], s, file') /\ (jstate'[s] # "ready" => jentries'[s] = <<>>)
    BY <1>6, <2>1 DEF DataStep, DataInv
  <2>. QED BY <1>1, <1>2, <1>3, <1>4, <2>2, <2>3, StepKeepsDataInv DEF DataStep
<1>7. CASE pc[w] \in Holding /\ NoJournal(scope[w])
  <2>1. scope[w] \in Scopes /\ Owns(w, scope[w])
    BY <1>7, OwnScope DEF DataStep, Holding, Active
  <2>2. DataSeenByOthers(w, scope[w])
    BY <1>5, <1>7, <2>1 DEF DataSeenByOthers, NoJournal, DataStep, DataInv, DataTypes, LockInv, LockTypes
  <2>3. jentries'[scope[w]] = <<>>
    BY <1>7, <2>1 DEF NoJournal, DataStep, DataInv, DataTypes
  <2>. QED BY <1>1, <1>2, <1>3, <1>4, <2>2, <2>3, EmptyJournal, StepKeepsDataInv DEF DataStep
<1>. QED BY <1>6, <1>7

(* Reading a journal to undo it: nothing of it is undone yet.              *)
LEMMA RecoverReadData ==
  ASSUME NEW w \in Writers, DataStep(w), RecoverRead(w)
  PROVE  DataInv'
<1> DEFINE s == NextTodo(w)
<1>1. /\ pc[w] = "recover" /\ pc' = [pc EXCEPT ![w] = "undo"] /\ todo[w] # {}
      /\ jstate[s] = "ready"
      /\ entries' = [entries EXCEPT ![w] = jentries[s]]
      /\ cursor' = [cursor EXCEPT ![w] = Len(jentries[s])]
      /\ UNCHANGED <<file, jstate, jentries, op, faults, todo, scope>>
  BY DEF RecoverRead, Goto, files, begin
<1>2. s \in Scopes /\ s \in todo[w]
  BY <1>1, NextTodoIsToDo DEF DataStep, LockInv, LockTypes
<1>3. s' = s
  BY <1>1 DEF NextTodo, ScopeRank
<1> HIDE DEF s
<1>4. /\ jentries[s] \in Seq(JournalEntries) /\ Len(jentries[s]) \in Nat
      /\ JournalOK(jentries[s], s, file)
  BY <1>2 DEF DataStep, DataInv, DataTypes
<1>5. DataTypes'
  BY <1>1, <1>4 DEF DataStep, DataInv, DataTypes
<1>6. pc'[w] = "undo" /\ entries'[w] = jentries[s] /\ cursor'[w] = Len(jentries[s])
  BY <1>1 DEF DataStep, DataInv, DataTypes, LockInv, LockTypes
<1>7. DataSeenByOthers(w, s)
  BY <1>1, <1>2, <1>5, BoundsAssumption DEF DataSeenByOthers, DataStep, DataInv, DataTypes
<1>8. UndoneTo(jentries[s], Len(jentries[s]), file)
  BY <1>4 DEF UndoneTo, LengthsUndone, RecordsUndone
<1>9. EntriesOK(w)'
  BY <1>1, <1>3, <1>4, <1>6, <1>8 DEF EntriesOK, InTransaction, Writing, s
<1>10. RemovedOK(w)' /\ WriteOK(w)'
  BY <1>6 DEF RemovedOK, InMemory, WriteOK
<1>11. jstate'[s] # "ready" => jentries'[s] = <<>>
  BY <1>1, <1>2 DEF DataStep, DataInv
<1>. QED BY <1>1, <1>4, <1>5, <1>7, <1>9, <1>10, <1>11, StepKeepsDataInv DEF DataStep

(* The journal an undo works on, whichever it is.                          *)
UndoneScope(w) == IF pc[w] = "undo" THEN NextTodo(w) ELSE scope[w]

LEMMA UndoneJournal ==
  ASSUME NEW w \in Writers, LockInv, DataInv, pc[w] \in {"undo", "abort"}
  PROVE  /\ UndoneScope(w) \in Scopes /\ WorksOnJournal(w, UndoneScope(w))
         /\ JournalOK(entries[w], UndoneScope(w), file)
         /\ jstate[UndoneScope(w)] \in {"ready", "none"}
         /\ jstate[UndoneScope(w)] = "ready" => entries[w] = jentries[UndoneScope(w)]
         /\ jstate[UndoneScope(w)] = "none" => pc[w] = "abort"
<1>1. EntriesOK(w) /\ RemovedOK(w)
  BY DEF DataInv
<1>2. CASE pc[w] = "undo"
  <2>1. NextTodo(w) \in Scopes /\ Owns(w, NextTodo(w)) /\ jstate[NextTodo(w)] = "ready"
    BY <1>1, <1>2, OwnScope DEF EntriesOK
  <2>. QED BY <1>1, <1>2, <2>1 DEF UndoneScope, WorksOnJournal, Pending, EntriesOK, DataInv
<1>3. CASE pc[w] = "abort"
  <2>1. scope[w] \in Scopes /\ Owns(w, scope[w])
    BY <1>3, OwnScope DEF Holding
  <2>2. JournalOK(entries[w], scope[w], file) /\ (jstate[scope[w]] = "ready" => entries[w] = jentries[scope[w]])
    BY <1>1, <1>3 DEF EntriesOK, InTransaction
  <2>. QED BY <1>1, <1>3, <2>1, <2>2 DEF UndoneScope, WorksOnJournal, Pending, InMemory, RemovedOK
<1>. QED BY <1>2, <1>3

LEMMA UndoEntryData ==
  ASSUME NEW w \in Writers, DataStep(w), UndoEntry(w)
  PROVE  DataInv' /\ DataSeenByOthers(w, UndoneScope(w))
<1> DEFINE s == UndoneScope(w)
           J == entries[w]
           c == cursor[w]
<1>1. /\ pc[w] \in {"undo", "abort"} /\ c > 0
      /\ file' = [file EXCEPT ![J[c].f] = Undone(J[c], @)]
      /\ cursor' = [cursor EXCEPT ![w] = c - 1]
      /\ UNCHANGED <<jstate, jentries, pc, scope, todo, entries, op, faults>>
  BY DEF UndoEntry, begin
<1>2. /\ s \in Scopes /\ WorksOnJournal(w, s) /\ JournalOK(J, s, file)
      /\ jstate[s] \in {"ready", "none"} /\ (jstate[s] = "ready" => J = jentries[s])
      /\ LockInv /\ DataInv
  BY <1>1, UndoneJournal DEF DataStep
<1>3. c \in 0 .. Len(J) /\ UndoneTo(J, c, file) /\ Len(J) \in Nat /\ file \in [Files -> Content]
  BY <1>1, <1>2 DEF DataInv, DataTypes, EntriesOK
<1>4. c \in 1 .. Len(J) /\ c - 1 \in 0 .. Len(J)
  BY <1>1, <1>3
<1>5. s' = s /\ NextTodo(w)' = NextTodo(w)
  BY <1>1 DEF UndoneScope, NextTodo, ScopeRank
<1> HIDE DEF s, J, c
<1>6. /\ file' \in [Files -> Content]
      /\ \A f \in Files : f # J[c].f => file'[f] = file[f]
      /\ JournalOK(J, s, file') /\ UndoneTo(J, c - 1, file')
  <2>1. file' = UndoneFiles(J, c, file)
    BY <1>1 DEF UndoneFiles
  <2>. QED BY <1>2, <1>3, <1>4, <2>1, UndoStep
<1> USE DEF J, c
<1>7. DataTypes'
  BY <1>1, <1>2, <1>4, <1>6 DEF DataInv, DataTypes
<1>8. J[c].f \in ScopeFiles(s)
  BY <1>2, <1>4 DEF JournalOK, OneBoundary
<1>9. DataSeenByOthers(w, s)
  BY <1>1, <1>2, <1>6, <1>7, <1>8, BoundsAssumption, SMTT(30)
  DEF DataSeenByOthers, DataInv, DataTypes, WorksOnJournal
<1>10. JournalOK(jentries'[s], s, file') /\ (jstate'[s] # "ready" => jentries'[s] = <<>>)
  <2>1. CASE jstate[s] = "ready"
    BY <1>1, <1>2, <1>6, <2>1
  <2>2. CASE jstate[s] = "none"
    BY <1>1, <1>2, <2>2, EmptyJournal DEF DataInv
  <2>. QED BY <1>2, <2>1, <2>2
<1>11. cursor'[w] = c - 1
  BY <1>1, <1>2 DEF DataInv, DataTypes
<1>12. pc[w] \in InTransaction => s = scope[w]
  BY DEF s, UndoneScope, InTransaction, Writing
<1>13. EntriesOK(w)'
  BY <1>1, <1>2, <1>4, <1>5, <1>6, <1>11, <1>12 DEF EntriesOK, DataInv
<1>14. RemovedOK(w)' /\ WriteOK(w)'
  BY <1>1, <1>2 DEF RemovedOK, InMemory, Pending, WriteOK, DataInv
<1>15. DataInv'
  BY <1>7, <1>9, <1>10, <1>13, <1>14, StepKeepsDataInv DEF DataStep
<1>. QED BY <1>9, <1>15 DEF s

LEMMA RecoverRemoveData ==
  ASSUME NEW w \in Writers, DataStep(w), RecoverRemove(w)
  PROVE  DataInv' /\ DataSeenByOthers(w, NextTodo(w))
<1> DEFINE s == NextTodo(w)
<1>1. /\ pc[w] = "undo" /\ pc' = [pc EXCEPT ![w] = "recover"] /\ cursor[w] = 0
      /\ jstate' = [jstate EXCEPT ![s] = "none"]
      /\ jentries' = [jentries EXCEPT ![s] = <<>>]
      /\ entries' = [entries EXCEPT ![w] = <<>>]
      /\ UNCHANGED <<file, cursor, op, faults>>
  BY DEF RecoverRemove, Goto, NoJournal
<1>2. s \in Scopes /\ Owns(w, s)
  BY <1>1, OwnScope DEF DataStep
<1> HIDE DEF s
<1>3. pc'[w] = "recover" /\ entries'[w] = <<>> /\ jentries'[s] = <<>> /\ cursor'[w] = 0
  BY <1>1, <1>2 DEF DataStep, DataInv, DataTypes, LockInv, LockTypes
<1>4. DataTypes'
  <2>1. <<>> \in Seq(JournalEntries)
    OBVIOUS
  <2>. QED BY <1>1, <2>1 DEF DataStep, DataInv, DataTypes
<1>5. DataSeenByOthers(w, s)
  BY <1>1, <1>2, <1>4, BoundsAssumption
  DEF DataSeenByOthers, DataStep, DataInv, DataTypes, LockInv, LockTypes
<1>6. EntriesOK(w)' /\ RemovedOK(w)' /\ WriteOK(w)'
  BY <1>3 DEF EntriesOK, RemovedOK, WriteOK, InMemory, InTransaction, Writing
<1>7. DataInv'
  BY <1>3, <1>4, <1>5, <1>6, EmptyJournal, StepKeepsDataInv DEF DataStep
<1>. QED BY <1>5, <1>7 DEF s

(* create_new: the journal is empty until it is ready.                     *)
LEMMA CreateJournalData ==
  ASSUME NEW w \in Writers, DataStep(w), CreateJournal(w)
  PROVE  DataInv' /\ DataSeenByOthers(w, scope[w])
<1> DEFINE s == scope[w]
<1>1. /\ pc[w] = "recover" /\ pc' = [pc EXCEPT ![w] = "header"]
      /\ jstate[s] = "none" /\ jstate' = [jstate EXCEPT ![s] = "headerless"]
      /\ UNCHANGED <<file, jentries, scope, entries, cursor, op, faults>>
  BY DEF CreateJournal, Goto, txn
<1>2. s \in Scopes /\ Owns(w, s)
  BY <1>1, OwnScope DEF DataStep, Holding
<1>3. DataTypes' /\ pc'[w] = "header" /\ jentries'[s] = <<>> /\ entries[w] = <<>> /\ cursor[w] = 0
  BY <1>1, <1>2 DEF DataStep, DataInv, DataTypes, LockInv, LockTypes, EntriesOK, InTransaction, Writing
<1>4. DataSeenByOthers(w, s)
  BY <1>1, <1>2, <1>3, BoundsAssumption
  DEF DataSeenByOthers, DataTypes, DataStep, LockInv, LockTypes
<1>5. EntriesOK(w)' /\ RemovedOK(w)' /\ WriteOK(w)'
  BY <1>1, <1>3 DEF EntriesOK, RemovedOK, WriteOK, InMemory, InTransaction, Writing
<1>. QED BY <1>1, <1>3, <1>4, <1>5, EmptyJournal, StepKeepsDataInv DEF DataStep

LEMMA WriteHeaderData ==
  ASSUME NEW w \in Writers, DataStep(w), WriteHeader(w)
  PROVE  DataInv' /\ DataSeenByOthers(w, scope[w])
<1> DEFINE s == scope[w]
<1>1. /\ pc[w] = "header" /\ pc' = [pc EXCEPT ![w] = "created"]
      /\ jstate' = [jstate EXCEPT ![s] = "ready"]
      /\ UNCHANGED <<file, jentries, scope, entries, cursor, op, faults>>
  BY DEF WriteHeader, Goto, txn
<1>2. s \in Scopes /\ Owns(w, s)
  BY <1>1, OwnScope DEF DataStep, Holding
<1>3. jstate[s] = "headerless"
  BY <1>1 DEF DataStep, LockInv, WriterOK
<1>4. DataTypes' /\ pc'[w] = "created" /\ jentries'[s] = <<>> /\ entries[w] = <<>> /\ cursor[w] = 0
  BY <1>1, <1>2, <1>3
  DEF DataStep, DataInv, DataTypes, LockInv, LockTypes, EntriesOK, InTransaction, Writing
<1>5. DataSeenByOthers(w, s)
  BY <1>1, <1>2, <1>4, BoundsAssumption
  DEF DataSeenByOthers, DataTypes, DataStep, LockInv, LockTypes
<1>6. JournalOK(<<>>, s, file')
  BY EmptyJournal
<1>7. EntriesOK(w)' /\ RemovedOK(w)' /\ WriteOK(w)'
  BY <1>1, <1>4, <1>6 DEF EntriesOK, RemovedOK, WriteOK, InMemory, InTransaction, Writing
<1>. QED BY <1>1, <1>4, <1>5, <1>6, <1>7, StepKeepsDataInv DEF DataStep

(* A step of an open transaction: it changes the files of its scope, its   *)
(* journal or neither.                                                     *)
LEMMA OpenTransaction ==
  ASSUME NEW w \in Writers, DataStep(w), pc[w] \in Writing, pc'[w] \in Writing \ {"created"},
         UNCHANGED <<jstate, scope, cursor, faults>>, DataTypes',
         \A f \in Files \ ScopeFiles(scope[w]) : file'[f] = file[f],
         \A t \in Scopes \ {scope[w]} : jentries'[t] = jentries[t],
         \A v \in Writers \ {w} : entries'[v] = entries[v] /\ op'[v] = op[v],
         entries'[w] = jentries'[scope[w]],
         JournalOK(entries'[w], scope[w], file'), WriteOK(w)'
  PROVE  DataInv' /\ DataSeenByOthers(w, scope[w])
<1> DEFINE s == scope[w]
<1>1. s \in Scopes /\ Owns(w, s) /\ s \in Pending /\ jstate[s] = "ready"
  BY OwnScope DEF DataStep, Holding, Active, Writing
<1>2. DataSeenByOthers(w, s)
  BY <1>1, BoundsAssumption DEF DataSeenByOthers, WorksOnJournal, DataTypes, DataStep, DataInv
<1>3. cursor[w] = 0
  BY DEF DataStep, DataInv, EntriesOK, Writing
<1>4. EntriesOK(w)'
  BY <1>1, <1>3 DEF EntriesOK, InTransaction, Writing
<1>5. RemovedOK(w)'
  BY DEF RemovedOK, InMemory, Writing
<1>. QED BY <1>1, <1>2, <1>4, <1>5, StepKeepsDataInv DEF DataStep

(* What an open transaction has in memory.                                 *)
LEMMA OpenJournal ==
  ASSUME NEW w \in Writers, DataStep(w), pc[w] \in Writing
  PROVE  /\ scope[w] \in Scopes /\ JournalOK(entries[w], scope[w], file)
         /\ entries[w] = jentries[scope[w]] /\ WriteOK(w) /\ DataTypes
         /\ entries[w] \in Seq(JournalEntries) /\ pc \in [Writers -> PCs]
         /\ scope \in [Writers -> UsedScopes \cup {NoScope}]
<1>1. scope[w] \in Scopes /\ jstate[scope[w]] = "ready"
  BY OwnScope DEF DataStep, Holding, Active, Writing
<1>2. EntriesOK(w) /\ WriteOK(w) /\ DataTypes
  BY DEF DataStep, DataInv
<1>. QED BY <1>1, <1>2 DEF EntriesOK, DataTypes, InTransaction, DataStep, LockInv, LockTypes

LEMMA QuietStep ==
  ASSUME NEW w \in Writers, DataStep(w), pc[w] \in Writing, pc'[w] \in {"open", "unlink"},
         UNCHANGED <<file, jstate, jentries, scope, entries, cursor, op, faults>>
  PROVE  DataInv'
<1>1. /\ scope[w] \in Scopes /\ JournalOK(entries[w], scope[w], file)
      /\ entries[w] = jentries[scope[w]] /\ DataTypes
  BY OpenJournal
<1>2. WriteOK(w)' /\ DataTypes' /\ pc'[w] \in Writing \ {"created"}
  BY <1>1 DEF WriteOK, DataTypes, Writing
<1>. QED BY <1>1, <1>2, OpenTransaction

LEMMA StartWriteData ==
  ASSUME NEW w \in Writers, DataStep(w), NEW o, StartWrite(w, o), GrowsFile(o, scope[w], file)
  PROVE  DataInv'
<1>1. /\ pc[w] = "open" /\ pc' = [pc EXCEPT ![w] = "track"] /\ op' = [op EXCEPT ![w] = o]
      /\ UNCHANGED <<file, jstate, jentries, scope, entries, cursor, faults>>
  BY DEF StartWrite, Goto, files
<1>2. /\ scope[w] \in Scopes /\ JournalOK(entries[w], scope[w], file) /\ pc \in [Writers -> PCs]
      /\ entries[w] = jentries[scope[w]] /\ DataTypes
  BY <1>1, OpenJournal DEF Writing
<1>3. pc'[w] = "track" /\ op'[w] = o /\ DataTypes'
  BY <1>1, <1>2 DEF DataTypes
<1>4. WriteOK(w)'
  BY <1>1, <1>3 DEF WriteOK
<1>5. \A v \in Writers \ {w} : op'[v] = op[v]
  BY <1>1, <1>2 DEF DataTypes
<1>. QED BY <1>1, <1>2, <1>3, <1>4, <1>5, OpenTransaction DEF Writing

LEMMA StartAppendData ==
  ASSUME NEW w \in Writers, DataStep(w), NEW f \in Files, NEW v \in Values, StartAppend(w, f, v)
  PROVE  DataInv'
<1> DEFINE o == [kind |-> "append", f |-> f, new |-> Append(file[f].recs, v)]
<1>1. StartWrite(w, o) /\ f \notin IndexFiles /\ o.f = f /\ file \in [Files -> Content]
  BY DEF StartAppend, DataStep, DataInv, DataTypes
<1>2. f \in ScopeFiles(scope[w])
  BY <1>1 DEF StartWrite, MayWrite, ScopeFiles
<1>3. GrowsFile(o, scope[w], file)
  BY <1>1, <1>2, AppendGrows
<1> HIDE DEF o
<1>. QED BY <1>1, <1>3, StartWriteData

LEMMA StartOverwriteData ==
  ASSUME NEW w \in Writers, DataStep(w), NEW f \in Files, NEW i, NEW v \in Values,
         StartOverwrite(w, f, i, v)
  PROVE  DataInv'
<1> DEFINE o == [kind |-> "overwrite", f |-> f, at |-> i, new |-> [file[f].recs EXCEPT ![i] = v]]
<1>1. /\ StartWrite(w, o) /\ f \notin IndexFiles /\ o.f = f /\ file \in [Files -> Content]
      /\ i \in 1 .. Len(file[f].recs)
  BY DEF StartOverwrite, DataStep, DataInv, DataTypes
<1>2. f \in ScopeFiles(scope[w])
  BY <1>1 DEF StartWrite, MayWrite, ScopeFiles
<1>3. GrowsFile(o, scope[w], file)
  BY <1>1, <1>2, OverwriteGrows
<1> HIDE DEF o
<1>. QED BY <1>1, <1>3, StartWriteData

LEMMA StartMergeData ==
  ASSUME NEW w \in Writers, DataStep(w), NEW f \in Files, NEW v \in Values, StartMerge(w, f, v)
  PROVE  DataInv'
<1> DEFINE o == [kind |-> "merge", f |-> f, at |-> 1, new |-> MergedRows(file[f].recs, v)]
<1>1. StartWrite(w, o) /\ f \in IndexFiles /\ o.f = f /\ file \in [Files -> Content]
  BY DEF StartMerge, DataStep, DataInv, DataTypes
<1>2. f \in ScopeFiles(scope[w])
  BY <1>1 DEF StartWrite, MayWrite, ScopeFiles
<1>3. GrowsFile(o, scope[w], file)
  BY <1>1, <1>2, MergeGrows
<1> HIDE DEF o
<1>. QED BY <1>1, <1>3, StartWriteData

(* append_entries, of an entry with which the journal is still good.       *)
LEMMA AppendEntryData ==
  ASSUME NEW w \in Writers, DataStep(w), pc[w] \in Writing, NEW e \in JournalEntries,
         AppendEntry(w, e), JournalOK(Append(entries[w], e), scope[w], file),
         pc'[w] \in Writing \ {"created"}, UNCHANGED <<file, jstate, scope, cursor, op, faults>>,
         WriteOK(w)'
  PROVE  DataInv' /\ DataSeenByOthers(w, scope[w])
<1>1. /\ scope[w] \in Scopes /\ entries[w] = jentries[scope[w]] /\ DataTypes
      /\ entries[w] \in Seq(JournalEntries)
  BY OpenJournal
<1>2. /\ entries'[w] = Append(entries[w], e) /\ jentries'[scope[w]] = Append(entries[w], e)
      /\ \A v \in Writers \ {w} : entries'[v] = entries[v]
      /\ \A t \in Scopes \ {scope[w]} : jentries'[t] = jentries[t]
  BY <1>1 DEF AppendEntry, DataTypes
<1>3. DataTypes'
  <2>1. Append(entries[w], e) \in Seq(JournalEntries)
    BY <1>1
  <2>. QED BY <1>1, <2>1 DEF AppendEntry, DataTypes
<1>. QED BY <1>2, <1>3, OpenTransaction

LEMMA TrackedIsBoundary ==
  ASSUME NEW w, NEW f
  PROVE  Tracked(w, f) <=> HasBoundary(entries[w], f)
BY DEF Tracked, Entries, HasBoundary, IsFile

LEMMA TrackFileData ==
  ASSUME NEW w \in Writers, DataStep(w), TrackFile(w)
  PROVE  DataInv' /\ DataSeenByOthers(w, scope[w])
<1> DEFINE o == op[w]
           J == entries[w]
           e == FileEntry(o.f, file[o.f])
<1>1. /\ pc[w] = "track" /\ pc' = [pc EXCEPT ![w] = "image"]
      /\ UNCHANGED <<file, jstate, scope, cursor, op, faults>>
      /\ IF Tracked(w, o.f) THEN UNCHANGED <<jentries, entries>> ELSE AppendEntry(w, e)
  BY DEF TrackFile, Goto
<1>2. /\ scope[w] \in Scopes /\ JournalOK(J, scope[w], file) /\ pc \in [Writers -> PCs]
      /\ J = jentries[scope[w]] /\ DataTypes /\ WriteOK(w) /\ J \in Seq(JournalEntries)
  BY <1>1, OpenJournal DEF Writing
<1>3. GrowsFile(o, scope[w], file) /\ o.f \in ScopeFiles(scope[w]) /\ file \in [Files -> Content]
  BY <1>1, <1>2 DEF WriteOK, GrowsFile, DataTypes
<1>4. pc'[w] = "image" /\ pc'[w] \in Writing \ {"created"} /\ pc[w] \in Writing
  BY <1>1, <1>2 DEF Writing
<1>5. CASE Tracked(w, o.f)
  <2>1. HasBoundary(J, o.f)
    BY <1>5, TrackedIsBoundary
  <2>2. WriteOK(w)' /\ DataTypes'
    BY <1>1, <1>2, <1>3, <1>4, <1>5, <2>1 DEF WriteOK, DataTypes
  <2>. QED BY <1>1, <1>2, <1>4, <1>5, <2>2, OpenTransaction
<1>6. CASE ~Tracked(w, o.f)
  <2>1. ~HasBoundary(J, o.f)
    BY <1>6, TrackedIsBoundary
  <2>2. JournalOK(Append(J, e), scope[w], file)
    BY <1>2, <1>3, <2>1, AppendBoundary
  <2>3. e \in JournalEntries /\ IsFile(e) /\ e.f = o.f
    BY <1>3, FileEntryOfContent DEF ScopeFiles
  <2> HIDE DEF e
  <2>4. entries'[w] = Append(J, e)
    BY <1>1, <1>2, <1>6 DEF AppendEntry, DataTypes
  <2>5. HasBoundary(Append(J, e), o.f)
    <3>1. /\ Len(J) \in Nat /\ Len(Append(J, e)) = Len(J) + 1 /\ Append(J, e)[Len(J) + 1] = e
      BY <1>2, <2>3, Appended
    <3>. QED BY <2>3, <3>1 DEF HasBoundary
  <2>6. WriteOK(w)'
    BY <1>1, <1>3, <1>4, <2>4, <2>5 DEF WriteOK
  <2>. QED BY <1>1, <1>4, <1>6, <2>2, <2>3, <2>6, AppendEntryData
<1>. QED BY <1>5, <1>6

(* The boundary of a file that has one.                                    *)
LEMMA BoundaryIsTheEntry ==
  ASSUME NEW w, NEW s, OneBoundary(entries[w], s), NEW b \in 1 .. Len(entries[w]),
         IsFile(entries[w][b])
  PROVE  Boundary(w, entries[w][b].f) = entries[w][b]
<1> DEFINE f == entries[w][b].f
<1>1. entries[w][b] \in Entries(w) /\ entries[w][b].kind = "file" /\ entries[w][b].f = f
  BY DEF Entries, IsFile
<1>2. \A e \in Entries(w) : e.kind = "file" /\ e.f = f => e = entries[w][b]
  BY DEF Entries, IsFile, OneBoundary
<1> HIDE DEF f
<1>3. Boundary(w, f) = entries[w][b]
  BY <1>1, <1>2 DEF Boundary
<1>. QED BY <1>3 DEF f

(* NeedsImage, case by case: what it leaves out is protected.              *)
LEMMA NoImageNeeded ==
  ASSUME NEW w, NEW s, NEW F, JournalOK(entries[w], s, F), GrowsFile(op[w], s, F),
         HasBoundary(entries[w], op[w].f), ~NeedsImage(w)
  PROVE  Protected(op[w], entries[w])
<1> DEFINE o == op[w]
           J == entries[w]
<1>1. PICK b \in 1 .. Len(J) : IsFile(J[b]) /\ J[b].f = o.f
  BY DEF HasBoundary
<1>2. Boundary(w, o.f) = J[b]
  BY <1>1, BoundaryIsTheEntry DEF JournalOK
<1>3. o \in WriteOps /\ o.kind \in {"append", "overwrite", "merge"} /\ J \in Seq(JournalEntries)
  BY WriteOpFields DEF GrowsFile, JournalOK, OneBoundary
<1>4. J[b].len \in Nat /\ (o.kind # "append" => o.at \in Nat)
  BY <1>1, <1>3, EntryFields, WriteOpFields
<1>5. SUFFICES ASSUME J[b].existed, NEW i \in 1 .. J[b].len, MayChange(o, i)
               PROVE  \E m \in 1 .. Len(J) : Covers(J[m], o.f, i)
  <2>1. \A k \in 1 .. Len(J) : IsFile(J[k]) /\ J[k].f = o.f => k = b
    BY <1>1 DEF JournalOK, OneBoundary
  <2>. QED BY <2>1 DEF Protected
<1>6. CASE o.kind = "append"
  BY <1>5, <1>6 DEF MayChange
<1>7. CASE o.kind = "overwrite"
  <2>1. ~(o.at <= J[b].len)
    BY <1>2, <1>7 DEF NeedsImage
  <2>2. i = o.at
    BY <1>5, <1>7 DEF MayChange
  <2>. QED BY <1>4, <2>1, <2>2
<1>8. CASE o.kind = "merge"
  <2>1. \E e \in Entries(w) : e.kind = "before" /\ e.f = o.f
    BY <1>2, <1>5, <1>8 DEF NeedsImage
  <2>2. PICK m \in 1 .. Len(J) : IsImage(J[m]) /\ J[m].f = o.f
    BY <2>1 DEF Entries, IsImage
  <2>3. o.f \in IndexFiles
    BY <1>3, <1>8, WriteOpFields
  <2>4. PICK k \in 1 .. (m - 1) :
          IsFile(J[k]) /\ J[k].f = o.f /\ J[m].at = 1 /\ J[k].len <= Len(J[m].old)
    BY <2>2, <2>3 DEF JournalOK, BoundaryFirst
  <2>5. k \in 1 .. Len(J)
    BY <1>3, <2>4
  <2>6. k = b
    BY <1>1, <2>4, <2>5 DEF JournalOK, OneBoundary
  <2>7. Len(J[m].old) \in Nat
    BY <1>3, <2>2, EntryFields
  <2>8. Covers(J[m], o.f, i)
    BY <1>4, <2>2, <2>4, <2>6, <2>7 DEF Covers, IsImage
  <2>. QED BY <2>8
<1>. QED BY <1>3, <1>6, <1>7, <1>8

(* And what it does not leave out is so with the image.                    *)
LEMMA ImageProtects ==
  ASSUME NEW w, NEW s, NEW F \in [Files -> Content], JournalOK(entries[w], s, F),
         GrowsFile(op[w], s, F), HasBoundary(entries[w], op[w].f), NeedsImage(w), file = F
  PROVE  /\ Image(w) \in JournalEntries
         /\ JournalOK(Append(entries[w], Image(w)), s, F)
         /\ Protected(op[w], Append(entries[w], Image(w)))
<1> DEFINE o == op[w]
           J == entries[w]
           recs == F[o.f].recs
           old == IF o.kind = "merge" THEN recs ELSE <<recs[o.at]>>
<1>1. PICK b \in 1 .. Len(J) : IsFile(J[b]) /\ J[b].f = o.f
  BY DEF HasBoundary
<1>2. Boundary(w, o.f) = J[b]
  BY <1>1, BoundaryIsTheEntry DEF JournalOK
<1>3. /\ o \in WriteOps /\ o.kind \in {"append", "overwrite", "merge"} /\ o.f \in Files
      /\ J \in Seq(JournalEntries) /\ recs \in Seq(Values) /\ Len(recs) \in Nat
  BY WriteOpFields, ContentFields DEF GrowsFile, JournalOK, OneBoundary
<1>4. J[b].len \in Nat /\ J[b].existed \in BOOLEAN /\ (~J[b].existed => J[b].len = 0)
  BY <1>1, <1>3, EntryFields DEF JournalOK, OneBoundary
<1>5. o.kind \in {"overwrite", "merge"} /\ o.at \in Nat \ {0}
  BY <1>3, WriteOpFields DEF NeedsImage
<1>6. J[b].existed /\ J[b].len <= Len(recs)
  <2>1. CASE o.kind = "overwrite"
    <3>1. o.at <= J[b].len
      BY <1>2, <2>1 DEF NeedsImage
    <3>. QED BY <1>1, <1>4, <1>5, <3>1 DEF JournalOK, LongEnough
  <2>2. CASE o.kind = "merge"
    BY <1>1, <1>2, <2>2 DEF NeedsImage, JournalOK, LongEnough
  <2>. QED BY <1>5, <2>1, <2>2
<1>7. old \in Seq(Values)
  <2>1. CASE o.kind = "overwrite"
    <3>1. o.at \in 1 .. Len(recs)
      BY <1>3, <1>5, <2>1 DEF GrowsFile
    <3>2. recs[o.at] \in Values
      BY <1>3, <3>1
    <3>. QED BY <2>1, <3>2
  <2>2. CASE o.kind = "merge"
    BY <1>3, <2>2
  <2>. QED BY <1>5, <2>1, <2>2
<1>8. Image(w) = BeforeImage(o.f, o.at, old)
  BY DEF Image
<1>9. J[b].f \in IndexFiles => o.at = 1 /\ J[b].len <= Len(old)
  BY <1>1, <1>3, <1>6, WriteOpFields
<1>10. o.kind = "merge" => o.at = 1 /\ Len(old) = Len(recs)
  BY <1>3, WriteOpFields
<1>11. o.kind = "overwrite" => Len(old) = 1
  OBVIOUS
<1> HIDE DEF old, recs
<1> DEFINE e == BeforeImage(o.f, o.at, old)
           K == Append(J, e)
<1>12. /\ e \in JournalEntries /\ IsImage(e) /\ ~IsFile(e) /\ e.f = o.f /\ e.at = o.at /\ e.old = old
  <2> HIDE DEF o
  <2>1. e \in JournalEntries /\ IsImage(e) /\ e.f = o.f /\ e.at = o.at /\ e.old = old
    BY <1>3, <1>5, <1>7, BeforeImageOfRecords
  <2> HIDE DEF e
  <2>. QED BY <2>1, EntryFields
<1>13. JournalOK(K, s, F)
  BY <1>1, <1>5, <1>6, <1>7, <1>9, AppendImage
<1> HIDE DEF e
<1>14. /\ Len(J) \in Nat /\ Len(K) = Len(J) + 1 /\ K[Len(J) + 1] = e
       /\ \A k \in 1 .. Len(J) : K[k] = J[k]
       /\ \A k \in 1 .. Len(K) : k \in 1 .. Len(J) \/ k = Len(J) + 1
  BY <1>3, <1>12, Appended
<1> HIDE DEF K
<1>15. Protected(o, K)
  <2>. SUFFICES ASSUME NEW k \in 1 .. Len(K), IsFile(K[k]), K[k].f = o.f,
                       NEW i \in 1 .. K[k].len, MayChange(o, i)
                PROVE  Covers(K[Len(J) + 1], o.f, i) /\ Len(J) + 1 \in 1 .. Len(K)
    BY DEF Protected
  <2>1. K[k] = J[b]
    BY <1>1, <1>12, <1>14 DEF JournalOK, OneBoundary
  <2>2. i \in 1 .. J[b].len
    BY <2>1
  <2>3. CASE o.kind = "overwrite"
    <3>1. i = o.at
      BY <2>3 DEF MayChange
    <3>2. i \in e.at .. (e.at + Len(e.old) - 1)
      <4>1. Len(e.old) = 1 /\ i = e.at
        BY <1>11, <1>12, <2>3, <3>1
      <4>2. i \in Int
        BY <1>5, <3>1
      <4>. QED BY <4>1, <4>2
    <3>3. Covers(e, o.f, i)
      BY <1>12, <3>2 DEF Covers, IsImage
    <3>. QED BY <1>14, <3>3
  <2>4. CASE o.kind = "merge"
    BY <1>3, <1>4, <1>6, <1>10, <1>12, <1>14, <2>2, <2>4 DEF Covers, IsImage
  <2>. QED BY <1>5, <2>3, <2>4
<1>. QED BY <1>8, <1>12, <1>13, <1>15 DEF e, K

LEMMA TrackImageData ==
  ASSUME NEW w \in Writers, DataStep(w), TrackImage(w)
  PROVE  DataInv' /\ DataSeenByOthers(w, scope[w])
<1> DEFINE o == op[w]
           J == entries[w]
           e == Image(w)
<1>1. /\ pc[w] = "image" /\ pc' = [pc EXCEPT ![w] = "apply"]
      /\ UNCHANGED <<file, jstate, scope, cursor, op, faults>>
      /\ IF NeedsImage(w) THEN AppendEntry(w, e) ELSE UNCHANGED <<jentries, entries>>
  BY DEF TrackImage, Goto
<1>2. /\ scope[w] \in Scopes /\ JournalOK(J, scope[w], file) /\ pc \in [Writers -> PCs]
      /\ J = jentries[scope[w]] /\ DataTypes /\ WriteOK(w) /\ J \in Seq(JournalEntries)
  BY <1>1, OpenJournal DEF Writing
<1>3. /\ GrowsFile(o, scope[w], file) /\ HasBoundary(J, o.f) /\ file \in [Files -> Content]
  BY <1>1, <1>2 DEF WriteOK, DataTypes
<1>4. pc'[w] = "apply" /\ pc'[w] \in Writing \ {"created"} /\ pc[w] \in Writing
  BY <1>1, <1>2 DEF Writing
<1>5. CASE ~NeedsImage(w)
  <2>1. Protected(o, J)
    BY <1>2, <1>3, <1>5, NoImageNeeded
  <2>2. WriteOK(w)' /\ DataTypes'
    BY <1>1, <1>2, <1>3, <1>4, <1>5, <2>1 DEF WriteOK, DataTypes
  <2>. QED BY <1>1, <1>2, <1>4, <1>5, <2>2, OpenTransaction
<1>6. CASE NeedsImage(w)
  <2>1. e \in JournalEntries /\ JournalOK(Append(J, e), scope[w], file) /\ Protected(o, Append(J, e))
    BY <1>2, <1>3, <1>6, ImageProtects
  <2> HIDE DEF e
  <2>2. entries'[w] = Append(J, e)
    BY <1>1, <1>2, <1>6 DEF AppendEntry, DataTypes
  <2>3. HasBoundary(Append(J, e), o.f)
    <3>1. \A k \in 1 .. Len(J) : Append(J, e)[k] = J[k] /\ k \in 1 .. Len(Append(J, e))
      BY <1>2, <2>1, Appended
    <3>. QED BY <1>3, <3>1 DEF HasBoundary
  <2>4. WriteOK(w)'
    BY <1>1, <1>3, <1>4, <2>1, <2>2, <2>3 DEF WriteOK
  <2>. QED BY <1>1, <1>4, <1>6, <2>1, <2>4, AppendEntryData
<1>. QED BY <1>5, <1>6

(* A file that gets new records, of which there are not fewer.             *)
LEMMA WrittenFile ==
  ASSUME NEW w \in Writers, DataStep(w), pc[w] \in Writing, pc'[w] \in Writing \ {"created"},
         UNCHANGED <<jstate, jentries, scope, entries, cursor, faults>>,
         DOMAIN op' = Writers, \A v \in Writers \ {w} : op'[v] = op[v],
         NEW f \in ScopeFiles(scope[w]), NEW c \in [exists : {TRUE}, recs : Seq(Values)],
         Len(file[f].recs) <= Len(c.recs), file' = [file EXCEPT ![f] = c], WriteOK(w)'
  PROVE  DataInv' /\ DataSeenByOthers(w, scope[w])
<1>1. /\ scope[w] \in Scopes /\ JournalOK(entries[w], scope[w], file)
      /\ entries[w] = jentries[scope[w]] /\ DataTypes /\ f \in Files
  BY OpenJournal DEF ScopeFiles
<1>2. c \in Content /\ c.exists
  BY DEF Content
<1>3. /\ file' \in [Files -> Content] /\ file \in [Files -> Content]
      /\ file'[f] = c /\ \A g \in Files : g # f => file'[g] = file[g]
  BY <1>1, <1>2 DEF DataTypes
<1>4. DataTypes'
  BY <1>1, <1>3 DEF DataTypes
<1>5. \A g \in ScopeFiles(scope[w]) :
        file'[g] = file[g] \/ (file'[g].exists /\ Len(file[g].recs) <= Len(file'[g].recs))
  BY <1>2, <1>3 DEF ScopeFiles
<1>6. JournalOK(entries[w], scope[w], file')
  BY <1>1, <1>3, <1>5, JournalOfGrownFile
<1>7. \A g \in Files \ ScopeFiles(scope[w]) : file'[g] = file[g]
  BY <1>3
<1>. QED BY <1>1, <1>4, <1>6, <1>7, OpenTransaction

LEMMA ApplyData ==
  ASSUME NEW w \in Writers, DataStep(w), Apply(w)
  PROVE  DataInv' /\ DataSeenByOthers(w, scope[w])
<1> DEFINE o == op[w]
           recs == Applied(o, file[o.f])
<1>1. /\ pc[w] = "apply" /\ pc' = [pc EXCEPT ![w] = IF o.kind = "merge" THEN "rewrite" ELSE "open"]
      /\ file' = [file EXCEPT ![o.f] = [exists |-> TRUE, recs |-> recs]]
      /\ op' = [op EXCEPT ![w] = IF o.kind = "merge" THEN o ELSE NoOp]
      /\ UNCHANGED <<jstate, jentries, scope, entries, cursor, faults>>
  BY DEF Apply, Applied, Goto
<1>2. DataTypes /\ WriteOK(w) /\ pc \in [Writers -> PCs]
  BY <1>1, OpenJournal DEF Writing
<1>3. /\ GrowsFile(o, scope[w], file) /\ o.f \in ScopeFiles(scope[w]) /\ o.f \in Files
      /\ HasBoundary(entries[w], o.f) /\ Protected(o, entries[w]) /\ file \in [Files -> Content]
  BY <1>1, <1>2 DEF WriteOK, GrowsFile, ScopeFiles, DataTypes
<1>4. /\ recs \in Seq(Values) /\ Len(recs) = Len(o.new) /\ Len(file[o.f].recs) <= Len(o.new)
      /\ Len(o.new) \in Nat
  BY <1>3, AppliedRecords
<1> HIDE DEF recs
<1>5. /\ pc'[w] = IF o.kind = "merge" THEN "rewrite" ELSE "open"
      /\ op'[w] = IF o.kind = "merge" THEN o ELSE NoOp
      /\ DOMAIN op' = Writers /\ \A v \in Writers \ {w} : op'[v] = op[v]
  BY <1>1, <1>2 DEF DataTypes
<1>6. file'[o.f] = [exists |-> TRUE, recs |-> recs]
  BY <1>1, <1>3
<1>7. /\ file'[o.f].exists /\ file'[o.f].recs = recs
      /\ [exists |-> TRUE, recs |-> recs] \in [exists : {TRUE}, recs : Seq(Values)]
      /\ [exists |-> TRUE, recs |-> recs].recs = recs
  BY <1>4, <1>6
<1>8. o.kind = "merge" => GrowsFile(o, scope[w], file')
  BY <1>3, <1>4, <1>7 DEF GrowsFile, MayChange
<1>9. WriteOK(w)'
  BY <1>1, <1>3, <1>4, <1>5, <1>7, <1>8 DEF WriteOK
<1>10. pc[w] \in Writing /\ pc'[w] \in Writing \ {"created"}
  BY <1>1, <1>5 DEF Writing
<1>. QED BY <1>1, <1>3, <1>4, <1>5, <1>7, <1>9, <1>10, WrittenFile

LEMMA RewriteIndexData ==
  ASSUME NEW w \in Writers, DataStep(w), RewriteIndex(w)
  PROVE  DataInv' /\ DataSeenByOthers(w, scope[w])
<1> DEFINE o == op[w]
<1>1. /\ pc[w] = "rewrite" /\ pc' = [pc EXCEPT ![w] = "open"]
      /\ file' = [file EXCEPT ![o.f].recs = o.new]
      /\ op' = [op EXCEPT ![w] = NoOp]
      /\ UNCHANGED <<jstate, jentries, scope, entries, cursor, faults>>
  BY DEF RewriteIndex, Goto
<1>2. DataTypes /\ WriteOK(w) /\ pc \in [Writers -> PCs]
  BY <1>1, OpenJournal DEF Writing
<1>3. /\ GrowsFile(o, scope[w], file) /\ o.f \in ScopeFiles(scope[w]) /\ o.f \in Files
      /\ file[o.f].exists /\ file \in [Files -> Content] /\ o.new \in Seq(Values)
      /\ Len(file[o.f].recs) <= Len(o.new)
  BY <1>1, <1>2, WriteOpFields DEF WriteOK, GrowsFile, ScopeFiles, DataTypes
<1> DEFINE c == [file[o.f] EXCEPT !.recs = o.new]
<1>4. c \in [exists : {TRUE}, recs : Seq(Values)] /\ c.recs = o.new
  <2>1. file[o.f] \in [exists : {TRUE}, recs : Seq(Values)]
    <3>1. file[o.f].exists /\ ~Absent.exists /\ file[o.f] \in Content
      BY <1>3 DEF Absent
    <3>. QED BY <3>1, Zenon DEF Content
  <2>. QED BY <1>3, <2>1
<1> HIDE DEF c
<1>5. file' = [file EXCEPT ![o.f] = c]
  BY <1>1 DEF c
<1>6. /\ pc'[w] = "open" /\ DOMAIN op' = Writers /\ \A v \in Writers \ {w} : op'[v] = op[v]
  BY <1>1, <1>2 DEF DataTypes
<1>7. WriteOK(w)' /\ pc[w] \in Writing /\ pc'[w] \in Writing \ {"created"}
  BY <1>1, <1>6 DEF WriteOK, Writing
<1>8. PICK f \in ScopeFiles(scope[w]) : f = o.f
  BY <1>3
<1>9. UNCHANGED <<jstate, jentries, scope, entries, cursor, faults>>
  BY <1>1
<1>10. file' = [file EXCEPT ![f] = c] /\ Len(file[f].recs) <= Len(c.recs)
  BY <1>3, <1>4, <1>5, <1>8
<1> HIDE DEF o
<1>. QED BY <1>4, <1>6, <1>7, <1>9, <1>10, WrittenFile

(* The journal is removed: the writer keeps what was in it.                *)
LEMMA CommitUnlinkData ==
  ASSUME NEW w \in Writers, DataStep(w), CommitUnlink(w)
  PROVE  DataInv' /\ DataSeenByOthers(w, scope[w])
<1> DEFINE s == scope[w]
<1>1. /\ pc[w] = "unlink" /\ pc' = [pc EXCEPT ![w] = "unlinked"]
      /\ jstate' = [jstate EXCEPT ![s] = "none"] /\ jentries' = [jentries EXCEPT ![s] = <<>>]
      /\ UNCHANGED <<file, scope, entries, cursor, op, faults>>
  BY DEF CommitUnlink, Goto, NoJournal, txn
<1>2. s \in Scopes /\ Owns(w, s) /\ s \in Pending
  BY <1>1, OwnScope DEF DataStep, Holding, Active, Writing
<1>3. JournalOK(entries[w], s, file) /\ cursor[w] = 0 /\ DataTypes
  BY <1>1 DEF DataStep, DataInv, EntriesOK, InTransaction, Writing
<1>4. pc'[w] = "unlinked" /\ jentries'[s] = <<>> /\ jstate'[s] = "none"
  BY <1>1, <1>2, <1>3 DEF DataTypes, DataStep, LockInv, LockTypes
<1>5. DataTypes'
  <2>1. <<>> \in Seq(JournalEntries)
    OBVIOUS
  <2>. QED BY <1>1, <1>3, <2>1 DEF DataTypes
<1>6. DataSeenByOthers(w, s)
  BY <1>1, <1>2, <1>3, BoundsAssumption DEF DataSeenByOthers, DataTypes, DataStep, LockInv, LockTypes
<1>7. EntriesOK(w)' /\ WriteOK(w)'
  BY <1>1, <1>3, <1>4 DEF EntriesOK, WriteOK, InTransaction, Writing
<1>8. \A p \in Pending' : p \in Pending /\ p # s
  BY <1>1, <1>4 DEF Pending, DataStep, LockInv, LockTypes
<1>9. \A p \in Pending' : ~ConflictsWith(p, s)
  BY <1>2, <1>8 DEF DataStep, LockInv, JournalsDisjoint
<1>10. RemovedOK(w)'
  BY <1>1, <1>4, <1>9 DEF RemovedOK
<1>. QED BY <1>4, <1>5, <1>6, <1>7, <1>10, EmptyJournal, StepKeepsDataInv DEF DataStep

(* An abort starts at the end of the journal, or of what was in it.        *)
LEMMA StartAbortData ==
  ASSUME NEW w \in Writers, DataStep(w), StartAbort(w), pc[w] \in InTransaction,
         faults' \in faults .. MaxFaults
  PROVE  DataInv'
<1> DEFINE s == scope[w]
<1>1. /\ pc' = [pc EXCEPT ![w] = "abort"] /\ cursor' = [cursor EXCEPT ![w] = Len(entries[w])]
      /\ op' = [op EXCEPT ![w] = NoOp] /\ UNCHANGED <<file, jstate, jentries, scope, entries>>
  BY DEF StartAbort, files
<1>2. s \in Scopes /\ DataTypes /\ EntriesOK(w) /\ RemovedOK(w) /\ pc \in [Writers -> PCs]
  BY OwnScope DEF DataStep, DataInv, LockInv, LockTypes, InTransaction, Writing
<1>3. /\ JournalOK(entries[w], s, file) /\ Len(entries[w]) \in Nat
      /\ jstate[s] = "ready" => entries[w] = jentries[s]
  BY <1>2 DEF EntriesOK, DataTypes
<1>4. pc'[w] = "abort" /\ cursor'[w] = Len(entries[w])
  BY <1>1, <1>2 DEF DataTypes
<1>5. DataTypes'
  BY <1>1, <1>2, <1>3, BoundsAssumption DEF DataTypes
<1>6. DataSeenByOthers(w, s)
  BY <1>1, <1>2 DEF DataSeenByOthers, DataTypes
<1>7. UndoneTo(entries[w], Len(entries[w]), file)
  BY <1>3 DEF UndoneTo, LengthsUndone, RecordsUndone
<1>8. EntriesOK(w)'
  BY <1>1, <1>3, <1>4, <1>7 DEF EntriesOK, InTransaction, Writing
<1>9. jstate[s] \in {"ready", "none"} /\ (jstate[s] = "none" => pc[w] \in {"abort", "unlinked"})
  BY <1>2, OwnScope DEF RemovedOK, InTransaction, DataStep
<1>10. jstate[s] = "none" => w \in InMemory
  BY <1>9 DEF InMemory
<1>11. RemovedOK(w)'
  BY <1>1, <1>2, <1>4, <1>9, <1>10 DEF RemovedOK, InMemory, Pending
<1>12. WriteOK(w)'
  BY <1>4 DEF WriteOK
<1>13. JournalOK(jentries'[s], s, file') /\ (jstate'[s] # "ready" => jentries'[s] = <<>>)
  BY <1>1, <1>2 DEF DataStep, DataInv
<1>. QED BY <1>5, <1>6, <1>8, <1>11, <1>12, <1>13, StepKeepsDataInv DEF DataStep

-----------------------------------------------------------------------------
LEMMA DataInvInit == Init => DataInv
<1>. SUFFICES ASSUME Init PROVE DataInv
  OBVIOUS
<1>1. DataTypes
  <2>1. <<>> \in Seq(JournalEntries)
    OBVIOUS
  <2>. QED BY <2>1, InitFileAssumption, BoundsAssumption DEF Init, DataTypes
<1>2. \A s \in Scopes : JournalOK(jentries[s], s, file) /\ jentries[s] = <<>>
  BY EmptyJournal DEF Init
<1>3. \A w \in Writers : EntriesOK(w) /\ RemovedOK(w) /\ WriteOK(w)
  BY DEF Init, EntriesOK, RemovedOK, WriteOK, InMemory, InTransaction, Writing
<1>. QED BY <1>1, <1>2, <1>3 DEF DataInv

(* What the journals and their use are made of stays: readers, stuttering. *)
LEMMA DataInvFrame ==
  ASSUME LockInv, DataInv,
         UNCHANGED <<file, jstate, jentries, pc, scope, todo, entries, cursor, op, faults>>
  PROVE  DataInv'
<1>1. DataTypes' /\ Pending' = Pending /\ InMemory' = InMemory
  BY DEF DataInv, DataTypes, Pending, InMemory
<1>2. \A s \in Scopes : JournalOK(jentries'[s], s, file') /\ (jstate'[s] # "ready" => jentries'[s] = <<>>)
  BY DEF DataInv
<1>3. ASSUME NEW w \in Writers PROVE EntriesOK(w)' /\ RemovedOK(w)' /\ WriteOK(w)'
  <2>1. NextTodo(w)' = NextTodo(w)
    BY DEF NextTodo, ScopeRank
  <2>2. EntriesOK(w) /\ RemovedOK(w) /\ WriteOK(w)
    BY DEF DataInv
  <2>. QED BY <1>1, <2>1, <2>2 DEF EntriesOK, RemovedOK, WriteOK
<1>. QED BY <1>1, <1>2, <1>3 DEF DataInv

LEMMA BeginStepData ==
  ASSUME NEW w \in Writers, DataStep(w), BeginStep(w)
  PROVE  DataInv'
<1> USE DEF files, locks, begin, txn, readers
<1>0. pc \in [Writers -> PCs]
  BY DEF DataStep, LockInv, LockTypes
<1>1. ASSUME Busy(w), pc[w] \in {"preflight", "gate", "lock"} PROVE DataInv'
  <2>1. pc'[w] \in {"preflight", "idle"} /\ UNCHANGED <<file, jstate, jentries, entries, cursor, op, faults>>
    BY <1>0, <1>1 DEF Busy
  <2>. QED BY <1>1, <2>1, OutsideTransaction DEF InTransaction, Writing
<1>2. CASE Preflight(w) \/ DropPreflight(w) \/ AcquireGate(w) \/ Scan(w)
  <2>1. /\ pc[w] \in {"preflight", "probing", "gate", "scan"} /\ pc'[w] \in {"probing", "gate", "scan", "lock"}
        /\ UNCHANGED <<file, jstate, jentries, entries, cursor, op, faults>>
    BY <1>0, <1>2 DEF Preflight, DropPreflight, AcquireGate, Scan, Goto
  <2>. QED BY <2>1, OutsideTransaction DEF InTransaction, Writing
<1>3. CASE LockNext(w) \/ Confirm(w) \/ RecoverSkip(w)
  <2>1. /\ pc[w] \in {"lock", "recover"} /\ pc'[w] \in {"lock", "recover", "preflight"}
        /\ UNCHANGED <<file, jstate, jentries, entries, cursor, op, faults>>
    BY <1>0, <1>3 DEF LockNext, Confirm, RecoverSkip
  <2>. QED BY <2>1, OutsideTransaction DEF InTransaction, Writing
<1>4. CASE RecoverCorrupt(w)
  <2>1. pc'[w] = "idle" /\ Forget(w) /\ UNCHANGED <<file, jstate, jentries>> /\ faults' \in faults .. MaxFaults
    BY <1>0, <1>4, BoundsAssumption DEF RecoverCorrupt, Goto, DataStep, DataInv, DataTypes
  <2>. QED BY <2>1, ForgottenTransaction
<1>5. CASE Open(w)
  <2>1. /\ pc[w] = "created" /\ pc'[w] = "open"
        /\ UNCHANGED <<file, jstate, jentries, scope, entries, cursor, op, faults>>
    BY <1>0, <1>5 DEF Open, Goto
  <2>. QED BY <2>1, QuietStep DEF Writing
<1>. QED BY <1>1, <1>2, <1>3, <1>4, <1>5, RecoverReadData, UndoEntryData, RecoverRemoveData,
            CreateJournalData, WriteHeaderData DEF BeginStep, PreflightBusy, GateBusy, LockBusy

LEMMA EndStepData ==
  ASSUME NEW w \in Writers, DataStep(w), EndStep(w)
  PROVE  DataInv'
<1> USE DEF files, locks, begin, txn, readers
<1>0. pc \in [Writers -> PCs] /\ faults \in faults .. MaxFaults
  BY BoundsAssumption DEF DataStep, LockInv, LockTypes, DataInv, DataTypes
<1>1. CASE CommitSync(w)
  <2>1. /\ pc[w] = "open" /\ pc'[w] = "unlink"
        /\ UNCHANGED <<file, jstate, jentries, scope, entries, cursor, op, faults>>
    BY <1>0, <1>1 DEF CommitSync, Goto
  <2>. QED BY <2>1, QuietStep DEF Writing
<1>2. CASE CommitDone(w)
  <2>1. pc'[w] = "idle" /\ Forget(w) /\ UNCHANGED <<file, jstate, jentries>> /\ faults' \in faults .. MaxFaults
    BY <1>0, <1>2 DEF CommitDone, Goto
  <2>. QED BY <2>1, ForgottenTransaction
<1>3. CASE Abort(w)
  BY <1>0, <1>3, StartAbortData DEF Abort, InTransaction, Writing
<1>4. CASE AbortDone(w)
  <2>1. /\ pc[w] \in Holding /\ pc'[w] = "idle" /\ Forget(w) /\ NoJournal(scope[w]) /\ file' = file
        /\ faults' \in faults .. MaxFaults
    BY <1>0, <1>4 DEF AbortDone, Goto, Holding
  <2>. QED BY <2>1, ForgottenTransaction
<1>. QED BY <1>1, <1>2, <1>3, <1>4, CommitUnlinkData DEF EndStep

LEMMA FaultStepData ==
  ASSUME NEW w \in Writers, DataStep(w), FaultStep(w)
  PROVE  DataInv'
<1> USE DEF files, locks, begin, txn, readers
<1>0. pc \in [Writers -> PCs] /\ faults \in 0 .. MaxFaults
  BY DEF DataStep, LockInv, LockTypes, DataInv, DataTypes
<1>1. faults' \in faults .. MaxFaults
  BY <1>0, BoundsAssumption DEF FaultStep, Crash, FailAndLeave, FailAndAbort, UnlinkSyncFails, Fault
<1>2. CASE Crash(w) \/ FailAndLeave(w)
  <2>1. pc'[w] = "idle" /\ Forget(w) /\ UNCHANGED <<file, jstate, jentries>>
    BY <1>0, <1>2 DEF Crash, FailAndLeave
  <2>. QED BY <1>1, <2>1, ForgottenTransaction
<1>3. CASE FailAndAbort(w)
  BY <1>1, <1>3, StartAbortData DEF FailAndAbort, InTransaction, Writing
<1>4. CASE UnlinkSyncFails(w)
  BY <1>1, <1>4, StartAbortData DEF UnlinkSyncFails, InTransaction, Writing
<1>. QED BY <1>2, <1>3, <1>4 DEF FaultStep

LEMMA DataInvNext == LockInv /\ DataInv /\ [Next]_vars => DataInv'
<1>. SUFFICES ASSUME LockInv, DataInv, [Next]_vars PROVE DataInv'
  OBVIOUS
<1>1. CASE UNCHANGED vars
  BY <1>1, DataInvFrame DEF vars, files, locks, begin, txn
<1>2. ASSUME NEW r \in Readers, ReadStep(r) PROVE DataInv'
  BY <1>2, DataInvFrame DEF ReadStep, ReadBegin, Read, ReadEnd, files, locks, begin, txn
<1>3. ASSUME NEW w \in Writers, NEW s \in UsedScopes, Begin(w, s) PROVE DataInv'
  <2>1. DataStep(w) /\ pc[w] = "idle" /\ pc'[w] = "preflight"
    BY <1>3, BeginKeeps DEF DataStep, Begin, Goto, LockInv, LockTypes
  <2>2. UNCHANGED <<file, jstate, jentries, entries, cursor, op, faults>>
    BY <1>3 DEF Begin, files
  <2>. QED BY <2>1, <2>2, OutsideTransaction DEF InTransaction, Writing
<1>4. ASSUME NEW w \in Writers, BeginStep(w) PROVE DataInv'
  BY <1>4, BeginStepKeeps, BeginStepData DEF DataStep
<1>5. ASSUME NEW w \in Writers, WriteStep(w) PROVE DataInv'
  <2>1. DataStep(w)
    BY <1>5, WriteStepKeeps DEF DataStep
  <2>. QED BY <1>5, <2>1, StartAppendData, StartMergeData, StartOverwriteData, TrackFileData,
              TrackImageData, ApplyData, RewriteIndexData DEF WriteStep
<1>6. ASSUME NEW w \in Writers, EndStep(w) PROVE DataInv'
  BY <1>6, EndStepKeeps, EndStepData DEF DataStep
<1>7. ASSUME NEW w \in Writers, FaultStep(w) PROVE DataInv'
  BY <1>7, FaultStepKeeps, FaultStepData DEF DataStep
<1>. QED BY <1>1, <1>2, <1>3, <1>4, <1>5, <1>6, <1>7 DEF Next

(* BinaryDbRollbackJournal: in every state the entries of every journal,   *)
(* and those a writer has in memory, are enough to undo it, from wherever  *)
(* an undo of it has come to, and no write is applied before what it       *)
(* changes is in the journal.                                              *)
THEOREM JournalsCanBeUndone == Spec => [](LockInv /\ DataInv)
BY LockInvInit, LockInvNext, DataInvInit, DataInvNext, PTL DEF Spec
=============================================================================
