-------------------- MODULE RemoteBinaryDbRefinementProofs --------------------
(***************************************************************************)
(* The transactions of RemoteBinaryDb are all or nothing: the module       *)
(* implements TransactionalStore, and readers see committed files.  Rests  *)
(* on LockInv and DataInv, the invariants of locks and journals.           *)
(***************************************************************************)
EXTENDS RemoteBinaryDbProofs

-----------------------------------------------------------------------------
(* What undoing a whole journal would leave of a file with contents c.     *)
Before(J, f, c) == IF HasBoundary(J, f) THEN UndoAll(J, f, c) ELSE c

LEMMA BoundaryExists ==
  ASSUME NEW J, NEW f
  PROVE  HasBoundary(J, f) <=> Boundaries(J, f) # {}
BY DEF HasBoundary, Boundaries, IsFile

LEMMA BoundaryOfEntry ==
  ASSUME NEW J, NEW s, OneBoundary(J, s), NEW b \in 1 .. Len(J), IsFile(J[b]), NEW f, f = J[b].f
  PROVE  BoundaryOf(J, f) = J[b]
<1>1. b \in Boundaries(J, f)
  BY DEF Boundaries, IsFile
<1>2. \A k \in Boundaries(J, f) : k = b
  BY DEF Boundaries, IsFile, OneBoundary
<1>. QED BY <1>1, <1>2 DEF BoundaryOf

LEMMA UndoAllIs ==
  ASSUME NEW J, NEW s, OneBoundary(J, s), NEW b \in 1 .. Len(J), IsFile(J[b]), NEW f, f = J[b].f,
         NEW c
  PROVE  UndoAll(J, f, c) =
           IF J[b].existed
           THEN [exists |-> TRUE, recs |-> [i \in 1 .. J[b].len |-> RecordBefore(J, f, i, c.recs)]]
           ELSE Absent
<1>1. BoundaryOf(J, f) = J[b]
  BY BoundaryOfEntry
<1>. QED BY <1>1, Zenon DEF UndoAll

LEMMA OldestImageIs ==
  ASSUME NEW J \in Seq(JournalEntries), NEW f, NEW i, Images(J, f, i) # {}
  PROVE  \E k \in Images(J, f, i) :
           (\A m \in Images(J, f, i) : k <= m) /\ OldestImage(J, f, i) = J[k]
<1>1. Images(J, f, i) \subseteq Nat
  BY DEF Images
<1>2. \E k \in Images(J, f, i) : \A m \in Images(J, f, i) : k <= m
  BY <1>1, LeastNumber
<1>. QED BY <1>2 DEF OldestImage

(* An entry at the end is the oldest image only where there was none.      *)
LEMMA RecordBeforeAppend ==
  ASSUME NEW J \in Seq(JournalEntries), NEW e \in JournalEntries, NEW f, NEW i, NEW recs
  PROVE  RecordBefore(Append(J, e), f, i, recs) =
           IF Images(J, f, i) # {} THEN RecordBefore(J, f, i, recs)
           ELSE IF Covers(e, f, i) THEN e.old[i - e.at + 1] ELSE recs[i]
<1> DEFINE K == Append(J, e)
           n == Len(J) + 1
<1>1. /\ K \in Seq(JournalEntries) /\ Len(J) \in Nat /\ Len(K) = n /\ K[n] = e
      /\ \A k \in 1 .. Len(J) : K[k] = J[k] /\ k \in 1 .. Len(K)
      /\ \A k \in 1 .. Len(K) : k \in 1 .. Len(J) \/ k = n
      /\ n \in 1 .. Len(K) /\ \A k \in 1 .. Len(J) : k < n
  BY Appended
<1> HIDE DEF K, n
<1>2. Images(K, f, i) = Images(J, f, i) \cup (IF Covers(e, f, i) THEN {n} ELSE {})
  BY <1>1 DEF Images
<1>3. CASE Images(J, f, i) # {}
  <2>1. PICK k \in Images(J, f, i) :
          (\A m \in Images(J, f, i) : k <= m) /\ OldestImage(J, f, i) = J[k]
    BY <1>3, OldestImageIs
  <2>2. PICK q \in Images(K, f, i) :
          (\A m \in Images(K, f, i) : q <= m) /\ OldestImage(K, f, i) = K[q]
    BY <1>1, <1>2, <1>3, OldestImageIs
  <2>3. k \in 1 .. Len(J) /\ k < n /\ q \in 1 .. Len(K) /\ n \in Nat
    BY <1>1, <2>1, <2>2 DEF Images
  <2>4. q <= k
    BY <1>2, <2>1, <2>2
  <2>5. q \in Images(J, f, i)
    <3>1. q # n
      BY <2>3, <2>4
    <3>. QED BY <1>2, <2>2, <3>1
  <2>6. q = k
    BY <2>1, <2>3, <2>4, <2>5
  <2>7. OldestImage(K, f, i) = OldestImage(J, f, i)
    BY <1>1, <2>1, <2>2, <2>3, <2>6
  <2>8. Images(K, f, i) # {}
    BY <1>2, <1>3
  <2>. QED BY <1>3, <2>7, <2>8 DEF RecordBefore, K
<1>4. CASE Images(J, f, i) = {} /\ Covers(e, f, i)
  <2>1. Images(K, f, i) = {n}
    BY <1>2, <1>4
  <2>2. OldestImage(K, f, i) = e
    BY <1>1, <2>1, OldestImageIs
  <2>. QED BY <1>4, <2>1, <2>2 DEF RecordBefore, K
<1>5. CASE Images(J, f, i) = {} /\ ~Covers(e, f, i)
  <2>1. Images(K, f, i) = {}
    BY <1>2, <1>5
  <2>. QED BY <1>5, <2>1 DEF RecordBefore, K
<1>. QED BY <1>3, <1>4, <1>5

(* A change of a file that its journal knows: above the boundary, or of a  *)
(* record that has an image.                                               *)
LEMMA ChangeIsUndone ==
  ASSUME NEW J, NEW s, OneBoundary(J, s), NEW b \in 1 .. Len(J), IsFile(J[b]), NEW f, f = J[b].f,
         NEW c, NEW d,
         J[b].existed => \A i \in 1 .. J[b].len : Images(J, f, i) = {} => d.recs[i] = c.recs[i]
  PROVE  UndoAll(J, f, d) = UndoAll(J, f, c)
<1>1. CASE ~J[b].existed
  BY <1>1, UndoAllIs
<1>2. CASE J[b].existed
  <2>1. \A i \in 1 .. J[b].len : RecordBefore(J, f, i, d.recs) = RecordBefore(J, f, i, c.recs)
    BY <1>2 DEF RecordBefore
  <2>2. [i \in 1 .. J[b].len |-> RecordBefore(J, f, i, d.recs)] =
        [i \in 1 .. J[b].len |-> RecordBefore(J, f, i, c.recs)]
    BY <2>1
  <2>3. BoundaryOf(J, f) = J[b]
    BY BoundaryOfEntry
  <2>. QED BY <1>2, <2>2, <2>3, Zenon DEF UndoAll
<1>. QED BY <1>1, <1>2

(* Contents written out.                                                   *)
LEMMA ContentIs ==
  ASSUME NEW c \in Content, c.exists, NEW R, R = [i \in 1 .. Len(c.recs) |-> c.recs[i]]
  PROVE  [exists |-> TRUE, recs |-> R] = c
<1>1. c = [exists |-> TRUE, recs |-> c.recs] /\ c.recs \in Seq(Values)
  BY ContentFields
<1>2. R = c.recs
  BY <1>1
<1>. QED BY <1>1, <1>2, Zenon

(* A journal whose entries are all undone.                                 *)
LEMMA UndoneIsBefore ==
  ASSUME NEW J, NEW s, NEW F \in [Files -> Content], JournalOK(J, s, F), UndoneTo(J, 0, F),
         NEW f \in Files
  PROVE  Before(J, f, F[f]) = F[f]
<1>1. SUFFICES ASSUME HasBoundary(J, f) PROVE UndoAll(J, f, F[f]) = F[f]
  BY DEF Before
<1>2. PICK b \in 1 .. Len(J) : IsFile(J[b]) /\ J[b].f = f
  BY <1>1 DEF HasBoundary
<1>3. J \in Seq(JournalEntries) /\ OneBoundary(J, s) /\ Len(J) \in Nat /\ F[f] \in Content
  BY DEF JournalOK, OneBoundary
<1>4. \A k : k \in (0 + 1) .. Len(J) <=> k \in 1 .. Len(J)
  BY <1>3
<1>5. CASE ~J[b].existed
  <2>1. F[f] = Absent
    BY <1>2, <1>4, <1>5 DEF UndoneTo, LengthsUndone
  <2>. QED BY <1>2, <1>3, <1>5, <2>1, UndoAllIs
<1>6. CASE J[b].existed
  <2>1. Len(F[f].recs) = J[b].len /\ F[f].exists
    BY <1>2, <1>4, <1>6 DEF UndoneTo, LengthsUndone, JournalOK, LongEnough
  <2>2. ASSUME NEW i \in 1 .. J[b].len
        PROVE  RecordBefore(J, f, i, F[f].recs) = F[f].recs[i]
    <3>1. CASE Images(J, f, i) = {}
      BY <3>1 DEF RecordBefore
    <3>2. CASE Images(J, f, i) # {}
      <4>1. PICK k \in Images(J, f, i) :
              (\A m \in Images(J, f, i) : k <= m) /\ OldestImage(J, f, i) = J[k]
        BY <1>3, <3>2, OldestImageIs
      <4>2. k \in 1 .. Len(J) /\ Covers(J[k], f, i) /\ IsImage(J[k]) /\ J[k].f = f
        BY <4>1 DEF Images, Covers, IsImage
      <4>3. \A m \in (0 + 1) .. (k - 1) : ~Covers(J[m], f, i)
        <5>. SUFFICES ASSUME NEW m \in 1 .. (k - 1), Covers(J[m], f, i) PROVE FALSE
          BY <4>2
        <5>1. m \in Images(J, f, i) /\ ~(k <= m)
          BY <1>3, <4>2 DEF Images
        <5>. QED BY <4>1, <5>1
      <4>4. F[f].recs[i] = J[k].old[i - J[k].at + 1]
        BY <1>4, <2>1, <4>2, <4>3 DEF UndoneTo, RecordsUndone
      <4>. QED BY <3>2, <4>1, <4>4 DEF RecordBefore
    <3>. QED BY <3>1, <3>2
  <2> DEFINE R == [i \in 1 .. J[b].len |-> RecordBefore(J, f, i, F[f].recs)]
  <2>3. R = [i \in 1 .. Len(F[f].recs) |-> F[f].recs[i]]
    BY <2>1, <2>2
  <2>4. UndoAll(J, f, F[f]) = [exists |-> TRUE, recs |-> R]
    BY <1>2, <1>3, <1>6, UndoAllIs
  <2> HIDE DEF R
  <2>. QED BY <1>3, <2>1, <2>3, <2>4, ContentIs
<1>. QED BY <1>5, <1>6

(* An entry more, which gives no record below the boundary another value.  *)
LEMMA UndoAllAppend ==
  ASSUME NEW J, NEW s, OneBoundary(J, s), NEW e \in JournalEntries, OneBoundary(Append(J, e), s),
         NEW b \in 1 .. Len(J), IsFile(J[b]), NEW f, f = J[b].f, NEW c,
         J[b].existed =>
           \A i \in 1 .. J[b].len : Images(J, f, i) = {} /\ Covers(e, f, i) => e.old[i - e.at + 1] = c.recs[i]
  PROVE  UndoAll(Append(J, e), f, c) = UndoAll(J, f, c)
<1> DEFINE K == Append(J, e)
<1>1. J \in Seq(JournalEntries) /\ b \in 1 .. Len(K) /\ K[b] = J[b]
  BY Appended DEF OneBoundary
<1>2. BoundaryOf(J, f) = J[b]
  BY BoundaryOfEntry
<1>3. BoundaryOf(K, f) = J[b]
  <2> HIDE DEF K
  <2>1. OneBoundary(K, s)
    BY DEF K
  <2>. QED BY <1>1, <2>1, BoundaryOfEntry
<1>4. CASE J[b].existed
  <2>1. \A i \in 1 .. J[b].len : RecordBefore(K, f, i, c.recs) = RecordBefore(J, f, i, c.recs)
    <3>. TAKE i \in 1 .. J[b].len
    <3>1. RecordBefore(K, f, i, c.recs) =
            IF Images(J, f, i) # {} THEN RecordBefore(J, f, i, c.recs)
            ELSE IF Covers(e, f, i) THEN e.old[i - e.at + 1] ELSE c.recs[i]
      BY <1>1, RecordBeforeAppend
    <3> HIDE DEF K
    <3>. QED BY <1>4, <3>1 DEF RecordBefore
  <2> HIDE DEF K
  <2>2. [i \in 1 .. J[b].len |-> RecordBefore(K, f, i, c.recs)] =
        [i \in 1 .. J[b].len |-> RecordBefore(J, f, i, c.recs)]
    BY <2>1
  <2>3. UndoAll(K, f, c) = UndoAll(J, f, c)
    BY <1>2, <1>3, <1>4, <2>2, Zenon DEF UndoAll
  <2>. QED BY <2>3 DEF K
<1>5. CASE ~J[b].existed
  <2> HIDE DEF K
  <2>1. UndoAll(K, f, c) = UndoAll(J, f, c)
    BY <1>2, <1>3, <1>5, Zenon DEF UndoAll
  <2>. QED BY <2>1 DEF K
<1>. QED BY <1>4, <1>5

(* track_file: a boundary is the contents of the file, or its absence.     *)
LEMMA BoundaryIsUnseen ==
  ASSUME NEW J, NEW s, NEW F \in [Files -> Content], JournalOK(J, s, F), NEW f \in ScopeFiles(s),
         ~HasBoundary(J, f), NEW e, e = FileEntry(f, F[f]), NEW g \in Files
  PROVE  Before(Append(J, e), g, F[g]) = Before(J, g, F[g])
<1> DEFINE K == Append(J, e)
<1>1. JournalOK(K, s, F) /\ f \in Files
  BY AppendBoundary DEF ScopeFiles
<1>2. /\ e \in JournalEntries /\ IsFile(e) /\ e.f = f
      /\ e.existed = F[f].exists /\ e.len = Len(F[f].recs)
      /\ \A h, i : ~Covers(e, h, i)
  BY <1>1, FileEntryOfContent, EntryFields
<1>3. J \in Seq(JournalEntries) /\ OneBoundary(J, s) /\ OneBoundary(K, s) /\ F[g] \in Content
  BY <1>1 DEF JournalOK, OneBoundary
<1>4. /\ Len(J) \in Nat /\ Len(K) = Len(J) + 1 /\ K[Len(J) + 1] = e /\ Len(J) + 1 \in 1 .. Len(K)
      /\ \A k \in 1 .. Len(J) : K[k] = J[k] /\ k \in 1 .. Len(K)
      /\ \A k \in 1 .. Len(K) : k \in 1 .. Len(J) \/ k = Len(J) + 1
  BY <1>2, <1>3, Appended
<1>5. CASE g # f
  <2>1. HasBoundary(K, g) <=> HasBoundary(J, g)
    <3> HIDE DEF K
    <3>. QED BY <1>2, <1>4, <1>5 DEF HasBoundary
  <2>2. CASE HasBoundary(J, g)
    <3>1. PICK b \in 1 .. Len(J) : IsFile(J[b]) /\ J[b].f = g
      BY <2>2 DEF HasBoundary
    <3>2. UndoAll(K, g, F[g]) = UndoAll(J, g, F[g])
      BY <1>2, <1>3, <3>1, UndoAllAppend
    <3>. QED BY <2>1, <2>2, <3>2 DEF Before
  <2>3. CASE ~HasBoundary(J, g)
    BY <2>1, <2>3 DEF Before
  <2>. QED BY <2>2, <2>3
<1>6. CASE g = f
  <2>1. \A i : Images(J, f, i) = {}
    <3>. SUFFICES ASSUME NEW i, NEW k \in 1 .. Len(J), Covers(J[k], f, i) PROVE FALSE
      BY DEF Images
    <3>1. IsImage(J[k]) /\ J[k].f = f
      BY DEF Covers, IsImage
    <3>2. PICK m \in 1 .. (k - 1) : IsFile(J[m]) /\ J[m].f = f
      BY <3>1 DEF JournalOK, BoundaryFirst
    <3>3. m \in 1 .. Len(J)
      BY <1>4, <3>2
    <3>. QED BY <3>2, <3>3 DEF HasBoundary
  <2>2. \A i : RecordBefore(K, f, i, F[f].recs) = F[f].recs[i]
    BY <1>2, <1>3, <2>1, RecordBeforeAppend
  <2> HIDE DEF K
  <2>3. HasBoundary(K, f)
    BY <1>2, <1>4 DEF HasBoundary
  <2>4. BoundaryOf(K, f) = e
    BY <1>2, <1>3, <1>4, BoundaryOfEntry
  <2>5. CASE F[f].exists
    <3> DEFINE R == [i \in 1 .. Len(F[f].recs) |-> RecordBefore(K, f, i, F[f].recs)]
    <3>1. R = [i \in 1 .. Len(F[f].recs) |-> F[f].recs[i]]
      BY <2>2
    <3>2. UndoAll(K, f, F[f]) = [exists |-> TRUE, recs |-> R]
      BY <1>2, <2>4, <2>5, Zenon DEF UndoAll
    <3> HIDE DEF R
    <3>3. UndoAll(K, f, F[f]) = F[f]
      BY <1>3, <1>6, <2>5, <3>1, <3>2, ContentIs
    <3>. QED BY <1>6, <2>3, <3>3 DEF Before, K
  <2>6. CASE ~F[f].exists
    <3>1. F[f] = Absent
      BY <1>3, <1>6, <2>6, ContentFields
    <3>2. UndoAll(K, f, F[f]) = Absent
      BY <1>2, <2>4, <2>6, Zenon DEF UndoAll
    <3>. QED BY <1>6, <2>3, <3>1, <3>2 DEF Before, K
  <2>. QED BY <2>5, <2>6
<1>. QED BY <1>5, <1>6

(* track_overwrite: an image is the contents the records have.             *)
LEMMA ImageIsUnseen ==
  ASSUME NEW J, NEW s, NEW F \in [Files -> Content], JournalOK(J, s, F),
         NEW e \in JournalEntries, IsImage(e),
         JournalOK(Append(J, e), s, F), HasBoundary(J, e.f),
         \A i \in 1 .. Len(F[e.f].recs) : Covers(e, e.f, i) => e.old[i - e.at + 1] = F[e.f].recs[i],
         NEW g \in Files
  PROVE  Before(Append(J, e), g, F[g]) = Before(J, g, F[g])
<1> DEFINE K == Append(J, e)
<1>1. J \in Seq(JournalEntries) /\ OneBoundary(J, s) /\ OneBoundary(K, s) /\ ~IsFile(e)
  BY EntryFields DEF JournalOK, OneBoundary
<1>2. /\ Len(J) \in Nat /\ Len(K) = Len(J) + 1 /\ K[Len(J) + 1] = e
      /\ \A k \in 1 .. Len(J) : K[k] = J[k] /\ k \in 1 .. Len(K)
      /\ \A k \in 1 .. Len(K) : k \in 1 .. Len(J) \/ k = Len(J) + 1
  BY <1>1, Appended
<1>3. HasBoundary(K, g) <=> HasBoundary(J, g)
  <2> HIDE DEF K
  <2>. QED BY <1>1, <1>2 DEF HasBoundary
<1>4. CASE HasBoundary(J, g)
  <2>1. PICK b \in 1 .. Len(J) : IsFile(J[b]) /\ J[b].f = g
    BY <1>4 DEF HasBoundary
  <2>2. ASSUME J[b].existed, NEW i \in 1 .. J[b].len, Covers(e, g, i)
        PROVE  e.old[i - e.at + 1] = F[g].recs[i]
    <3>1. g = e.f
      BY <2>2 DEF Covers
    <3>2. J[b].len <= Len(F[g].recs) /\ J[b].len \in Nat
      BY <1>1, <2>1, <2>2, EntryFields DEF JournalOK, LongEnough
    <3>3. Len(F[g].recs) \in Nat
      BY ContentFields
    <3>4. i \in 1 .. Len(F[g].recs)
      BY <3>2, <3>3
    <3>. QED BY <2>2, <3>1, <3>4
  <2>3. UndoAll(K, g, F[g]) = UndoAll(J, g, F[g])
    BY <1>1, <2>1, <2>2, UndoAllAppend, SMTT(30)
  <2>. QED BY <1>3, <1>4, <2>3 DEF Before
<1>5. CASE ~HasBoundary(J, g)
  BY <1>3, <1>5 DEF Before
<1>. QED BY <1>4, <1>5

(* A file written or restored: the journal tells what was there.           *)
KnowsChange(J, f, c, d) ==
  \A k \in 1 .. Len(J) : IsFile(J[k]) /\ J[k].f = f /\ J[k].existed =>
    \A i \in 1 .. J[k].len : Images(J, f, i) = {} => d.recs[i] = c.recs[i]

LEMMA ChangeIsUnseen ==
  ASSUME NEW J, NEW s, NEW F, NEW G, OneBoundary(J, s), NEW f, HasBoundary(J, f),
         KnowsChange(J, f, F[f], G[f]), NEW g, g # f => G[g] = F[g]
  PROVE  Before(J, g, G[g]) = Before(J, g, F[g])
<1>1. CASE g = f
  <2>1. PICK b \in 1 .. Len(J) : IsFile(J[b]) /\ J[b].f = f
    BY DEF HasBoundary
  <2>2. UndoAll(J, f, G[f]) = UndoAll(J, f, F[f])
    <3> DEFINE c == F[f]
               d == G[f]
    <3>1. J[b].existed => \A i \in 1 .. J[b].len : Images(J, f, i) = {} => d.recs[i] = c.recs[i]
      BY <2>1 DEF KnowsChange
    <3> HIDE DEF c, d
    <3>2. UndoAll(J, f, d) = UndoAll(J, f, c)
      BY <2>1, <3>1, ChangeIsUndone, ZenonT(60)
    <3>. QED BY <3>2 DEF c, d
  <2>. QED BY <1>1, <2>2 DEF Before
<1>2. CASE g # f
  BY <1>2
<1>. QED BY <1>1, <1>2

LEMMA UndoIsUnseen ==
  ASSUME NEW J, NEW s, NEW F \in [Files -> Content], JournalOK(J, s, F), NEW c \in 1 .. Len(J),
         NEW G, G = UndoneFiles(J, c, F), NEW g \in Files
  PROVE  Before(J, g, G[g]) = Before(J, g, F[g])
<1> DEFINE e == J[c]
           f == e.f
<1>1. J \in Seq(JournalEntries) /\ Len(J) \in Nat /\ e \in JournalEntries /\ f \in Files
  BY EntryFields DEF JournalOK, OneBoundary
<1>2. F[f] \in Content /\ (IsFile(e) /\ e.existed => F[f].exists /\ e.len <= Len(F[f].recs))
  BY <1>1 DEF JournalOK, LongEnough
<1>3. G[f] = Undone(e, F[f]) /\ \A h \in Files : h # f => G[h] = F[h]
  BY <1>1 DEF UndoneFiles
<1>4. HasBoundary(J, f)
  <2>1. CASE IsFile(e)
    BY <2>1 DEF HasBoundary
  <2>2. CASE IsImage(e)
    <3>1. PICK m \in 1 .. (c - 1) : IsFile(J[m]) /\ J[m].f = f
      BY <2>2 DEF JournalOK, BoundaryFirst
    <3>2. m \in 1 .. Len(J)
      BY <1>1, <3>1
    <3>. QED BY <3>1, <3>2 DEF HasBoundary
  <2>. QED BY <1>1, <2>1, <2>2, EntryFields
<1>5. ASSUME NEW k \in 1 .. Len(J), IsFile(J[k]), J[k].f = f, J[k].existed,
             NEW i \in 1 .. J[k].len, Images(J, f, i) = {}
      PROVE  G[f].recs[i] = F[f].recs[i]
  <2>1. CASE IsFile(e)
    <3>1. k = c
      BY <1>5, <2>1 DEF JournalOK, OneBoundary
    <3>. QED BY <1>1, <1>2, <1>3, <1>5, <3>1, UndoneContent
  <2>2. CASE IsImage(e)
    <3>1. ~Covers(e, f, i)
      BY <1>5 DEF Images
    <3>2. J[k].len \in Nat /\ Len(F[f].recs) \in Nat /\ J[k].len <= Len(F[f].recs)
      BY <1>1, <1>2, <1>5, EntryFields, ContentFields DEF JournalOK, LongEnough
    <3>3. i \in 1 .. Len(F[f].recs)
      BY <3>2
    <3>. QED BY <1>1, <1>2, <1>3, <2>2, <3>1, <3>3, UndoneContent
  <2>. QED BY <1>1, <2>1, <2>2, EntryFields
<1>6. OneBoundary(J, s) /\ KnowsChange(J, f, F[f], G[f])
  BY <1>5 DEF JournalOK, KnowsChange
<1>7. g # f => G[g] = F[g]
  BY <1>3
<1> HIDE DEF f
<1>. QED BY <1>4, <1>6, <1>7, ChangeIsUnseen

(* A write that the journal protects.                                      *)
LEMMA WriteIsUnseen ==
  ASSUME NEW J, NEW s, NEW F \in [Files -> Content], JournalOK(J, s, F), NEW o,
         GrowsFile(o, s, F), HasBoundary(J, o.f), Protected(o, J), NEW G,
         \A i \in 1 .. Len(F[o.f].recs) : G[o.f].recs[i] = F[o.f].recs[i] \/ MayChange(o, i),
         NEW g \in Files, g # o.f => G[g] = F[g]
  PROVE  Before(J, g, G[g]) = Before(J, g, F[g])
<1> DEFINE f == o.f
<1>1. f \in Files /\ F[f] \in Content /\ J \in Seq(JournalEntries) /\ OneBoundary(J, s)
  BY WriteOpFields DEF GrowsFile, JournalOK, OneBoundary
<1>2. ASSUME NEW k \in 1 .. Len(J), IsFile(J[k]), J[k].f = f, J[k].existed,
             NEW i \in 1 .. J[k].len, Images(J, f, i) = {}
      PROVE  G[f].recs[i] = F[f].recs[i]
  <2>1. ~MayChange(o, i)
    BY <1>2 DEF Protected, Images
  <2>2. J[k].len \in Nat /\ Len(F[f].recs) \in Nat /\ J[k].len <= Len(F[f].recs)
    BY <1>1, <1>2, EntryFields, ContentFields DEF JournalOK, LongEnough
  <2>3. i \in 1 .. Len(F[f].recs)
    BY <2>2
  <2>. QED BY <2>1, <2>3
<1>3. HasBoundary(J, f) /\ (g # f => G[g] = F[g]) /\ KnowsChange(J, f, F[f], G[f])
  BY <1>2 DEF KnowsChange
<1> HIDE DEF f
<1>. QED BY <1>1, <1>3, ChangeIsUnseen

-----------------------------------------------------------------------------
(* The committed contents, from the journals there are.                    *)
View(JS, f, c) ==
  LET KS == {J \in JS : Boundaries(J, f) # {}}
  IN IF KS = {} THEN c ELSE UndoAll(CHOOSE J \in KS : TRUE, f, c)

LEMMA ViewIs ==
  ASSUME NEW JS, NEW f, NEW c, NEW J, J \in JS \/ ~HasBoundary(J, f),
         \A K \in JS : HasBoundary(K, f) => K = J
  PROVE  View(JS, f, c) = Before(J, f, c)
<1> DEFINE KS == {K \in JS : Boundaries(K, f) # {}}
<1>1. KS = {K \in JS : HasBoundary(K, f)}
  BY BoundaryExists
<1>2. CASE HasBoundary(J, f)
  <2>1. KS = {J}
    BY <1>1, <1>2
  <2>2. (CHOOSE K \in KS : TRUE) = J
    BY <2>1
  <2>. QED BY <1>2, <2>1, <2>2 DEF View, Before
<1>3. CASE ~HasBoundary(J, f)
  <2>1. KS = {}
    BY <1>1, <1>3
  <2>. QED BY <1>3, <2>1 DEF View, Before
<1>. QED BY <1>2, <1>3

LEMMA ViewFrame ==
  ASSUME NEW JS, NEW KS, NEW f, NEW c,
         \A J : HasBoundary(J, f) => (J \in JS <=> J \in KS)
  PROVE  View(JS, f, c) = View(KS, f, c)
<1> DEFINE A == {J \in JS : Boundaries(J, f) # {}}
           B == {J \in KS : Boundaries(J, f) # {}}
<1>1. A = B
  BY BoundaryExists
<1>2. /\ View(JS, f, c) = IF A = {} THEN c ELSE UndoAll(CHOOSE J \in A : TRUE, f, c)
      /\ View(KS, f, c) = IF B = {} THEN c ELSE UndoAll(CHOOSE J \in B : TRUE, f, c)
  BY Zenon DEF View
<1> HIDE DEF A, B
<1>. QED BY <1>1, <1>2

LEMMA CommittedIsView ==
  ASSUME NEW f
  PROVE  Committed(f) = View(Journals, f, file[f])
BY DEF Committed, View

(* The journals of a scope that a writer works on, and all others.         *)
OwnJournals(w, s) ==
  {jentries[t] : t \in Pending \cap {s}} \cup {entries[v] : v \in InMemory \cap {w}}
OtherJournals(w, s) ==
  {jentries[t] : t \in Pending \ {s}} \cup {entries[v] : v \in InMemory \ {w}}

LEMMA AllJournals ==
  ASSUME NEW w, NEW s
  PROVE  Journals = OwnJournals(w, s) \cup OtherJournals(w, s)
BY DEF Journals, OwnJournals, OtherJournals

LEMMA BoundaryInScope ==
  ASSUME NEW J, NEW s, NEW F, JournalOK(J, s, F), NEW f, HasBoundary(J, f)
  PROVE  f \in ScopeFiles(s)
BY DEF JournalOK, OneBoundary, HasBoundary

LEMMA InMemoryOwns ==
  ASSUME LockInv, DataInv, NEW v \in InMemory
  PROVE  /\ v \in Writers /\ scope[v] \in Scopes /\ Owns(v, scope[v])
         /\ JournalOK(entries[v], scope[v], file)
         /\ \A p \in Pending : ~ConflictsWith(p, scope[v])
<1>1. v \in Writers /\ pc[v] \in InTransaction /\ pc[v] \in Holding /\ pc[v] # "idle"
  BY DEF InMemory, InTransaction, Holding, Active
<1>. QED BY <1>1, OwnScope DEF DataInv, EntriesOK, RemovedOK

(* Nobody else's journal is about a file of the scope.                     *)
Apart(w, s) == \A K \in OtherJournals(w, s) : \A f \in ScopeFiles(s) : ~HasBoundary(K, f)

LEMMA OtherJournalsApart ==
  ASSUME LockInv, DataInv, NEW w \in Writers, NEW s, WorksOnJournal(w, s)
  PROVE  Apart(w, s)
<1>. SUFFICES ASSUME NEW K \in OtherJournals(w, s), NEW f \in ScopeFiles(s), HasBoundary(K, f)
              PROVE  FALSE
  BY DEF Apart
<1>1. CASE K \in {jentries[t] : t \in Pending \ {s}}
  <2>1. PICK t \in Pending \ {s} : K = jentries[t]
    BY <1>1
  <2>2. f \in ScopeFiles(t)
    BY <2>1, BoundaryInScope DEF DataInv, Pending
  <2>. QED BY <2>1, <2>2, JournalsApart DEF LockInv, DataInv
<1>2. CASE K \in {entries[v] : v \in InMemory \ {w}}
  <2>1. PICK v \in InMemory \ {w} : K = entries[v]
    BY <1>2
  <2>2. v \in Writers /\ Owns(v, scope[v]) /\ f \in ScopeFiles(scope[v])
    BY <2>1, InMemoryOwns, BoundaryInScope
  <2>. QED BY <2>1, <2>2, OwnersApart DEF WorksOnJournal
<1>. QED BY <1>1, <1>2 DEF OtherJournals

LEMMA OtherJournalsKept ==
  ASSUME NEW w \in Writers, DataStep(w), NEW s, DataSeenByOthers(w, s)
  PROVE  OtherJournals(w, s)' = OtherJournals(w, s)
<1>1. \A t \in Scopes \ {s} : jentries'[t] = jentries[t] /\ jstate'[t] = jstate[t]
  BY DEF DataSeenByOthers
<1>2. Pending' \ {s} = Pending \ {s}
  BY <1>1 DEF Pending
<1>3. {jentries[t] : t \in Pending \ {s}}' = {jentries[t] : t \in Pending \ {s}}
  BY <1>1, <1>2 DEF Pending
<1>4. \A v \in Writers \ {w} :
        /\ entries'[v] = entries[v] /\ pc'[v] = pc[v] /\ scope'[v] = scope[v]
        /\ pc[v] \in Holding => jstate'[scope[v]] = jstate[scope[v]]
  <2>. TAKE v \in Writers \ {w}
  <2>1. entries'[v] = entries[v] /\ pc'[v] = pc[v] /\ scope'[v] = scope[v]
    BY DEF DataSeenByOthers, DataStep, StepSeenByOthers
  <2>2. CASE pc[v] \in Holding
    <3>1. scope[v] \in Scopes /\ Owns(v, scope[v])
      BY <2>2, OwnScope DEF DataStep, Holding, Active
    <3>2. jstate'[scope[v]] = jstate[scope[v]]
      BY <3>1, FilesOfOthers
    <3>. QED BY <2>1, <3>2
  <2>3. CASE pc[v] \notin Holding
    BY <2>1, <2>3
  <2>. QED BY <2>2, <2>3
<1>5. InMemory' \ {w} = InMemory \ {w}
  <2>1. \A v \in Writers \ {w} : v \in InMemory' <=> v \in InMemory
    BY <1>4 DEF InMemory, Holding, Active
  <2>2. InMemory' \subseteq Writers /\ InMemory \subseteq Writers
    BY DEF InMemory
  <2>. QED BY <2>1, <2>2
<1>6. {entries[v] : v \in InMemory \ {w}}' = {entries[v] : v \in InMemory \ {w}}
  <2>1. \A v \in InMemory \ {w} : entries'[v] = entries[v]
    BY <1>4 DEF InMemory
  <2>. QED BY <1>5, <2>1
<1>. QED BY <1>3, <1>6 DEF OtherJournals

(* The own journal is J, or there is none and J is empty.                  *)
OwnJournalIs(w, s, J) ==
  OwnJournals(w, s) \subseteq {J} /\ (J \in OwnJournals(w, s) \/ J = <<>>)

LEMMA NoBoundaryInNoJournal ==
  ASSUME NEW f
  PROVE  ~HasBoundary(<<>>, f)
BY DEF HasBoundary

DbSame == \A f \in Files : Committed(f)' = Committed(f)

(* A step that works on one journal and its files.                         *)
LEMMA JournalStep ==
  ASSUME NEW w \in Writers, DataStep(w), NEW s, DataSeenByOthers(w, s), Apart(w, s),
         NEW J, OwnJournalIs(w, s, J), \A f : HasBoundary(J, f) => f \in ScopeFiles(s),
         NEW K, OwnJournalIs(w, s, K)', \A f : HasBoundary(K, f) => f \in ScopeFiles(s),
         NEW f \in Files,
         f \in ScopeFiles(s) => Before(K, f, file'[f]) = Before(J, f, file[f])
  PROVE  Committed(f)' = Committed(f)
<1> DEFINE OJ == OwnJournals(w, s)
           OJn == OwnJournals(w, s)'
           XJ == OtherJournals(w, s)
           JS == Journals
           JSn == Journals'
<1>1. JS = OJ \cup XJ /\ JSn = OJn \cup XJ
  <2>1. Journals' = OwnJournals(w, s)' \cup OtherJournals(w, s)'
    BY DEF Journals, OwnJournals, OtherJournals
  <2>. QED BY <2>1, AllJournals, OtherJournalsKept
<1>2. OJ \subseteq {J} /\ (J \in OJ \/ J = <<>>) /\ OJn \subseteq {K} /\ (K \in OJn \/ K = <<>>)
  BY DEF OwnJournalIs
<1>3. Committed(f) = View(JS, f, file[f]) /\ Committed(f)' = View(JSn, f, file'[f])
  BY DEF Committed, View
<1>4. CASE f \in ScopeFiles(s)
  <2>1. \A L \in XJ : ~HasBoundary(L, f)
    BY <1>4 DEF Apart
  <2> HIDE DEF OJ, OJn, XJ, JS, JSn
  <2>2. View(JS, f, file[f]) = Before(J, f, file[f])
    BY <1>1, <1>2, <2>1, ViewIs, NoBoundaryInNoJournal
  <2>3. View(JSn, f, file'[f]) = Before(K, f, file'[f])
    BY <1>1, <1>2, <2>1, ViewIs, NoBoundaryInNoJournal
  <2>. QED BY <1>3, <1>4, <2>2, <2>3
<1>5. CASE f \notin ScopeFiles(s)
  <2>1. file'[f] = file[f]
    BY <1>5 DEF DataSeenByOthers
  <2> HIDE DEF OJ, OJn, XJ, JS, JSn
  <2>2. \A L : HasBoundary(L, f) => (L \in JS <=> L \in JSn)
    BY <1>1, <1>2, <1>5
  <2>3. View(JS, f, file[f]) = View(JSn, f, file[f])
    BY <2>2, ViewFrame
  <2>. QED BY <1>3, <2>1, <2>3
<1>. QED BY <1>4, <1>5

(* A step that leaves files and journals as they are, or adds or removes   *)
(* an empty journal.                                                       *)
LEMMA QuietDb ==
  ASSUME file' = file, Journals' \ {<<>>} = Journals \ {<<>>}
  PROVE  DbSame
<1>. SUFFICES ASSUME NEW f \in Files PROVE Committed(f)' = Committed(f)
  BY DEF DbSame
<1> DEFINE JS == Journals
           JSn == Journals'
<1>1. Committed(f) = View(JS, f, file[f]) /\ Committed(f)' = View(JSn, f, file'[f])
  BY DEF Committed, View
<1>2. JSn \ {<<>>} = JS \ {<<>>}
  OBVIOUS
<1> HIDE DEF JS, JSn
<1>3. \A L : HasBoundary(L, f) => (L \in JS <=> L \in JSn)
  BY <1>2, NoBoundaryInNoJournal
<1>. QED BY <1>1, <1>3, ViewFrame

-----------------------------------------------------------------------------
(* The journal a writer works on is the one it has in memory.              *)
OnJournal == Writing \cup {"undo", "abort", "unlinked"}
OwnIs(w, s, J) ==
  OwnJournalIs(w, s, J) /\ WorksOnJournal(w, s) /\ \A f : HasBoundary(J, f) => f \in ScopeFiles(s)

EntriesAreOwn ==
  \A w \in Writers : \A s, J :
    pc[w] \in OnJournal /\ s = UndoneScope(w) /\ J = entries[w] => OwnIs(w, s, J)

LEMMA OwnJournal == LockInv /\ DataInv => EntriesAreOwn
<1>. SUFFICES ASSUME LockInv, DataInv, NEW w \in Writers, NEW s, NEW J, pc[w] \in OnJournal,
                     s = UndoneScope(w), J = entries[w]
              PROVE  OwnIs(w, s, J)
  BY DEF EntriesAreOwn
<1>1. EntriesOK(w) /\ RemovedOK(w)
  BY DEF DataInv
<1>2. CASE pc[w] \in {"undo", "abort"}
  <2>1. /\ s \in Scopes /\ WorksOnJournal(w, s) /\ JournalOK(J, s, file)
        /\ jstate[s] \in {"ready", "none"} /\ (jstate[s] = "ready" => J = jentries[s])
        /\ jstate[s] = "none" => pc[w] = "abort"
    BY <1>2, UndoneJournal
  <2>2. pc[w] = "abort" => s = scope[w]
    BY DEF UndoneScope
  <2>3. OwnJournalIs(w, s, J)
    <3>1. CASE jstate[s] = "ready"
      <4>1. s \in Pending /\ w \notin InMemory
        BY <1>2, <2>1, <2>2, <3>1 DEF Pending, InMemory
      <4>. QED BY <2>1, <3>1, <4>1 DEF OwnJournalIs, OwnJournals
    <3>2. CASE jstate[s] = "none"
      <4>1. s \notin Pending /\ w \in InMemory
        BY <1>2, <2>1, <2>2, <3>2 DEF Pending, InMemory
      <4>. QED BY <4>1 DEF OwnJournalIs, OwnJournals
    <3>. QED BY <2>1, <3>1, <3>2
  <2>. QED BY <2>1, <2>3, BoundaryInScope DEF OwnIs
<1>3. CASE pc[w] \in Writing
  <2>1. s = scope[w] /\ s \in Scopes /\ Owns(w, s) /\ s \in Pending /\ jstate[s] = "ready"
    BY <1>3, OwnScope DEF UndoneScope, Writing, Holding, Active
  <2>2. w \notin InMemory /\ J = jentries[s] /\ JournalOK(J, s, file)
    BY <1>1, <1>3, <2>1 DEF InMemory, Writing, EntriesOK, InTransaction
  <2>. QED BY <2>1, <2>2, BoundaryInScope DEF OwnIs, OwnJournalIs, OwnJournals, WorksOnJournal
<1>4. CASE pc[w] = "unlinked"
  <2>1. s = scope[w] /\ jstate[s] = "none" /\ w \in InMemory /\ s \notin Pending
    BY <1>1, <1>4 DEF UndoneScope, RemovedOK, InMemory, Pending
  <2>2. Owns(w, s) /\ JournalOK(J, s, file)
    BY <2>1, InMemoryOwns
  <2>. QED BY <2>1, <2>2, BoundaryInScope DEF OwnIs, OwnJournalIs, OwnJournals, WorksOnJournal
<1>. QED BY <1>2, <1>3, <1>4 DEF OnJournal

(* A step on one's own journal, before and after.                          *)
LEMMA OwnStep ==
  ASSUME NEW w \in Writers, DataStep(w), DataInv', NEW s, DataSeenByOthers(w, s),
         pc[w] \in OnJournal, s = UndoneScope(w), pc'[w] \in OnJournal, s = UndoneScope(w)',
         \A f \in ScopeFiles(s) : Before(entries'[w], f, file'[f]) = Before(entries[w], f, file[f])
  PROVE  DbSame
<1>1. PICK J : J = entries[w]
  OBVIOUS
<1>2. PICK K : K = entries'[w]
  OBVIOUS
<1>3. OwnIs(w, s, J)
  BY <1>1, OwnJournal DEF DataStep, EntriesAreOwn
<1>4. OwnIs(w, s, K)'
  <2>1. (LockInv /\ DataInv => EntriesAreOwn)'
    BY OwnJournal, PTL
  <2>2. \A t, L : pc'[w] \in OnJournal /\ t = UndoneScope(w)' /\ L = entries'[w] => OwnIs(w, t, L)'
    BY <2>1 DEF DataStep, EntriesAreOwn
  <2>. QED BY <1>2, <2>2
<1>5. Apart(w, s)
  BY <1>3, OtherJournalsApart DEF OwnIs, DataStep
<1>6. /\ OwnJournalIs(w, s, J) /\ \A f : HasBoundary(J, f) => f \in ScopeFiles(s)
      /\ OwnJournalIs(w, s, K)' /\ \A f : HasBoundary(K, f) => f \in ScopeFiles(s)
  BY <1>3, <1>4 DEF OwnIs
<1>7. \A f \in ScopeFiles(s) : Before(K, f, file'[f]) = Before(J, f, file[f])
  BY <1>1, <1>2
<1>8. ASSUME NEW f \in Files PROVE Committed(f)' = Committed(f)
  BY <1>5, <1>6, <1>7, JournalStep
<1>. QED BY <1>8 DEF DbSame

(* A step after which the scope has no journal.                            *)
NoOwnJournal(w, s) == s \notin Pending /\ w \notin InMemory

LEMMA LastStep ==
  ASSUME NEW w \in Writers, DataStep(w), NEW s, DataSeenByOthers(w, s),
         pc[w] \in OnJournal, s = UndoneScope(w), NoOwnJournal(w, s)', file' = file
  PROVE  /\ \A f \in Files \ ScopeFiles(s) : Committed(f)' = Committed(f)
         /\ \A f \in ScopeFiles(s) : Committed(f)' = file[f]
         /\ UndoneTo(entries[w], 0, file) /\ JournalOK(entries[w], s, file) => DbSame
<1>1. PICK J : J = entries[w]
  OBVIOUS
<1>2. OwnIs(w, s, J)
  BY <1>1, OwnJournal DEF DataStep, EntriesAreOwn
<1>3. Apart(w, s) /\ OwnJournalIs(w, s, J) /\ \A f : HasBoundary(J, f) => f \in ScopeFiles(s)
  BY <1>2, OtherJournalsApart DEF OwnIs, DataStep
<1>4. OwnJournals(w, s)' = {} /\ OwnJournalIs(w, s, <<>>)'
  BY DEF NoOwnJournal, OwnJournals, OwnJournalIs
<1>5. PICK K : K = <<>>
  OBVIOUS
<1>6. OwnJournalIs(w, s, K)' /\ \A f : ~HasBoundary(K, f)
  BY <1>4, <1>5, NoBoundaryInNoJournal DEF OwnJournalIs
<1>7. ASSUME NEW f \in Files, f \notin ScopeFiles(s) PROVE Committed(f)' = Committed(f)
  BY <1>3, <1>6, <1>7, JournalStep
<1>8. ASSUME NEW f \in ScopeFiles(s) PROVE Committed(f)' = file[f]
  <2> DEFINE JSn == Journals'
  <2>1. JSn = OtherJournals(w, s)
    <3>1. Journals' = OwnJournals(w, s)' \cup OtherJournals(w, s)'
      BY DEF Journals, OwnJournals, OtherJournals
    <3>. QED BY <1>4, <3>1, OtherJournalsKept
  <2>2. Committed(f)' = View(JSn, f, file[f])
    BY DEF Committed, View
  <2> HIDE DEF JSn
  <2>3. \A L \in JSn : ~HasBoundary(L, f)
    BY <1>3, <2>1 DEF Apart
  <2>4. View(JSn, f, file[f]) = Before(K, f, file[f])
    BY <1>6, <2>3, ViewIs
  <2>. QED BY <1>6, <2>2, <2>4 DEF Before
<1>9. ASSUME UndoneTo(J, 0, file), JournalOK(J, s, file), NEW f \in Files
      PROVE  Committed(f)' = Committed(f)
  <2>1. Before(J, f, file[f]) = file[f]
    BY <1>9, UndoneIsBefore DEF DataStep, DataInv, DataTypes
  <2>2. Before(K, f, file'[f]) = Before(J, f, file[f])
    BY <1>6, <2>1 DEF Before
  <2>. QED BY <1>3, <1>6, <2>2, JournalStep
<1>. QED BY <1>1, <1>7, <1>8, <1>9 DEF DbSame, ScopeFiles

-----------------------------------------------------------------------------
(* The steps of the abstract store.                                        *)
Has(w) == pc[w] \in Active \/ w \in Unjournaled
Copy(w) == IF Has(w) THEN [f \in ScopeFiles(scope[w]) |-> file[f]] ELSE <<>>
Db == [f \in Files |-> Committed(f)]
Work == [w \in Writers |-> Copy(w)]
StoreStep == [Store!Next]_<<Db, Work, Unjournaled>>
OtherCopies(w) == \A v \in Writers \ {w} :
  Copy(v)' = Copy(v) /\ (v \in Unjournaled' <=> v \in Unjournaled)

LEMMA UnjournaledWriters == Unjournaled \subseteq Writers /\ Unjournaled' \subseteq Writers
BY DEF Unjournaled, InMemory

LEMMA StoreUnseen ==
  ASSUME DbSame, \A v \in Writers : Copy(v)' = Copy(v), Unjournaled' = Unjournaled
  PROVE  StoreStep
<1>1. Db' = Db
  BY DEF Db, DbSame
<1>2. Work' = Work
  BY DEF Work
<1>. QED BY <1>1, <1>2 DEF StoreStep

(* The writer and its others together.                                     *)
LEMMA StoreUnseenBy ==
  ASSUME NEW w \in Writers, DbSame, OtherCopies(w), Copy(w)' = Copy(w),
         w \in Unjournaled' <=> w \in Unjournaled
  PROVE  StoreStep
<1>1. Unjournaled' = Unjournaled
  BY UnjournaledWriters DEF OtherCopies
<1>. QED BY <1>1, StoreUnseen DEF OtherCopies

LEMMA StoreWrite ==
  ASSUME NEW w \in Writers, DbSame, OtherCopies(w), Has(w), Has(w)',
         w \in Unjournaled' <=> w \in Unjournaled, scope'[w] = scope[w]
  PROVE  StoreStep
<1>1. Db' = Db /\ Unjournaled' = Unjournaled
  BY UnjournaledWriters DEF Db, DbSame, OtherCopies
<1>2. \A v \in Writers : Work[v] = Copy(v) /\ Work'[v] = Copy(v)'
  BY DEF Work
<1>3. DOMAIN Work'[w] = ScopeFiles(scope[w]) /\ DOMAIN Work[w] = ScopeFiles(scope[w])
  BY <1>2 DEF Copy
<1>4. CASE Work[w] = <<>>
  <2>1. ScopeFiles(scope[w]) = {}
    BY <1>3, <1>4
  <2>2. Copy(w)' = Copy(w)
    BY <2>1 DEF Copy
  <2>. QED BY <2>2, StoreUnseenBy
<1>5. CASE Work[w] # <<>>
  <2>1. \A v \in Writers \ {w} : Work'[v] = Work[v]
    BY <1>2 DEF OtherCopies
  <2>2. Store!Write(w)
    BY <1>1, <1>3, <1>5, <2>1 DEF Store!Write, Store!Idle, Work, Db, Copy, Has
  <2>. QED BY <2>2 DEF StoreStep, Store!Next
<1>. QED BY <1>4, <1>5

LEMMA StoreDiscard ==
  ASSUME NEW w \in Writers, DbSame, OtherCopies(w), ~Has(w)'
  PROVE  StoreStep
<1>1. Db' = Db
  BY DEF Db, DbSame
<1>2. Work' = [Work EXCEPT ![w] = <<>>]
  BY DEF Work, OtherCopies, Copy
<1>3. Unjournaled' = Unjournaled \ {w}
  BY UnjournaledWriters DEF OtherCopies, Has
<1>4. Store!Discard(w)
  BY <1>1, <1>2, <1>3 DEF Store!Discard, Work, Db, Copy, Has
<1>. QED BY <1>4 DEF StoreStep, Store!Next

(* The directory sync fails: the undo begins, without a journal.           *)
LEMMA StoreFail ==
  ASSUME NEW w \in Writers, DbSame, OtherCopies(w), Copy(w)' = Copy(w),
         w \notin Unjournaled, w \in Unjournaled'
  PROVE  StoreStep
<1>1. Db' = Db
  BY DEF Db, DbSame
<1>2. Work' = Work
  BY DEF Work, OtherCopies
<1>3. Unjournaled' = Unjournaled \cup {w}
  BY UnjournaledWriters DEF OtherCopies
<1>4. Store!FailCommit(w)
  BY <1>1, <1>2, <1>3 DEF Store!FailCommit, Work, Db, Copy, Has
<1>. QED BY <1>4 DEF StoreStep, Store!Next

(* A commit, or the end of an undo that did not get to its end.            *)
LEMMA StoreCommit ==
  ASSUME NEW w \in Writers, OtherCopies(w), Has(w), ~Has(w)',
         \A f \in Files \ ScopeFiles(scope[w]) : Committed(f)' = Committed(f),
         \A f \in ScopeFiles(scope[w]) : Committed(f)' = file[f]
  PROVE  StoreStep
<1>1. Copy(w)' = <<>> /\ Copy(w) = [f \in ScopeFiles(scope[w]) |-> file[f]]
  BY DEF Copy
<1>2. DOMAIN Copy(w) = ScopeFiles(scope[w]) /\ \A f \in ScopeFiles(scope[w]) : Copy(w)[f] = file[f]
  BY <1>1
<1>3. Work' = [Work EXCEPT ![w] = <<>>] /\ Work[w] = Copy(w)
  BY <1>1 DEF Work, OtherCopies
<1>4. Db' = [f \in Files |-> IF f \in DOMAIN Work[w] THEN Work[w][f] ELSE Db[f]]
  BY <1>2, <1>3 DEF Db
<1>5. Store!Publish(w)
  BY <1>3, <1>4 DEF Store!Publish, Work, Db, Copy, Has
<1>6. Unjournaled' = Unjournaled \ {w}
  BY UnjournaledWriters DEF OtherCopies, Has
<1>7. CASE w \in Unjournaled
  <2>1. Store!Tear(w)
    BY <1>5, <1>6, <1>7 DEF Store!Tear
  <2>. QED BY <2>1 DEF StoreStep, Store!Next
<1>8. CASE w \notin Unjournaled /\ Copy(w) = <<>>
  <2>1. ScopeFiles(scope[w]) = {}
    BY <1>2, <1>8
  <2>2. DbSame
    BY <2>1 DEF DbSame
  <2>. QED BY <1>1, <1>6, <1>8, <2>2, StoreUnseenBy
<1>9. CASE w \notin Unjournaled /\ Copy(w) # <<>>
  <2>1. Work[w] # <<>> /\ Unjournaled' = Unjournaled
    BY <1>3, <1>6, <1>9
  <2>2. Store!Commit(w)
    BY <1>5, <1>9, <2>1 DEF Store!Commit, Store!Idle, Work, Copy, Has
  <2>. QED BY <2>2 DEF StoreStep, Store!Next
<1>. QED BY <1>7, <1>8, <1>9

LEMMA StoreBegin ==
  ASSUME NEW w \in Writers, DbSame, OtherCopies(w), ~Has(w), pc'[w] \in Active,
         w \notin Unjournaled', scope[w] \in UsedScopes, scope'[w] = scope[w], file' = file,
         \A f \in ScopeFiles(scope[w]) : Committed(f) = file[f],
         \A v \in Writers : Has(v) => ScopeFiles(scope[w]) \cap ScopeFiles(scope[v]) = {}
  PROVE  StoreStep
<1> DEFINE F == ScopeFiles(scope[w])
<1>1. Db' = Db /\ Unjournaled' = Unjournaled /\ w \notin Unjournaled
  BY UnjournaledWriters DEF Db, DbSame, OtherCopies, Has
<1>2. Copy(w) = <<>> /\ Copy(w)' = [f \in F |-> file[f]]
  BY DEF Copy, Has
<1>3. F \subseteq Files /\ F \in {ScopeFiles(s) : s \in UsedScopes}
  BY DEF ScopeFiles
<1>4. [f \in F |-> file[f]] = [f \in F |-> Db[f]]
  BY <1>3 DEF Db
<1>5. Work' = [Work EXCEPT ![w] = [f \in F |-> Db[f]]] /\ Work[w] = <<>>
  BY <1>2, <1>4 DEF Work, OtherCopies
<1>6. \A v \in Writers : F \cap DOMAIN Work[v] = {}
  <2>. SUFFICES ASSUME NEW v \in Writers PROVE F \cap DOMAIN Copy(v) = {}
    BY DEF Work
  <2>1. CASE Has(v)
    BY <2>1 DEF Copy
  <2>2. CASE ~Has(v)
    BY <2>2 DEF Copy
  <2>. QED BY <2>1, <2>2
<1> HIDE DEF F
<1>7. Store!Begin(w)
  BY <1>1, <1>3, <1>5, <1>6 DEF Store!Begin, Store!Idle, Work, Db, Copy, Has
<1>. QED BY <1>7 DEF StoreStep, Store!Next

-----------------------------------------------------------------------------
(* Only a writer that owns a file changes what is committed of it.         *)
OnlyOwned(w) ==
  \A f \in Files :
    Committed(f)' = Committed(f) \/ (Owns(w, scope[w]) /\ f \in ScopeFiles(scope[w]))

LEMMA SameIsOwned ==
  ASSUME NEW w, DbSame
  PROVE  OnlyOwned(w)
BY DEF DbSame, OnlyOwned

LEMMA CopiesOfOthers ==
  ASSUME NEW w \in Writers, DataStep(w), NEW s, DataSeenByOthers(w, s)
  PROVE  OtherCopies(w)
<1>. SUFFICES ASSUME NEW v \in Writers, v # w
              PROVE  Copy(v)' = Copy(v) /\ (v \in Unjournaled' <=> v \in Unjournaled)
  BY DEF OtherCopies
<1>1. pc'[v] = pc[v] /\ scope'[v] = scope[v]
  BY DEF DataStep, StepSeenByOthers
<1>2. CASE pc[v] \in Active \cup {"abort"}
  <2>1. scope[v] \in Scopes /\ Owns(v, scope[v])
    BY <1>2, OwnScope DEF DataStep, Holding, Active
  <2>2. jstate'[scope[v]] = jstate[scope[v]] /\ \A f \in ScopeFiles(scope[v]) : file'[f] = file[f]
    BY <2>1, FilesOfOthers
  <2>3. v \in Unjournaled' <=> v \in Unjournaled
    BY <1>1, <2>2 DEF Unjournaled, InMemory
  <2>. QED BY <1>1, <2>2, <2>3 DEF Copy, Has
<1>3. CASE pc[v] \notin Active \cup {"abort"}
  BY <1>1, <1>3 DEF Copy, Has, Unjournaled
<1>. QED BY <1>2, <1>3

(* A step that changes no file and no journal, and what the writer has in  *)
(* memory only if it does not count.                                       *)
LEMMA QuietWriter ==
  ASSUME NEW w \in Writers, StepSeenByOthers(w), UNCHANGED <<file, jstate, jentries>>,
         \A v \in Writers \ {w} : entries'[v] = entries[v],
         (w \in InMemory)' <=> w \in InMemory, w \in InMemory => entries'[w] = entries[w]
  PROVE  DbSame /\ OtherCopies(w)
<1>1. \A v \in Writers \ {w} : pc'[v] = pc[v] /\ scope'[v] = scope[v]
  BY DEF StepSeenByOthers
<1>2. OtherCopies(w)
  BY <1>1 DEF OtherCopies, Copy, Has, Unjournaled, InMemory
<1>3. Pending' = Pending
  BY DEF Pending
<1>4. InMemory' = InMemory
  <2>1. \A v \in Writers \ {w} : v \in InMemory' <=> v \in InMemory
    BY <1>1 DEF InMemory
  <2>2. InMemory' \subseteq Writers /\ InMemory \subseteq Writers
    BY DEF InMemory
  <2>. QED BY <2>1, <2>2
<1>5. \A v \in InMemory : entries'[v] = entries[v]
  BY DEF InMemory
<1>6. Journals' = Journals
  BY <1>3, <1>4, <1>5 DEF Journals
<1>. QED BY <1>2, <1>6, QuietDb

(* Its steps outside of a transaction, in one, and at its end.             *)
LEMMA QuietOutside ==
  ASSUME NEW w \in Writers, StepSeenByOthers(w), UNCHANGED <<file, jstate, jentries>>,
         \A v \in Writers \ {w} : entries'[v] = entries[v],
         w \notin InMemory, pc'[w] \notin Active \cup {"abort"}
  PROVE  StoreStep /\ OnlyOwned(w)
<1>1. ~(w \in InMemory)'
  BY DEF InMemory, Active
<1>2. DbSame /\ OtherCopies(w) /\ ~Has(w)'
  BY <1>1, QuietWriter DEF Has, Unjournaled
<1>. QED BY <1>2, StoreDiscard, SameIsOwned

LEMMA QuietInside ==
  ASSUME NEW w \in Writers, StepSeenByOthers(w), UNCHANGED <<file, jstate, jentries, entries, scope>>,
         pc[w] \in Active \ {"unlinked"}, pc'[w] \in Active \ {"unlinked"}
  PROVE  StoreStep /\ OnlyOwned(w)
<1>1. ~(w \in InMemory)' /\ w \notin InMemory
  BY DEF InMemory, Active
<1>2. DbSame /\ OtherCopies(w)
  BY <1>1, QuietWriter
<1>3. Has(w) /\ Has(w)' /\ w \notin Unjournaled /\ ~(w \in Unjournaled)'
  BY <1>1 DEF Has, Unjournaled
<1>. QED BY <1>2, <1>3, StoreWrite, SameIsOwned

(* An empty journal appears, or gets its header.                           *)
LEMMA EmptyJournalStep ==
  ASSUME NEW w \in Writers, DataStep(w), CreateJournal(w) \/ WriteHeader(w)
  PROVE  StoreStep /\ OnlyOwned(w)
<1>1. /\ pc[w] \in {"recover", "header"} /\ pc'[w] \in {"header", "created"}
      /\ UNCHANGED <<file, jentries, scope>>
  BY DEF CreateJournal, WriteHeader, Goto, txn, DataStep, LockInv, LockTypes
<1>2. PICK s \in Scopes : s = scope[w]
  BY <1>1, OwnScope DEF DataStep
<1>3. DataSeenByOthers(w, s)
  BY <1>2, CreateJournalData, WriteHeaderData
<1>4. jentries[s] = <<>>
  <2>1. jstate[s] # "ready"
    BY <1>2 DEF CreateJournal, WriteHeader, Goto, DataStep, LockInv, WriterOK
  <2>. QED BY <1>2, <2>1 DEF DataStep, DataInv
<1>5. OwnJournals(w, s) \subseteq {<<>>} /\ OwnJournals(w, s)' \subseteq {<<>>}
  BY <1>1, <1>4 DEF OwnJournals, InMemory
<1>6. Journals' = OwnJournals(w, s)' \cup OtherJournals(w, s)'
  BY DEF Journals, OwnJournals, OtherJournals
<1>7. Journals' \ {<<>>} = Journals \ {<<>>}
  BY <1>3, <1>5, <1>6, AllJournals, OtherJournalsKept
<1>8. DbSame /\ OtherCopies(w) /\ ~Has(w)'
  BY <1>1, <1>3, <1>7, QuietDb, CopiesOfOthers DEF Active, Has, Unjournaled
<1>. QED BY <1>8, StoreDiscard, SameIsOwned

(* The transaction opens: its files are the committed ones.                *)
LEMMA OpenIsBegin ==
  ASSUME NEW w \in Writers, DataStep(w), Open(w)
  PROVE  StoreStep /\ OnlyOwned(w)
<1>1. /\ pc[w] = "created" /\ pc'[w] = "open"
      /\ UNCHANGED <<file, jstate, jentries, entries, scope>>
  BY DEF Open, Goto, files, txn, DataStep, LockInv, LockTypes
<1>2. w \notin InMemory /\ ~(w \in InMemory)'
  BY <1>1 DEF InMemory
<1>3. DbSame /\ OtherCopies(w)
  BY <1>1, <1>2, QuietWriter DEF DataStep
<1>4. /\ scope[w] \in UsedScopes /\ Owns(w, scope[w]) /\ UndoneScope(w) = scope[w]
      /\ pc[w] \in OnJournal /\ entries[w] = <<>>
  BY <1>1 DEF DataStep, LockInv, WriterOK, Holding, UndoneScope, OnJournal, Writing, DataInv,
              EntriesOK, InTransaction
<1>5. PICK s : s = scope[w]
  OBVIOUS
<1>6. OwnIs(w, s, <<>>)
  BY <1>4, <1>5, OwnJournal DEF DataStep, EntriesAreOwn
<1>7. Apart(w, s) /\ OwnJournals(w, s) \subseteq {<<>>}
  BY <1>6, OtherJournalsApart DEF OwnIs, OwnJournalIs, DataStep
<1>8. ASSUME NEW f \in ScopeFiles(s) PROVE Committed(f) = file[f]
  <2>1. \A L \in Journals : ~HasBoundary(L, f)
    BY <1>7, AllJournals, NoBoundaryInNoJournal DEF Apart
  <2>2. PICK K : K = <<>>
    OBVIOUS
  <2>3. View(Journals, f, file[f]) = Before(K, f, file[f]) /\ ~HasBoundary(K, f)
    BY <2>1, <2>2, ViewIs, NoBoundaryInNoJournal
  <2>. QED BY <2>3, CommittedIsView DEF Before
<1>9. ASSUME NEW v \in Writers, Has(v)
      PROVE  ScopeFiles(scope[w]) \cap ScopeFiles(scope[v]) = {}
  <2>1. v # w /\ Owns(v, scope[v])
    BY <1>1, <1>9, OwnScope DEF DataStep, Holding, Active, Has, Unjournaled
  <2>. QED BY <1>4, <2>1, OwnersApart
<1>10. ~Has(w) /\ pc'[w] \in Active /\ ~(w \in Unjournaled)'
  BY <1>1 DEF Active, Has, Unjournaled
<1>. QED BY <1>1, <1>3, <1>4, <1>5, <1>8, <1>9, <1>10, StoreBegin, SameIsOwned

(* A step of an open transaction that the journal hides.                   *)
LEMMA HiddenStep ==
  ASSUME NEW w \in Writers, DataStep(w), DataInv', DataSeenByOthers(w, scope[w]),
         pc[w] \in Writing \ {"created"}, pc'[w] \in (Writing \ {"created"}) \cup {"unlinked"},
         scope'[w] = scope[w],
         \A f \in ScopeFiles(scope[w]) : Before(entries'[w], f, file'[f]) = Before(entries[w], f, file[f])
  PROVE  StoreStep /\ OnlyOwned(w)
<1>1. PICK s : s = scope[w]
  OBVIOUS
<1>2. s = UndoneScope(w) /\ s = UndoneScope(w)' /\ pc[w] \in OnJournal /\ pc'[w] \in OnJournal
  BY <1>1 DEF UndoneScope, OnJournal, Writing
<1>3. DbSame
  BY <1>1, <1>2, OwnStep
<1>4. /\ OtherCopies(w) /\ Has(w) /\ Has(w)'
      /\ w \notin Unjournaled /\ ~(w \in Unjournaled)'
  BY CopiesOfOthers DEF Writing, Active, Has, Unjournaled
<1>. QED BY <1>3, <1>4, StoreWrite, SameIsOwned

LEMMA TrackFileIsUnseen ==
  ASSUME NEW w \in Writers, DataStep(w), TrackFile(w)
  PROVE  StoreStep /\ OnlyOwned(w)
<1> DEFINE f == op[w].f
<1>1. DataInv' /\ DataSeenByOthers(w, scope[w])
  BY TrackFileData
<1>2. /\ pc[w] = "track" /\ pc'[w] = "image" /\ UNCHANGED <<file, scope>>
      /\ IF Tracked(w, f) THEN UNCHANGED <<jentries, entries>>
         ELSE AppendEntry(w, FileEntry(f, file[f]))
  BY DEF TrackFile, Goto, DataStep, LockInv, LockTypes
<1>3. /\ JournalOK(entries[w], scope[w], file) /\ WriteOK(w) /\ DataTypes
  BY <1>2, OpenJournal DEF Writing
<1>4. f \in ScopeFiles(scope[w]) /\ file \in [Files -> Content]
  BY <1>2, <1>3 DEF WriteOK, GrowsFile, DataTypes
<1>5. ASSUME NEW g \in ScopeFiles(scope[w])
      PROVE  Before(entries'[w], g, file'[g]) = Before(entries[w], g, file[g])
  <2>1. CASE Tracked(w, f)
    BY <1>2, <2>1
  <2>2. CASE ~Tracked(w, f)
    <3>1. entries'[w] = Append(entries[w], FileEntry(f, file[f]))
      BY <1>2, <1>3, <2>2 DEF AppendEntry, DataTypes
    <3>2. ~HasBoundary(entries[w], f)
      BY <2>2, TrackedIsBoundary
    <3>3. g \in Files
      BY DEF ScopeFiles
    <3> HIDE DEF f
    <3>4. Before(Append(entries[w], FileEntry(f, file[f])), g, file[g]) = Before(entries[w], g, file[g])
      BY <1>3, <1>4, <3>2, <3>3, BoundaryIsUnseen
    <3>. QED BY <1>2, <3>1, <3>4
  <2>. QED BY <2>1, <2>2
<1>6. /\ pc[w] \in Writing \ {"created"} /\ pc'[w] \in (Writing \ {"created"}) \cup {"unlinked"}
      /\ scope'[w] = scope[w]
  BY <1>2 DEF Writing
<1>. QED BY <1>1, <1>5, <1>6, HiddenStep

(* The image has the records that the file has.                            *)
LEMMA ImageOfFile ==
  ASSUME NEW w, NEW s, file \in [Files -> Content], GrowsFile(op[w], s, file), NeedsImage(w)
  PROVE  LET e == Image(w) IN
         /\ IsImage(e) /\ e.f = op[w].f
         /\ \A i \in 1 .. Len(file[e.f].recs) :
              Covers(e, e.f, i) => e.old[i - e.at + 1] = file[e.f].recs[i]
<1> DEFINE o == op[w]
           recs == file[o.f].recs
           old == IF o.kind = "merge" THEN recs ELSE <<recs[o.at]>>
           e == Image(w)
<1>1. e = BeforeImage(o.f, o.at, old)
  BY DEF Image
<1>2. e.kind = "before" /\ e.f = o.f /\ e.at = o.at /\ e.old = old
  <2> HIDE DEF old
  <2>. QED BY <1>1 DEF BeforeImage
<1>3. /\ o.kind \in {"append", "overwrite", "merge"} /\ recs \in Seq(Values) /\ Len(recs) \in Nat
      /\ o.kind # "append" => o.at \in Nat \ {0}
      /\ o.kind = "merge" => o.at = 1
  BY WriteOpFields, ContentFields DEF GrowsFile
<1>4. o.kind # "append"
  BY DEF NeedsImage
<1>5. ASSUME NEW i \in 1 .. Len(recs), Covers(e, o.f, i)
      PROVE  e.old[i - e.at + 1] = recs[i]
  <2>1. i \in e.at .. (e.at + Len(e.old) - 1)
    BY <1>5 DEF Covers
  <2>2. CASE o.kind = "merge"
    <3>1. i - e.at + 1 = i
      BY <1>2, <1>3, <2>2
    <3>. QED BY <1>2, <2>2, <3>1
  <2>3. CASE o.kind = "overwrite"
    <3>1. e.old = <<recs[o.at]>>
      BY <1>2, <2>3
    <3>2. Len(e.old) = 1
      BY <3>1
    <3>3. i = o.at /\ i - e.at + 1 = 1
      BY <1>2, <1>3, <2>1, <2>3, <3>2
    <3>. QED BY <3>1, <3>3
  <2>. QED BY <1>3, <1>4, <2>2, <2>3
<1> HIDE DEF e
<1>6. IsImage(e) /\ e.f = o.f /\ \A i \in 1 .. Len(file[e.f].recs) :
        Covers(e, e.f, i) => e.old[i - e.at + 1] = file[e.f].recs[i]
  BY <1>2, <1>5 DEF IsImage
<1>. QED BY <1>6 DEF e

LEMMA TrackImageIsUnseen ==
  ASSUME NEW w \in Writers, DataStep(w), TrackImage(w)
  PROVE  StoreStep /\ OnlyOwned(w)
<1>1. DataInv' /\ DataSeenByOthers(w, scope[w])
  BY TrackImageData
<1>2. /\ pc[w] = "image" /\ pc'[w] = "apply" /\ UNCHANGED <<file, scope>>
      /\ IF NeedsImage(w) THEN AppendEntry(w, Image(w)) ELSE UNCHANGED <<jentries, entries>>
  BY DEF TrackImage, Goto, DataStep, LockInv, LockTypes
<1>3. /\ JournalOK(entries[w], scope[w], file) /\ WriteOK(w) /\ DataTypes
  BY <1>2, OpenJournal DEF Writing
<1>4. /\ GrowsFile(op[w], scope[w], file) /\ HasBoundary(entries[w], op[w].f)
      /\ file \in [Files -> Content]
  BY <1>2, <1>3 DEF WriteOK, DataTypes
<1>5. ASSUME NEW g \in ScopeFiles(scope[w])
      PROVE  Before(entries'[w], g, file'[g]) = Before(entries[w], g, file[g])
  <2>1. CASE ~NeedsImage(w)
    BY <1>2, <2>1
  <2>2. CASE NeedsImage(w)
    <3> DEFINE e == Image(w)
    <3>1. entries'[w] = Append(entries[w], e)
      BY <1>2, <1>3, <2>2 DEF AppendEntry, DataTypes
    <3>2. e \in JournalEntries /\ JournalOK(Append(entries[w], e), scope[w], file)
      BY <1>3, <1>4, <2>2, ImageProtects
    <3>3. /\ IsImage(e) /\ e.f = op[w].f
          /\ \A i \in 1 .. Len(file[e.f].recs) :
               Covers(e, e.f, i) => e.old[i - e.at + 1] = file[e.f].recs[i]
      BY <1>4, <2>2, ImageOfFile
    <3>4. g \in Files
      BY DEF ScopeFiles
    <3> HIDE DEF e
    <3>5. HasBoundary(entries[w], e.f)
      BY <1>4, <3>3
    <3>6. Before(Append(entries[w], e), g, file[g]) = Before(entries[w], g, file[g])
      BY <1>3, <1>4, <3>2, <3>3, <3>4, <3>5, ImageIsUnseen
    <3>. QED BY <1>2, <3>1, <3>6
  <2>. QED BY <2>1, <2>2
<1>6. /\ pc[w] \in Writing \ {"created"} /\ pc'[w] \in (Writing \ {"created"}) \cup {"unlinked"}
      /\ scope'[w] = scope[w]
  BY <1>2 DEF Writing
<1>. QED BY <1>1, <1>5, <1>6, HiddenStep

LEMMA ApplyIsWrite ==
  ASSUME NEW w \in Writers, DataStep(w), Apply(w)
  PROVE  StoreStep /\ OnlyOwned(w)
<1> DEFINE o == op[w]
           recs == Applied(o, file[o.f])
<1>1. DataInv' /\ DataSeenByOthers(w, scope[w])
  BY ApplyData
<1>2. /\ pc[w] = "apply" /\ pc'[w] \in {"rewrite", "open"} /\ UNCHANGED <<entries, scope>>
      /\ file' = [file EXCEPT ![o.f] = [exists |-> TRUE, recs |-> recs]]
  BY DEF Apply, Applied, Goto, DataStep, LockInv, LockTypes
<1>3. /\ JournalOK(entries[w], scope[w], file) /\ WriteOK(w) /\ DataTypes
  BY <1>2, OpenJournal DEF Writing
<1>4. /\ GrowsFile(o, scope[w], file) /\ HasBoundary(entries[w], o.f) /\ Protected(o, entries[w])
      /\ file \in [Files -> Content] /\ o.f \in Files
  BY <1>2, <1>3 DEF WriteOK, DataTypes, GrowsFile, ScopeFiles
<1>5. \A i \in 1 .. Len(file[o.f].recs) : recs[i] = file[o.f].recs[i] \/ MayChange(o, i)
  BY <1>4, AppliedRecords
<1> HIDE DEF recs, o
<1>6. file'[o.f].recs = recs /\ \A g \in Files : g # o.f => file'[g] = file[g]
  BY <1>2, <1>4
<1>7. ASSUME NEW g \in ScopeFiles(scope[w])
      PROVE  Before(entries'[w], g, file'[g]) = Before(entries[w], g, file[g])
  <2>1. g \in Files
    BY DEF ScopeFiles
  <2>2. Before(entries[w], g, file'[g]) = Before(entries[w], g, file[g])
    BY <1>3, <1>4, <1>5, <1>6, <2>1, WriteIsUnseen
  <2>. QED BY <1>2, <2>2
<1>8. /\ pc[w] \in Writing \ {"created"} /\ pc'[w] \in (Writing \ {"created"}) \cup {"unlinked"}
      /\ scope'[w] = scope[w]
  BY <1>2 DEF Writing
<1>. QED BY <1>1, <1>7, <1>8, HiddenStep

LEMMA RewriteIsWrite ==
  ASSUME NEW w \in Writers, DataStep(w), RewriteIndex(w)
  PROVE  StoreStep /\ OnlyOwned(w)
<1> DEFINE o == op[w]
<1>1. DataInv' /\ DataSeenByOthers(w, scope[w])
  BY RewriteIndexData
<1>2. /\ pc[w] = "rewrite" /\ pc'[w] = "open" /\ UNCHANGED <<entries, scope>>
      /\ file' = [file EXCEPT ![o.f].recs = o.new]
  BY DEF RewriteIndex, Goto, DataStep, LockInv, LockTypes
<1>3. /\ JournalOK(entries[w], scope[w], file) /\ WriteOK(w) /\ DataTypes
  BY <1>2, OpenJournal DEF Writing
<1>4. /\ GrowsFile(o, scope[w], file) /\ HasBoundary(entries[w], o.f) /\ Protected(o, entries[w])
      /\ file \in [Files -> Content] /\ o.f \in Files /\ \A i : MayChange(o, i)
  BY <1>2, <1>3 DEF WriteOK, DataTypes, GrowsFile, ScopeFiles, MayChange
<1> HIDE DEF o
<1>5. \A g \in Files : g # o.f => file'[g] = file[g]
  BY <1>2, <1>4
<1>6. ASSUME NEW g \in ScopeFiles(scope[w])
      PROVE  Before(entries'[w], g, file'[g]) = Before(entries[w], g, file[g])
  <2>1. g \in Files
    BY DEF ScopeFiles
  <2>2. Before(entries[w], g, file'[g]) = Before(entries[w], g, file[g])
    BY <1>3, <1>4, <1>5, <2>1, WriteIsUnseen
  <2>. QED BY <1>2, <2>2
<1>7. /\ pc[w] \in Writing \ {"created"} /\ pc'[w] \in (Writing \ {"created"}) \cup {"unlinked"}
      /\ scope'[w] = scope[w]
  BY <1>2 DEF Writing
<1>. QED BY <1>1, <1>6, <1>7, HiddenStep

(* One entry of a recovery or an abort is undone.                          *)
LEMMA UndoEntryIsUnseen ==
  ASSUME NEW w \in Writers, DataStep(w), UndoEntry(w)
  PROVE  StoreStep /\ OnlyOwned(w)
<1>1. DataInv' /\ DataSeenByOthers(w, UndoneScope(w))
  BY UndoEntryData
<1>2. PICK s : s = UndoneScope(w)
  OBVIOUS
<1>3. /\ pc[w] \in {"undo", "abort"} /\ cursor[w] > 0 /\ UNCHANGED <<pc, scope, todo, entries>>
      /\ file' = UndoneFiles(entries[w], cursor[w], file)
  BY DEF UndoEntry, begin, UndoneFiles
<1>4. s = UndoneScope(w)'
  BY <1>2, <1>3 DEF UndoneScope, NextTodo, ScopeRank
<1>5. JournalOK(entries[w], s, file) /\ file \in [Files -> Content]
  BY <1>2, <1>3, UndoneJournal DEF DataStep, DataInv, DataTypes
<1>6. cursor[w] \in 0 .. Len(entries[w]) /\ Len(entries[w]) \in Nat
  BY <1>3 DEF DataStep, DataInv, DataTypes, EntriesOK
<1>7. cursor[w] \in 1 .. Len(entries[w])
  BY <1>3, <1>6
<1>8. ASSUME NEW g \in ScopeFiles(s)
      PROVE  Before(entries'[w], g, file'[g]) = Before(entries[w], g, file[g])
  <2>1. g \in Files
    BY DEF ScopeFiles
  <2>2. PICK G : G = UndoneFiles(entries[w], cursor[w], file)
    OBVIOUS
  <2>3. Before(entries[w], g, G[g]) = Before(entries[w], g, file[g])
    BY <1>5, <1>7, <2>1, <2>2, UndoIsUnseen
  <2>. QED BY <1>3, <2>2, <2>3
<1>9. pc[w] \in OnJournal /\ pc'[w] \in OnJournal /\ pc'[w] \notin Active
  BY <1>3 DEF OnJournal, Active
<1>10. DbSame /\ OtherCopies(w)
  BY <1>1, <1>2, <1>4, <1>8, <1>9, OwnStep, CopiesOfOthers
<1>11. w \in Unjournaled' <=> w \in Unjournaled
  BY <1>3 DEF UndoEntry, Unjournaled, InMemory
<1>12. CASE w \in Unjournaled
  BY <1>3, <1>10, <1>11, <1>12, StoreWrite, SameIsOwned DEF Has
<1>13. CASE w \notin Unjournaled
  BY <1>9, <1>10, <1>11, <1>13, StoreDiscard, SameIsOwned DEF Has
<1>. QED BY <1>12, <1>13

(* A recovered journal is removed once all of it is undone.                *)
LEMMA RecoverRemoveIsUnseen ==
  ASSUME NEW w \in Writers, DataStep(w), RecoverRemove(w)
  PROVE  StoreStep /\ OnlyOwned(w)
<1>1. PICK s : s = NextTodo(w)
  OBVIOUS
<1>2. DataSeenByOthers(w, s)
  BY <1>1, RecoverRemoveData
<1>3. /\ pc[w] = "undo" /\ pc'[w] = "recover" /\ cursor[w] = 0 /\ file' = file
      /\ jstate' = [jstate EXCEPT ![s] = "none"]
  BY <1>1 DEF RecoverRemove, Goto, NoJournal, DataStep, LockInv, LockTypes
<1>4. s = UndoneScope(w) /\ pc[w] \in OnJournal /\ ~Has(w)'
  BY <1>1, <1>3 DEF UndoneScope, OnJournal, Active, Has, Unjournaled
<1>5. JournalOK(entries[w], s, file) /\ UndoneTo(entries[w], 0, file) /\ s \in Scopes
  BY <1>3, <1>4, UndoneJournal DEF DataStep, DataInv, EntriesOK
<1>6. NoOwnJournal(w, s)'
  BY <1>3, <1>5 DEF NoOwnJournal, Pending, InMemory, DataStep, LockInv, LockTypes
<1>7. DbSame
  BY <1>2, <1>3, <1>4, <1>5, <1>6, LastStep
<1>. QED BY <1>2, <1>4, <1>7, CopiesOfOthers, StoreDiscard, SameIsOwned

(* The journal of a commit is removed: its writer still has the entries.   *)
LEMMA CommitUnlinkIsUnseen ==
  ASSUME NEW w \in Writers, DataStep(w), CommitUnlink(w)
  PROVE  StoreStep /\ OnlyOwned(w)
<1>1. DataInv' /\ DataSeenByOthers(w, scope[w])
  BY CommitUnlinkData
<1>2. pc[w] = "unlink" /\ pc'[w] = "unlinked" /\ UNCHANGED <<file, entries, scope>>
  BY DEF CommitUnlink, Goto, txn, DataStep, LockInv, LockTypes
<1>3. /\ pc[w] \in Writing \ {"created"} /\ pc'[w] \in (Writing \ {"created"}) \cup {"unlinked"}
      /\ scope'[w] = scope[w]
  BY <1>2 DEF Writing
<1>. QED BY <1>1, <1>2, <1>3, HiddenStep

(* An abort begins: nothing of the transaction will be published, if there *)
(* is a journal.                                                           *)
LEMMA StartAbortDiscards ==
  ASSUME NEW w \in Writers, DataStep(w), StartAbort(w), pc[w] \in InTransaction \ {"created"}
  PROVE  StoreStep /\ OnlyOwned(w)
<1>1. /\ pc'[w] = "abort" /\ UNCHANGED <<file, jstate, jentries, entries, scope>>
  BY DEF StartAbort, files, DataStep, LockInv, LockTypes
<1>2. (w \in InMemory)' <=> w \in InMemory
  <2>1. pc[w] \in Writing => jstate[scope[w]] = "ready"
    BY OwnScope DEF DataStep
  <2>. QED BY <1>1, <2>1 DEF InMemory, InTransaction, Writing
<1>3. DbSame /\ OtherCopies(w) /\ pc'[w] \notin Active
  BY <1>1, <1>2, QuietWriter DEF DataStep, Active
<1>4. CASE w \notin InMemory
  <2>1. ~Has(w)'
    BY <1>2, <1>3, <1>4 DEF Has, Unjournaled
  <2>. QED BY <1>3, <2>1, StoreDiscard, SameIsOwned
<1>5. CASE w \in InMemory
  <2>1. (w \in Unjournaled)' /\ Has(w) /\ Has(w)'
    BY <1>1, <1>2, <1>5 DEF Has, Unjournaled, InMemory, Active
  <2>2. Copy(w)' = Copy(w)
    BY <1>1, <2>1 DEF Copy
  <2>3. StoreStep
    BY <1>3, <2>1, <2>2, StoreFail, StoreUnseenBy
  <2>. QED BY <1>3, <2>3, SameIsOwned
<1>. QED BY <1>4, <1>5

(* A transaction object that goes, as its others see it.                   *)
LEMMA ForgetSeenByOthers ==
  ASSUME NEW w \in Writers, DataStep(w), Forget(w), pc[w] \in Holding, file' = file,
         UNCHANGED <<jstate, jentries>> \/ NoJournal(scope[w]), faults' \in faults .. MaxFaults
  PROVE  DataSeenByOthers(w, scope[w])
<1>1. \A v \in Writers \ {w} : entries'[v] = entries[v] /\ cursor'[v] = cursor[v] /\ op'[v] = op[v]
  BY DEF DataStep, DataInv, DataTypes, Forget
<1>2. scope[w] \in Scopes /\ Owns(w, scope[w])
  BY OwnScope DEF DataStep, Holding, Active
<1>. QED BY <1>1, <1>2 DEF DataSeenByOthers, NoJournal, DataStep, DataInv, DataTypes, LockInv, LockTypes

LEMMA AbortDoneIsUnseen ==
  ASSUME NEW w \in Writers, DataStep(w), AbortDone(w)
  PROVE  StoreStep /\ OnlyOwned(w)
<1>1. PICK s : s = scope[w]
  OBVIOUS
<1>2. /\ pc[w] = "abort" /\ pc'[w] = "idle" /\ cursor[w] = 0 /\ file' = file /\ Forget(w)
      /\ NoJournal(s) /\ faults' = faults /\ jstate' = [jstate EXCEPT ![s] = "none"]
  BY <1>1 DEF AbortDone, Goto, NoJournal, DataStep, LockInv, LockTypes
<1>3. pc[w] \in Holding /\ faults' \in faults .. MaxFaults
  BY <1>2, BoundsAssumption DEF Holding, DataStep, DataInv, DataTypes
<1>4. DataSeenByOthers(w, s)
  BY <1>1, <1>2, <1>3, ForgetSeenByOthers
<1>5. s = UndoneScope(w) /\ pc[w] \in OnJournal /\ ~Has(w)'
  BY <1>1, <1>2 DEF UndoneScope, OnJournal, Active, Has, Unjournaled
<1>6. JournalOK(entries[w], s, file) /\ UndoneTo(entries[w], 0, file) /\ s \in Scopes
  BY <1>2, <1>5, UndoneJournal DEF DataStep, DataInv, EntriesOK
<1>7. NoOwnJournal(w, s)'
  BY <1>2, <1>6 DEF NoOwnJournal, Pending, InMemory, DataStep, LockInv, LockTypes
<1>8. DbSame
  BY <1>2, <1>4, <1>5, <1>6, <1>7, LastStep
<1>. QED BY <1>4, <1>5, <1>8, CopiesOfOthers, StoreDiscard, SameIsOwned

(* The end of a commit, or of its writer after the journal is removed:     *)
(* what the files hold is committed.                                       *)
LEMMA EndIsCommit ==
  ASSUME NEW w \in Writers, DataStep(w), Forget(w), w \in InMemory, pc'[w] = "idle",
         UNCHANGED <<file, jstate, jentries>>, faults' \in faults .. MaxFaults
  PROVE  StoreStep /\ OnlyOwned(w)
<1>1. PICK s : s = scope[w]
  OBVIOUS
<1>2. pc[w] \in Holding /\ pc[w] \in OnJournal /\ Has(w) /\ ~Has(w)'
  BY DEF Holding, OnJournal, Active, Has, Unjournaled, InMemory
<1>3. DataSeenByOthers(w, s) /\ Owns(w, s) /\ s = UndoneScope(w)
  BY <1>1, <1>2, ForgetSeenByOthers, OwnScope DEF DataStep, UndoneScope, InMemory
<1>4. jstate[s] = "none"
  BY <1>1 DEF InMemory
<1>5. NoOwnJournal(w, s)'
  BY <1>4 DEF NoOwnJournal, Pending, InMemory
<1>6. /\ \A f \in Files \ ScopeFiles(s) : Committed(f)' = Committed(f)
      /\ \A f \in ScopeFiles(s) : Committed(f)' = file[f]
  BY <1>2, <1>3, <1>5, LastStep
<1>7. OnlyOwned(w)
  BY <1>1, <1>3, <1>6 DEF OnlyOwned
<1>8. OtherCopies(w)
  BY <1>3, CopiesOfOthers
<1>. QED BY <1>1, <1>2, <1>6, <1>7, <1>8, StoreCommit

-----------------------------------------------------------------------------
(* All steps of writers.                                                   *)
LEMMA BeginStepOfStore ==
  ASSUME NEW w \in Writers, DataStep(w), BeginStep(w) \/ \E s \in UsedScopes : Begin(w, s)
  PROVE  StoreStep /\ OnlyOwned(w)
<1> USE DEF files, locks, begin, txn, readers
<1>0. /\ pc \in [Writers -> PCs] /\ entries \in [Writers -> Seq(JournalEntries)]
      /\ StepSeenByOthers(w)
  BY DEF DataStep, LockInv, LockTypes, DataInv, DataTypes
<1> DEFINE Quiet ==
             /\ pc[w] \notin {"unlinked", "abort"} /\ pc'[w] \notin Active \cup {"abort"}
             /\ UNCHANGED <<file, jstate, jentries>>
             /\ \A v \in Writers \ {w} : entries'[v] = entries[v]
<1>1. ASSUME Quiet PROVE StoreStep /\ OnlyOwned(w)
  <2>1. w \notin InMemory
    BY <1>1 DEF InMemory
  <2>. QED BY <1>0, <1>1, <2>1, QuietOutside
<1>2. ASSUME NEW s \in UsedScopes, Begin(w, s) PROVE Quiet
  BY <1>0, <1>2 DEF Begin, Goto, Active
<1>3. CASE PreflightBusy(w) \/ GateBusy(w) \/ LockBusy(w)
  <2>1. pc[w] \in {"preflight", "gate", "lock"} /\ Busy(w)
    BY <1>3 DEF PreflightBusy, GateBusy, LockBusy
  <2>2. Quiet
    BY <1>0, <2>1 DEF Busy, Active
  <2>. QED BY <1>1, <2>2
<1>4. CASE Preflight(w) \/ DropPreflight(w) \/ AcquireGate(w) \/ Scan(w)
  <2>1. Quiet
    BY <1>0, <1>4 DEF Preflight, DropPreflight, AcquireGate, Scan, Goto, Active
  <2>. QED BY <1>1, <2>1
<1>5. CASE LockNext(w) \/ Confirm(w) \/ RecoverSkip(w)
  <2>1. /\ pc[w] \in {"lock", "recover"} /\ pc'[w] \in {"lock", "recover", "preflight"}
        /\ UNCHANGED <<file, jstate, jentries, entries>>
    BY <1>0, <1>5 DEF LockNext, Confirm, RecoverSkip
  <2>2. Quiet
    BY <2>1 DEF Active
  <2>. QED BY <1>1, <2>2
<1>6. CASE RecoverRead(w)
  <2>1. Quiet
    BY <1>0, <1>6 DEF RecoverRead, Goto, Active
  <2>. QED BY <1>1, <2>1
<1>7. CASE RecoverCorrupt(w)
  <2>1. Quiet
    BY <1>0, <1>7 DEF RecoverCorrupt, Forget, Goto, Active
  <2>. QED BY <1>1, <2>1
<1> HIDE DEF Quiet
<1>. QED BY <1>1, <1>2, <1>3, <1>4, <1>5, <1>6, <1>7, UndoEntryIsUnseen, RecoverRemoveIsUnseen,
            EmptyJournalStep, OpenIsBegin DEF BeginStep

LEMMA WriteStepOfStore ==
  ASSUME NEW w \in Writers, DataStep(w), WriteStep(w)
  PROVE  StoreStep /\ OnlyOwned(w)
<1>1. ASSUME NEW o, StartWrite(w, o) PROVE StoreStep /\ OnlyOwned(w)
  <2>1. /\ pc[w] = "open" /\ pc'[w] = "track" /\ StepSeenByOthers(w)
        /\ UNCHANGED <<file, jstate, jentries, entries, scope>>
    BY <1>1 DEF StartWrite, Goto, files, DataStep, LockInv, LockTypes
  <2>. QED BY <2>1, QuietInside DEF Active
<1>. QED BY <1>1, TrackFileIsUnseen, TrackImageIsUnseen, ApplyIsWrite, RewriteIsWrite
         DEF WriteStep, StartAppend, StartMerge, StartOverwrite

LEMMA EndStepOfStore ==
  ASSUME NEW w \in Writers, DataStep(w), EndStep(w)
  PROVE  StoreStep /\ OnlyOwned(w)
<1>0. pc \in [Writers -> PCs] /\ faults \in faults .. MaxFaults /\ StepSeenByOthers(w)
  BY BoundsAssumption DEF DataStep, LockInv, LockTypes, DataInv, DataTypes
<1>1. CASE CommitSync(w)
  <2>1. /\ pc[w] = "open" /\ pc'[w] = "unlink"
        /\ UNCHANGED <<file, jstate, jentries, entries, scope>>
    BY <1>0, <1>1 DEF CommitSync, Goto, files, txn
  <2>. QED BY <1>0, <2>1, QuietInside DEF Active
<1>2. CASE CommitDone(w)
  <2>1. /\ pc[w] = "unlinked" /\ pc'[w] = "idle" /\ Forget(w)
        /\ UNCHANGED <<file, jstate, jentries>> /\ faults' \in faults .. MaxFaults
    BY <1>0, <1>2 DEF CommitDone, Goto, files
  <2>2. w \in InMemory
    BY <2>1 DEF InMemory, DataStep, DataInv, RemovedOK
  <2>. QED BY <2>1, <2>2, EndIsCommit
<1>3. CASE Abort(w)
  BY <1>3, StartAbortDiscards DEF Abort, InTransaction, Writing
<1>. QED BY <1>1, <1>2, <1>3, CommitUnlinkIsUnseen, AbortDoneIsUnseen DEF EndStep

LEMMA FaultStepOfStore ==
  ASSUME NEW w \in Writers, DataStep(w), FaultStep(w)
  PROVE  StoreStep /\ OnlyOwned(w)
<1>0. pc \in [Writers -> PCs] /\ faults \in 0 .. MaxFaults /\ StepSeenByOthers(w)
  BY DEF DataStep, LockInv, LockTypes, DataInv, DataTypes
<1>1. faults' \in faults .. MaxFaults
  BY <1>0, BoundsAssumption DEF FaultStep, Crash, FailAndLeave, FailAndAbort, UnlinkSyncFails, Fault
<1>2. CASE Crash(w) \/ FailAndLeave(w)
  <2>1. /\ pc'[w] = "idle" /\ Forget(w) /\ UNCHANGED <<file, jstate, jentries>>
    BY <1>0, <1>2 DEF Crash, FailAndLeave, files
  <2>2. CASE w \in InMemory
    BY <1>1, <2>1, <2>2, EndIsCommit
  <2>3. CASE w \notin InMemory
    <3>1. pc'[w] \notin Active \cup {"abort"} /\ \A v \in Writers \ {w} : entries'[v] = entries[v]
      BY <2>1 DEF Active, Forget, DataStep, DataInv, DataTypes
    <3>. QED BY <1>0, <2>1, <2>3, <3>1, QuietOutside
  <2>. QED BY <2>2, <2>3
<1>3. CASE FailAndAbort(w)
  BY <1>3, StartAbortDiscards DEF FailAndAbort, InTransaction, Writing
<1>4. CASE UnlinkSyncFails(w)
  BY <1>4, StartAbortDiscards DEF UnlinkSyncFails, InTransaction, Writing
<1>. QED BY <1>2, <1>3, <1>4 DEF FaultStep

WriterStep(w) ==
  (\E s \in UsedScopes : Begin(w, s)) \/ BeginStep(w) \/ WriteStep(w) \/ EndStep(w) \/ FaultStep(w)

LEMMA WriterStepOfStore ==
  ASSUME LockInv, DataInv, NEW w \in Writers, WriterStep(w)
  PROVE  DataStep(w) /\ StoreStep /\ OnlyOwned(w)
<1>1. DataStep(w)
  BY BeginKeeps, BeginStepKeeps, WriteStepKeeps, EndStepKeeps, FaultStepKeeps DEF WriterStep, DataStep
<1>. QED BY <1>1, BeginStepOfStore, WriteStepOfStore, EndStepOfStore, FaultStepOfStore DEF WriterStep

(* Readers, and steps that change nothing.                                 *)
LEMMA OtherStepOfStore ==
  ASSUME UNCHANGED <<file, jstate, jentries, pc, scope, entries>>
  PROVE  StoreStep /\ DbSame
<1>1. Journals' = Journals
  BY DEF Journals, Pending, InMemory
<1>2. DbSame
  BY <1>1, QuietDb
<1>3. Unjournaled' = Unjournaled /\ \A v \in Writers : Copy(v)' = Copy(v)
  BY DEF Copy, Has, Unjournaled, InMemory
<1>. QED BY <1>2, <1>3, StoreUnseen

LEMMA NextIsStoreStep == LockInv /\ DataInv /\ [Next]_vars => StoreStep
<1>. SUFFICES ASSUME LockInv, DataInv, [Next]_vars PROVE StoreStep
  OBVIOUS
<1>1. CASE UNCHANGED vars
  BY <1>1, OtherStepOfStore DEF vars, files, txn
<1>2. ASSUME NEW r \in Readers, ReadStep(r) PROVE StoreStep
  BY <1>2, OtherStepOfStore DEF ReadStep, ReadBegin, Read, ReadEnd, files, txn
<1>3. ASSUME NEW w \in Writers, WriterStep(w) PROVE StoreStep
  BY <1>3, WriterStepOfStore
<1>. QED BY <1>1, <1>2, <1>3 DEF Next, WriterStep

LEMMA InitIsStoreInit == Init => Store!Init
<1>. SUFFICES ASSUME Init PROVE Store!Init
  OBVIOUS
<1>1. Journals = {}
  BY DEF Init, Journals, Pending, InMemory
<1>2. \A f \in Files : Committed(f) = file[f]
  <2>1. \A f : {J \in Journals : Boundaries(J, f) # {}} = {}
    BY <1>1
  <2>. QED BY <2>1 DEF Committed
<1>3. Db = InitFile
  BY <1>2, InitFileAssumption DEF Db, Init
<1>4. Unjournaled = {}
  BY DEF Unjournaled, InMemory, Init
<1>5. Work = [w \in Writers |-> <<>>]
  BY <1>4 DEF Work, Copy, Has, Init, Active
<1>. QED BY <1>3, <1>4, <1>5 DEF Store!Init, Db, Work, Copy, Has

(* BinaryDbWriteTxn: a transaction starts from committed files that nobody *)
(* else works on, and what it wrote takes effect as a whole when it        *)
(* commits or not at all, for any number of processes, whatever crashes,   *)
(* fails and is recovered in between, however often, with one exception: a *)
(* commit whose directory sync failed is undone without a journal, and if  *)
(* its writer dies or meets an error while it does that, the part of it    *)
(* that is not undone yet is what the store holds from then on.            *)
THEOREM TransactionsAreAtomic == Spec => Transactional
<1>1. LockInv /\ DataInv /\ [Next]_vars =>
        [Store!Next]_<<[f \in Files |-> Committed(f)],
                       [w \in Writers |-> IF pc[w] \in Active \/ w \in Unjournaled
                                          THEN [f \in ScopeFiles(scope[w]) |-> file[f]]
                                          ELSE <<>>],
                       Unjournaled>>
  BY NextIsStoreStep DEF StoreStep, Db, Work, Copy, Has
<1>. QED BY <1>1, InitIsStoreInit, JournalsCanBeUndone, PTL DEF Spec, Transactional, Store!Spec

-----------------------------------------------------------------------------
(* Readers hold the locks of their families shared, which nobody holds     *)
(* exclusively, and what they have seen is of those families.              *)
SharedLocks ==
  /\ shared \in [LockNames -> SUBSET (Writers \cup Readers)]
  /\ \A n \in LockNames : shared[n] # {} => excl[n] = Nobody

ReadTypes ==
  /\ writes \in [Writers -> 0 .. MaxWrites]
  /\ reading \in [Readers -> SUBSET LockNames]
  /\ DOMAIN seen = Readers
  /\ \A r \in Readers : \A f \in DOMAIN seen[r] : f \in Files /\ FamilyOf[f] \in reading[r]

ReadersHold == \A r \in Readers : \A n \in reading[r] : r \in shared[n]

ReadInv == SharedLocks /\ ReadTypes /\ ReadersHold

LEMMA ReadTypesStep ==
  ASSUME NEW w \in Writers, WriterStep(w), ReadTypes
  PROVE  ReadTypes' /\ reading' = reading /\ seen' = seen
<1> USE DEF files, locks, begin, txn, readers
<1>1. UNCHANGED <<reading, seen>>
  BY DEF WriterStep, Begin, BeginStep, Preflight, PreflightBusy, DropPreflight, AcquireGate, GateBusy,
         Scan, LockNext, LockBusy, Confirm, RecoverSkip, RecoverRead, RecoverCorrupt, UndoEntry,
         RecoverRemove, CreateJournal, WriteHeader, Open, Busy, WriteStep, StartAppend, StartMerge,
         StartOverwrite, StartWrite, TrackFile, TrackImage, Apply, RewriteIndex, EndStep, CommitSync,
         CommitUnlink, CommitDone, Abort, StartAbort, AbortDone, FaultStep, Crash, FailAndLeave,
         FailAndAbort, UnlinkSyncFails
<1>2. \/ writes' = writes
      \/ writes' = [writes EXCEPT ![w] = 0]
      \/ writes[w] < MaxWrites /\ writes' = [writes EXCEPT ![w] = @ + 1]
  BY DEF WriterStep, Begin, BeginStep, Preflight, PreflightBusy, DropPreflight, AcquireGate, GateBusy,
         Scan, LockNext, LockBusy, Confirm, RecoverSkip, RecoverRead, RecoverCorrupt, UndoEntry,
         RecoverRemove, CreateJournal, WriteHeader, Open, Busy, WriteStep, StartAppend, StartMerge,
         StartOverwrite, StartWrite, TrackFile, TrackImage, Apply, RewriteIndex, EndStep, CommitSync,
         CommitUnlink, CommitDone, Abort, StartAbort, AbortDone, FaultStep, Crash, FailAndLeave,
         FailAndAbort, UnlinkSyncFails, MayWrite, Forget
<1>3. writes' \in [Writers -> 0 .. MaxWrites]
  BY <1>2, BoundsAssumption DEF ReadTypes
<1>. QED BY <1>1, <1>3 DEF ReadTypes

LEMMA SharedLocksStep ==
  ASSUME LockInv, NEW w \in Writers, WriterStep(w), SharedLocks, ReadersHold, ReadTypes
  PROVE  SharedLocks' /\ ReadersHold'
<1> USE DEF files, locks, begin, txn, readers
<1>0. /\ excl \in [LockNames -> Writers \cup {Nobody}] /\ w \notin Readers /\ w # Nobody
      /\ \A r \in Readers : reading[r] \subseteq LockNames
      /\ want[w] \subseteq LockNames
  BY ActorsAssumption DEF LockInv, LockTypes, ReadTypes
<1>1. reading' = reading
  BY ReadTypesStep
<1>2. ASSUME shared' = shared, excl' = excl \/ excl' = Unlocked(w) PROVE SharedLocks' /\ ReadersHold'
  BY <1>0, <1>1, <1>2 DEF SharedLocks, ReadersHold, Unlocked
<1>3. CASE Preflight(w)
  <2>1. /\ excl' = excl /\ \A n \in Probed(w) : excl[n] = Nobody
        /\ shared' = [n \in LockNames |-> IF n \in Probed(w) THEN shared[n] \cup {w} ELSE shared[n]]
    BY <1>3 DEF Preflight
  <2>. QED BY <1>0, <1>1, <2>1 DEF SharedLocks, ReadersHold
<1>4. CASE DropPreflight(w)
  <2>1. excl' = excl /\ shared' = [n \in LockNames |-> shared[n] \ {w}]
    BY <1>4 DEF DropPreflight
  <2>. QED BY <1>0, <1>1, <2>1 DEF SharedLocks, ReadersHold
<1>5. CASE Crash(w)
  <2>1. excl' = Unlocked(w) /\ shared' = [n \in LockNames |-> shared[n] \ {w}]
    BY <1>5 DEF Crash, Forget
  <2>. QED BY <1>0, <1>1, <2>1 DEF SharedLocks, ReadersHold, Unlocked
<1>6. CASE LockNext(w)
  <2> DEFINE m == NextWanted(w)
  <2>1. shared' = shared /\ shared[m] = {} /\ excl' = [excl EXCEPT ![m] = w] /\ m \in LockNames
    BY <1>0, <1>6, NextWantedIsWanted DEF LockNext, LockFree
  <2> HIDE DEF m
  <2>. QED BY <1>0, <1>1, <2>1 DEF SharedLocks, ReadersHold
<1>7. CASE Confirm(w)
  BY <1>2, <1>7 DEF Confirm
<1>8. CASE PreflightBusy(w) \/ GateBusy(w) \/ LockBusy(w) \/ RecoverCorrupt(w)
  BY <1>2, <1>8 DEF PreflightBusy, GateBusy, LockBusy, Busy, RecoverCorrupt, Forget
<1>9. CASE Scan(w) \/ AcquireGate(w) \/ RecoverSkip(w) \/ RecoverRead(w) \/ UndoEntry(w) \/ RecoverRemove(w)
            \/ CreateJournal(w) \/ WriteHeader(w) \/ Open(w) \/ \E s \in UsedScopes : Begin(w, s)
  BY <1>2, <1>9 DEF Scan, AcquireGate, RecoverSkip, RecoverRead, UndoEntry, RecoverRemove, CreateJournal,
                    WriteHeader, Open, Begin
<1>10. CASE WriteStep(w)
  BY <1>2, <1>10 DEF WriteStep, StartAppend, StartMerge, StartOverwrite, StartWrite, TrackFile,
                     TrackImage, Apply, RewriteIndex
<1>11. CASE EndStep(w)
  BY <1>2, <1>11 DEF EndStep, CommitSync, CommitUnlink, CommitDone, Forget, Abort, StartAbort, AbortDone
<1>12. CASE FailAndLeave(w) \/ FailAndAbort(w) \/ UnlinkSyncFails(w)
  BY <1>2, <1>12 DEF FailAndLeave, Forget, FailAndAbort, UnlinkSyncFails, StartAbort
<1>. QED BY <1>3, <1>4, <1>5, <1>6, <1>7, <1>8, <1>9, <1>10, <1>11, <1>12
         DEF WriterStep, BeginStep, FaultStep

(* A file that nobody has locked, and what is committed of it.             *)
LEMMA UnlockedIsCommitted ==
  ASSUME LockInv, DataInv, NEW f \in Files, excl[FamilyOf[f]] = Nobody
  PROVE  Committed(f) = file[f] \/ \E s \in Interrupted : FamilyOf[f] \in WriteScope(s)
<1>1. SUFFICES ASSUME Committed(f) # file[f]
               PROVE  \E s \in Interrupted : FamilyOf[f] \in WriteScope(s)
  OBVIOUS
<1>2. PICK J \in Journals : HasBoundary(J, f)
  <2>1. {J \in Journals : Boundaries(J, f) # {}} # {}
    BY <1>1 DEF Committed
  <2>. QED BY <2>1, BoundaryExists
<1>3. ASSUME NEW w \in Writers, NEW s, Owns(w, s), f \in ScopeFiles(s) PROVE FALSE
  BY <1>3, ActorsAssumption DEF Owns, ScopeFiles, WriteScope
<1>4. CASE J \in {entries[w] : w \in InMemory}
  <2>1. PICK w \in InMemory : J = entries[w]
    BY <1>4
  <2>2. w \in Writers /\ Owns(w, scope[w]) /\ f \in ScopeFiles(scope[w])
    BY <1>2, <2>1, InMemoryOwns, BoundaryInScope
  <2>. QED BY <1>3, <2>2
<1>5. CASE J \in {jentries[s] : s \in Pending}
  <2>1. PICK s \in Pending : J = jentries[s]
    BY <1>5
  <2>2. f \in ScopeFiles(s)
    BY <1>2, <2>1, BoundaryInScope DEF DataInv, Pending
  <2>3. \A w \in Writers : ~WorksOn(w, s)
    <3>. SUFFICES ASSUME NEW w \in Writers, WorksOn(w, s) PROVE FALSE
      OBVIOUS
    <3>1. Owns(w, s)
      BY OwnScope DEF WorksOn
    <3>. QED BY <1>3, <2>2, <3>1
  <2>. QED BY <2>2, <2>3 DEF Interrupted, ScopeFiles
<1>. QED BY <1>2, <1>4, <1>5 DEF Journals

(* A writer changes nothing that a reader may see.                         *)
LEMMA WriterKeepsReads ==
  ASSUME LockInv, DataInv, ReadInv, NEW w \in Writers, WriterStep(w), ReadsUnlessInterrupted
  PROVE  ReadInv' /\ ReadsUnlessInterrupted'
<1>1. DataStep(w) /\ OnlyOwned(w)
  BY WriterStepOfStore
<1>2. ReadInv' /\ reading' = reading /\ seen' = seen
  BY ReadTypesStep, SharedLocksStep DEF ReadInv
<1>3. SUFFICES ASSUME NEW r \in Readers, NEW f \in DOMAIN seen[r]
               PROVE  (seen[r][f] = Committed(f) \/ \E s \in Interrupted : FamilyOf[f] \in WriteScope(s))'
  BY <1>2 DEF ReadsUnlessInterrupted
<1>4. /\ f \in Files /\ FamilyOf[f] \in LockNames /\ Nobody \notin Writers
      /\ excl[FamilyOf[f]] = Nobody /\ excl'[FamilyOf[f]] = Nobody
  <2>1. f \in Files /\ FamilyOf[f] \in reading[r] /\ reading[r] \subseteq LockNames
    BY <1>3 DEF ReadInv, ReadTypes
  <2>2. shared[FamilyOf[f]] # {} /\ shared'[FamilyOf[f]] # {}
    BY <1>2, <2>1 DEF ReadInv, ReadersHold
  <2>. QED BY <1>2, <2>1, <2>2, ActorsAssumption DEF ReadInv, SharedLocks
<1>5. ASSUME NEW s, FamilyOf[f] \in WriteScope(s) PROVE ~Owns(w, s) /\ ~Owns(w, s)'
  BY <1>4, <1>5 DEF Owns, WriteScope
<1>6. Committed(f)' = Committed(f)
  BY <1>1, <1>4, <1>5 DEF OnlyOwned, ScopeFiles
<1>7. CASE seen[r][f] = Committed(f)
  BY <1>2, <1>6, <1>7
<1>8. ASSUME NEW s \in Interrupted, FamilyOf[f] \in WriteScope(s)
      PROVE  s \in Interrupted'
  <2>1. s \in Scopes /\ s \in Pending
    BY DEF Interrupted, Pending
  <2>2. s \in Pending'
    BY <1>1, <1>5, <1>8, <2>1 DEF DataStep, StepSeenByOthers, Pending
  <2>3. ASSUME NEW v \in Writers PROVE ~WorksOn(v, s)'
    <3>1. CASE v # w
      BY <1>1, <3>1 DEF DataStep, StepSeenByOthers, Interrupted, WorksOn
    <3>2. CASE v = w
      <4>1. (pc[w] \in Holding => Owns(w, scope[w]))'
        BY <1>1 DEF DataStep, LockInv, WriterOK
      <4>2. WorksOn(w, s)' => Owns(w, s)'
        BY <4>1 DEF WorksOn, Owns
      <4>. QED BY <1>5, <1>8, <3>2, <4>2
    <3>. QED BY <3>1, <3>2
  <2>. QED BY <2>2, <2>3 DEF Interrupted
<1>. QED BY <1>3, <1>7, <1>8 DEF ReadsUnlessInterrupted

LEMMA ReaderKeepsReads ==
  ASSUME LockInv, DataInv, ReadInv, ReadsUnlessInterrupted, NEW r \in Readers, ReadStep(r)
  PROVE  ReadInv' /\ ReadsUnlessInterrupted'
<1> USE DEF files, locks, begin, txn
<1>1. UNCHANGED <<file, jstate, jentries, pc, scope, entries, writes, excl>>
  BY DEF ReadStep, ReadBegin, Read, ReadEnd
<1>2. \A f \in Files : Committed(f)' = Committed(f)
  BY <1>1, OtherStepOfStore DEF DbSame
<1>3. Interrupted' = Interrupted
  BY <1>1 DEF Interrupted, Pending, WorksOn
<1>4. /\ SharedLocks /\ ReadTypes /\ ReadersHold /\ r \notin Writers
      /\ \A n \in LockNames : excl[n] \in Writers \cup {Nobody}
  BY ActorsAssumption DEF ReadInv, LockInv, LockTypes
<1>5. ASSUME NEW s \in UsedScopes, ReadBegin(r, WriteScope(s))
      PROVE  ReadInv' /\ ReadsUnlessInterrupted'
  <2> DEFINE fams == WriteScope(s)
  <2>1. /\ reading[r] = {} /\ seen' = seen /\ reading' = [reading EXCEPT ![r] = fams]
        /\ \A n \in ReadLocks(fams) : excl[n] = Nobody
        /\ shared' = [n \in LockNames |-> IF n \in ReadLocks(fams) THEN shared[n] \cup {r} ELSE shared[n]]
    BY <1>5 DEF ReadBegin
  <2>2. fams \subseteq LockNames /\ fams \subseteq ReadLocks(fams)
    BY UsedScopesAssumption, ScopeLocks DEF WriteScope, ReadLocks
  <2> HIDE DEF fams
  <2>3. SharedLocks' /\ ReadersHold'
    BY <1>1, <1>4, <2>1, <2>2 DEF SharedLocks, ReadersHold, ReadTypes
  <2>4. DOMAIN seen[r] = {}
    BY <1>4, <2>1 DEF ReadTypes
  <2>5. ReadTypes'
    BY <1>1, <1>4, <2>1, <2>2, <2>4 DEF ReadTypes
  <2>6. ReadsUnlessInterrupted'
    BY <1>2, <1>3, <1>4, <2>1 DEF ReadsUnlessInterrupted, ReadTypes
  <2>. QED BY <2>3, <2>5, <2>6 DEF ReadInv
<1>6. ASSUME NEW f \in Files, Read(r, f)
      PROVE  ReadInv' /\ ReadsUnlessInterrupted'
  <2> DEFINE new == [g \in DOMAIN seen[r] \cup {f} |-> IF g = f THEN file[f] ELSE seen[r][g]]
  <2>1. /\ FamilyOf[f] \in reading[r] /\ f \notin DOMAIN seen[r] /\ UNCHANGED <<reading, shared>>
        /\ seen' = [seen EXCEPT ![r] = new]
    BY <1>6 DEF Read
  <2>2. DOMAIN new = DOMAIN seen[r] \cup {f} /\ new[f] = file[f] /\ \A g \in DOMAIN seen[r] : new[g] = seen[r][g]
    BY <2>1
  <2> HIDE DEF new
  <2>3. seen'[r] = new /\ \A q \in Readers \ {r} : seen'[q] = seen[q]
    BY <1>4, <2>1 DEF ReadTypes
  <2>4. SharedLocks' /\ ReadersHold'
    BY <1>1, <1>4, <2>1 DEF SharedLocks, ReadersHold
  <2>5. ReadTypes'
    <3>1. DOMAIN seen' = Readers
      BY <1>4, <2>1 DEF ReadTypes
    <3>2. ASSUME NEW q \in Readers, NEW g \in DOMAIN seen'[q] PROVE g \in Files /\ FamilyOf[g] \in reading'[q]
      <4>1. CASE q = r
        BY <1>4, <2>1, <2>2, <2>3, <3>2, <4>1 DEF ReadTypes
      <4>2. CASE q # r
        BY <1>4, <2>1, <2>3, <3>2, <4>2 DEF ReadTypes
      <4>. QED BY <4>1, <4>2
    <3>. QED BY <1>1, <1>4, <2>1, <3>1, <3>2 DEF ReadTypes
  <2>6. Committed(f) = file[f] \/ \E s \in Interrupted : FamilyOf[f] \in WriteScope(s)
    <3>1. excl[FamilyOf[f]] = Nobody
      BY <1>4, <2>1 DEF ReadTypes, ReadersHold, SharedLocks
    <3>. QED BY <3>1, UnlockedIsCommitted
  <2>7. ASSUME NEW q \in Readers, NEW g \in DOMAIN seen'[q]
        PROVE  seen'[q][g] = Committed(g)' \/ \E s \in Interrupted' : FamilyOf[g] \in WriteScope(s)
    <3>1. CASE q = r /\ g = f
      BY <1>2, <1>3, <2>2, <2>3, <2>6, <3>1
    <3>2. CASE ~(q = r /\ g = f)
      <4>1. g \in DOMAIN seen[q] /\ seen'[q][g] = seen[q][g] /\ g \in Files
        BY <1>4, <2>2, <2>3, <2>7, <3>2 DEF ReadTypes
      <4>. QED BY <1>2, <1>3, <4>1 DEF ReadsUnlessInterrupted
    <3>. QED BY <3>1, <3>2
  <2>8. ReadsUnlessInterrupted'
    BY <2>7 DEF ReadsUnlessInterrupted
  <2>. QED BY <2>4, <2>5, <2>8 DEF ReadInv
<1>7. CASE ReadEnd(r)
  <2>1. /\ reading' = [reading EXCEPT ![r] = {}] /\ seen' = [seen EXCEPT ![r] = <<>>]
        /\ shared' = [n \in LockNames |-> shared[n] \ {r}]
    BY <1>7 DEF ReadEnd
  <2>2. SharedLocks' /\ ReadersHold'
    BY <1>1, <1>4, <2>1 DEF SharedLocks, ReadersHold, ReadTypes
  <2>3. seen'[r] = <<>> /\ \A q \in Readers \ {r} : seen'[q] = seen[q]
    BY <1>4, <2>1 DEF ReadTypes
  <2>4. ReadTypes'
    BY <1>1, <1>4, <2>1, <2>3 DEF ReadTypes
  <2>5. ReadsUnlessInterrupted'
    BY <1>2, <1>3, <1>4, <2>3 DEF ReadsUnlessInterrupted, ReadTypes
  <2>. QED BY <2>2, <2>4, <2>5 DEF ReadInv
<1>. QED BY <1>5, <1>6, <1>7 DEF ReadStep

LEMMA ReadInvInit == Init => ReadInv /\ ReadsUnlessInterrupted
BY BoundsAssumption DEF Init, ReadInv, SharedLocks, ReadTypes, ReadersHold, ReadsUnlessInterrupted

LEMMA ReadInvNext ==
  LockInv /\ DataInv /\ ReadInv /\ ReadsUnlessInterrupted /\ [Next]_vars
    => ReadInv' /\ ReadsUnlessInterrupted'
<1>. SUFFICES ASSUME LockInv, DataInv, ReadInv, ReadsUnlessInterrupted, [Next]_vars
              PROVE  ReadInv' /\ ReadsUnlessInterrupted'
  OBVIOUS
<1>1. CASE UNCHANGED vars
  <2>1. /\ UNCHANGED <<file, jstate, jentries, pc, scope, entries>>
        /\ UNCHANGED <<writes, excl, shared, reading, seen>>
    BY <1>1 DEF vars, files, locks, txn, readers
  <2>2. \A f \in Files : Committed(f)' = Committed(f)
    BY <2>1, OtherStepOfStore DEF DbSame
  <2>3. Interrupted' = Interrupted
    BY <2>1 DEF Interrupted, Pending, WorksOn
  <2>. QED BY <2>1, <2>2, <2>3 DEF ReadInv, SharedLocks, ReadTypes, ReadersHold, ReadsUnlessInterrupted
<1>. QED BY <1>1, WriterKeepsReads, ReaderKeepsReads DEF Next, WriterStep

(* BinaryDbReadTxn: a reader's files are the committed ones, all from the  *)
(* same moment, unless a dead writer left a journal over one of them.      *)
THEOREM ReadsAreCommitted == Spec => []ReadsUnlessInterrupted
BY JournalsCanBeUndone, ReadInvInit, ReadInvNext, PTL DEF Spec

(* The shapes of files, journals, locks and transactions.                  *)
THEOREM TypesHold == Spec => []TypeOK
<1>1. LockInv /\ DataInv /\ ReadInv => TypeOK
  <2>. SUFFICES ASSUME LockInv, DataInv, ReadInv PROVE TypeOK
    OBVIOUS
  <2>1. ASSUME NEW w \in Writers PROVE cursor[w] \in 0 .. Len(entries[w])
    <3>1. entries[w] \in Seq(JournalEntries) /\ EntriesOK(w)
      BY DEF DataInv, DataTypes
    <3>2. Len(entries[w]) \in Nat
      BY <3>1
    <3>. QED BY <3>1, <3>2 DEF EntriesOK
  <2>. QED BY <2>1 DEF TypeOK, LockInv, LockTypes, DataInv, DataTypes, ReadInv, SharedLocks, ReadTypes
<1>2. Spec => [](LockInv /\ DataInv /\ ReadInv)
  BY JournalsCanBeUndone, ReadInvInit, ReadInvNext, PTL DEF Spec
<1>. QED BY <1>1, <1>2, PTL
=============================================================================
