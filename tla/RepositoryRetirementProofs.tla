---------------------- MODULE RepositoryRetirementProofs ----------------------
(***************************************************************************)
(* Proofs about RepositoryRetirement, for every number of jobs, of I/O     *)
(* errors and of crashes.                                                  *)
(***************************************************************************)
EXTENDS RepositoryRetirement, SequenceTheorems, TLAPS

(* Which step may come after which.                                        *)
Precedes(a, b) ==
  \/ a = "copyPatchset" /\ b = "copyJobs"
  \/ a = "copyJobs" /\ b = "writeTemp"
  \/ a = "writeTemp" /\ b = "publish"
  \/ a = "publish" /\ b = "clear"
  \/ a = "clear" /\ b = "tombstone"
  \/ a = "tombstone" /\ b = "replaceRecord"
  \/ a = "replaceRecord" /\ b = "rebuildIndex"
  \/ a = "rebuildIndex" /\ b = "catalog"
  \/ a = "catalog" /\ b = "unpublish"
  \/ a = "restorePatchset" /\ b = "restoreJobs"
  \/ a = "restoreJobs" /\ b = "unpublish"
  \/ a = "unpublish" /\ b = "sweep"
  \/ a \in {"sweep", "recover"} /\ b = "open"
  \/ a \in {"sweep", "open"} /\ b = "recoverJobs"
  \/ a = "recoverJobs" /\ b = "reread"

(* What is left to do is in that order; the repetition of a purge that     *)
(* happened ends with the catalog.                                         *)
Ordered(t) ==
  /\ t \in Seq(Steps)
  /\ \A i \in 1 .. Len(t) : i < Len(t) =>
       \/ Precedes(t[i], t[i + 1])
       \/ t[i] = "sweep" /\ t[i + 1] = "catalog" /\ i + 1 = Len(t)

(* Contents c of the two files with everything the client exported, and    *)
(* what it may still export because the manifest is cached, and with no    *)
(* job tombstoned.                                                         *)
Holds(e, p) == e # Absent => e.patchset \subseteq p
HasExported(p) == Holds(export, p) /\ Holds(cache, p)
Kept == Exported \cup (IF cache = Absent THEN {} ELSE DOMAIN cache.jobs)
Whole(c) ==
  /\ HasExported(c.patchset)
  /\ Kept \subseteq DOMAIN c.jobs
  /\ \A j \in DOMAIN c.jobs : c.jobs[j] # "tombstoned"
Unlocated == \A j \in Exported : j \notin patchset
Normalized == export # Absent /\ Unlocated /\ \A j \in Exported : jobs[j] = "tombstoned"

FilesOK ==
  /\ lifecycle \in Lifecycles /\ patchset \in SUBSET Jobs /\ jobs \in JobTable
  /\ image \in [patchset : (SUBSET Jobs) \cup {Absent}, jobs : JobTable \cup {Absent}]
  /\ journal \in BOOLEAN /\ leftover \in BOOLEAN /\ scratch \in BOOLEAN /\ misread \in BOOLEAN
Types ==
  /\ FilesOK
  /\ export \in Content \cup {Absent} /\ cache \in Content \cup {Absent}
  /\ enqueuer \in {"idle", "admitted"}
  /\ server \in {"down", "starting", "up"}
  /\ Ordered(todo) /\ handler \in {"none", "outer"}
  /\ errors \in 0 .. MaxErrors /\ crashes \in 0 .. MaxCrashes

(* Jobs are not lost but by restoring an image: there is room for the one  *)
(* that is admitted, and those exported are still in the table.            *)
Room ==
  /\ image.jobs # Absent => Len(image.jobs) <= Len(jobs)
  /\ enqueuer = "admitted" => Len(jobs) < MaxJobs
  /\ Kept \subseteq DOMAIN jobs

(* The files at rest, after whatever crash and error: without a journal    *)
(* nothing of a purge is left in them; with one the images are all that    *)
(* undoing takes.                                                          *)
AtRest ==
  /\ lifecycle = "purged" /\ ~misread => Normalized
  /\ lifecycle # "purged" /\ ~journal => Whole(Now)
  /\ journal => /\ export # Absent /\ Whole(image)
                /\ image.patchset # Absent /\ image.jobs # Absent
FilesInv == FilesOK /\ Room /\ AtRest

(* What holds where the work has come to.                                  *)
AtStep ==
  /\ At("check") => lifecycle = "retiring" /\ export # Absent
  /\ \/ At("copyPatchset") \/ At("copyJobs") \/ At("writeTemp") \/ At("publish")
     => lifecycle = "retiring" /\ ~journal /\ export # Absent
  /\ At("copyJobs") \/ At("writeTemp") \/ At("publish")
     => image.patchset # Absent /\ HasExported(image.patchset)
  /\ At("writeTemp") \/ At("publish") => image.jobs # Absent /\ Whole(image)
  /\ At("clear") \/ At("tombstone") \/ At("replaceRecord") => lifecycle = "retiring" /\ journal
  /\ At("tombstone") => Unlocated
  /\ At("replaceRecord") => Normalized
  /\ At("rebuildIndex") => lifecycle = "purged"
  /\ At("catalog") => lifecycle = "purged" \/ Tail(todo) = <<>>
  /\ At("restorePatchset") \/ At("restoreJobs") => journal /\ (lifecycle = "retiring" \/ misread)
  /\ At("restoreJobs") => HasExported(patchset)
  /\ At("unpublish") => lifecycle = "purged" \/ Whole(Now)
  /\ At("sweep") => ~journal

RetireInv == Types /\ Room /\ AtRest /\ AtStep

-----------------------------------------------------------------------------
(* What is left after a step, by the step.                                 *)
LEMMA OrderedTail ==
  ASSUME NEW t, Ordered(t), t # <<>>
  PROVE  /\ Ordered(Tail(t)) /\ Head(t) \in Steps
         /\ Tail(t) # <<>> =>
              \/ Precedes(Head(t), Head(Tail(t)))
              \/ Head(t) = "sweep" /\ Head(Tail(t)) = "catalog" /\ Tail(Tail(t)) = <<>>
<1>1. /\ t \in Seq(Steps) /\ Len(t) \in Nat /\ Len(t) > 0 /\ Head(t) = t[1] /\ t[1] \in Steps
      /\ Tail(t) \in Seq(Steps) /\ Len(Tail(t)) = Len(t) - 1
  BY DEF Ordered
<1>2. \A i \in 1 .. Len(Tail(t)) : Tail(t)[i] = t[i + 1]
  BY <1>1
<1>3. Ordered(Tail(t))
  <2> SUFFICES ASSUME NEW i \in 1 .. Len(Tail(t)), i < Len(Tail(t))
               PROVE  \/ Precedes(Tail(t)[i], Tail(t)[i + 1])
                      \/ /\ Tail(t)[i] = "sweep" /\ Tail(t)[i + 1] = "catalog"
                         /\ i + 1 = Len(Tail(t))
    BY <1>1 DEF Ordered
  <2>1. i + 1 \in 1 .. Len(t) /\ i + 1 < Len(t) /\ i + 1 \in 1 .. Len(Tail(t))
    BY <1>1
  <2>2. Tail(t)[i] = t[i + 1] /\ Tail(t)[i + 1] = t[i + 2] /\ (i + 1) + 1 = i + 2
    BY <1>2, <2>1
  <2>3. \/ Precedes(t[i + 1], t[i + 2])
        \/ t[i + 1] = "sweep" /\ t[i + 2] = "catalog" /\ i + 2 = Len(t)
    BY <2>1, <2>2 DEF Ordered
  <2>4. i + 2 = Len(t) => i + 1 = Len(Tail(t))
    <3>1. \A n, m \in Nat : m = n - 1 /\ i + 2 = n => i + 1 = m
      BY <1>1
    <3>2. Len(t) \in Nat /\ Len(Tail(t)) \in Nat /\ Len(Tail(t)) = Len(t) - 1
      BY <1>1
    <3>. QED BY <3>1, <3>2, Zenon
  <2>. QED BY <2>2, <2>3, <2>4 DEF Precedes
<1>4. ASSUME Tail(t) # <<>>
      PROVE  \/ Precedes(Head(t), Head(Tail(t)))
             \/ Head(t) = "sweep" /\ Head(Tail(t)) = "catalog" /\ Tail(Tail(t)) = <<>>
  <2>1. Len(Tail(t)) > 0 /\ Head(Tail(t)) = Tail(t)[1] /\ Tail(t)[1] = t[2] /\ 1 < Len(t) /\ 1 \in 1 .. Len(t)
    BY <1>1, <1>2, <1>4
  <2>2. Precedes(t[1], t[2]) \/ (t[1] = "sweep" /\ t[2] = "catalog" /\ 2 = Len(t))
    <3>1. \A i \in 1 .. Len(t) : i < Len(t) =>
            Precedes(t[i], t[i + 1]) \/ (t[i] = "sweep" /\ t[i + 1] = "catalog" /\ i + 1 = Len(t))
      BY DEF Ordered
    <3>2. Precedes(t[1], t[1 + 1]) \/ (t[1] = "sweep" /\ t[1 + 1] = "catalog" /\ 1 + 1 = Len(t))
      BY <2>1, <3>1
    <3>. QED BY <3>2 DEF Precedes
  <2>3. 2 = Len(t) => Tail(Tail(t)) = <<>>
    <3>1. \A n, m \in Nat : m = n - 1 /\ 2 = n => m = 1
      OBVIOUS
    <3>2. Len(t) \in Nat /\ Len(Tail(t)) \in Nat /\ Len(Tail(t)) = Len(t) - 1
      BY <1>1
    <3>3. 2 = Len(t) => Len(Tail(t)) = 1
      BY <3>1, <3>2, Zenon
    <3>4. ASSUME NEW x \in Seq(Steps), Len(x) = 1 PROVE Tail(x) = <<>>
      <4>1. x # <<>>
        BY <3>4
      <4>2. Tail(x) \in Seq(Steps) /\ Len(Tail(x)) = 0
        BY <3>4, <4>1
      <4>3. Tail(x) # <<>> => Len(Tail(x)) \in Nat \ {0}
        BY <4>2, EmptySeq, Zenon
      <4>. QED BY <4>2, <4>3
    <3>. QED BY <1>1, <3>3, <3>4, Zenon
  <2>. QED BY <1>1, <2>1, <2>2, <2>3
<1>. QED BY <1>1, <1>3, <1>4

(* A concatenation, by its elements.                                       *)
IsJoin(S, s, r, u) ==
  /\ s \in Seq(S) /\ Len(s) = Len(r) + Len(u)
  /\ \A i \in 1 .. Len(s) : s[i] = IF i <= Len(r) THEN r[i] ELSE u[i - Len(r)]

LEMMA Joined ==
  ASSUME NEW S, NEW r \in Seq(S), NEW u \in Seq(S), NEW s, s = r \o u
  PROVE  IsJoin(S, s, r, u)
<1>1. /\ r \o u \in Seq(S) /\ Len(r \o u) = Len(r) + Len(u)
      /\ \A i \in 1 .. Len(r) + Len(u) : (r \o u)[i] = IF i <= Len(r) THEN r[i] ELSE u[i - Len(r)]
  BY ConcatProperties, Zenon
<1>. QED BY <1>1, Zenon DEF IsJoin

(* What may come after the steps of a recovery.                            *)
Continues(u) ==
  u = <<>> \/ (Ordered(u) /\ u # <<>> /\ (u[1] \in {"open", "recoverJobs"} \/ u = <<"catalog">>))

LEMMA OrderedJoin ==
  ASSUME NEW r, NEW u, Ordered(r), r # <<>>, r[Len(r)] = "sweep", Continues(u)
  PROVE  Ordered(r \o u) /\ r \o u # <<>> /\ Head(r \o u) = Head(r)
<1>1. r \in Seq(Steps) /\ Len(r) \in Nat /\ Len(r) > 0
  BY DEF Ordered
<1>2. CASE u = <<>>
  <2>1. r \o u = r
    BY <1>1, <1>2, ConcatEmptySeq, Zenon
  <2>. QED BY <2>1
<1>3. CASE Ordered(u) /\ u # <<>> /\ (u[1] \in {"open", "recoverJobs"} \/ u = <<"catalog">>)
  <2>1. u \in Seq(Steps) /\ Len(u) \in Nat /\ Len(u) > 0 /\ (u = <<"catalog">> => u[1] = "catalog" /\ Len(u) = 1)
    BY <1>3 DEF Ordered
  <2> DEFINE s == r \o u
  <2>2. /\ s \in Seq(Steps) /\ Len(s) = Len(r) + Len(u)
        /\ \A i \in 1 .. Len(s) : s[i] = IF i <= Len(r) THEN r[i] ELSE u[i - Len(r)]
    <3>1. IsJoin(Steps, s, r, u)
      BY <1>1, <2>1, Joined, Zenon
    <3>. QED BY <3>1, Zenon DEF IsJoin
  <2> HIDE DEF s
  <2>3. ASSUME NEW i \in 1 .. Len(s), i < Len(s)
        PROVE  \/ Precedes(s[i], s[i + 1])
               \/ s[i] = "sweep" /\ s[i + 1] = "catalog" /\ i + 1 = Len(s)
    <3>1. CASE i < Len(r)
      <4>1. s[i] = r[i] /\ s[i + 1] = r[i + 1] /\ i \in 1 .. Len(r)
        BY <1>1, <2>1, <2>2, <3>1
      <4>2. ~(r[i + 1] = "catalog" /\ i + 1 = Len(r))
        OBVIOUS
      <4>3. Precedes(r[i], r[i + 1])
        BY <3>1, <4>1, <4>2 DEF Ordered
      <4>. QED BY <4>1, <4>3
    <3>2. CASE i = Len(r)
      <4>1. s[i] = "sweep" /\ s[i + 1] = u[1]
        BY <1>1, <2>1, <2>2, <3>2
      <4>2. CASE u[1] \in {"open", "recoverJobs"}
        BY <4>1, <4>2 DEF Precedes
      <4>3. CASE u = <<"catalog">>
        BY <1>1, <2>1, <2>2, <3>2, <4>1, <4>3
      <4>. QED BY <1>3, <4>2, <4>3
    <3>3. CASE i > Len(r)
      <4>1. PICK k \in 1 .. Len(u) : i = Len(r) + k
        BY <1>1, <2>1, <2>2, <3>3
      <4>2. k < Len(u) /\ s[i] = u[k] /\ s[i + 1] = u[k + 1]
        BY <1>1, <2>1, <2>2, <2>3, <4>1
      <4>3. Precedes(u[k], u[k + 1]) \/ (u[k] = "sweep" /\ u[k + 1] = "catalog" /\ k + 1 = Len(u))
        BY <1>3, <4>2 DEF Ordered
      <4>4. k + 1 = Len(u) => i + 1 = Len(s)
        <5>1. \A n, m, q \in Nat : q = m + n /\ i = m + k /\ k + 1 = n => i + 1 = q
          BY <2>1
        <5>2. Len(s) \in Nat
          BY <1>1, <2>1, <2>2
        <5>. QED BY <1>1, <2>1, <2>2, <4>1, <5>1, <5>2, Zenon
      <4>. QED BY <4>2, <4>3, <4>4 DEF Precedes
    <3>. QED BY <1>1, <2>2, <3>1, <3>2, <3>3
  <2>4. Ordered(s)
    BY <2>2, <2>3 DEF Ordered
  <2>5. s # <<>> /\ Head(s) = s[1] /\ s[1] = r[1] /\ Head(r) = r[1]
    BY <1>1, <2>1, <2>2
  <2>. QED BY <2>4, <2>5 DEF s
<1>. QED BY <1>2, <1>3 DEF Continues

LEMMA JobTableIs ==
  ASSUME NEW s
  PROVE  s \in JobTable <=> s \in Seq({"live", "done", "tombstoned"}) /\ Len(s) <= MaxJobs
BY BoundsAssumption DEF JobTable

(* The steps of a recovery are in order, and end with the sweep.           *)
LEMMA FinishOrdered ==
  /\ Ordered(FinishSteps) /\ FinishSteps # <<>> /\ Head(FinishSteps) = "unpublish"
  /\ FinishSteps[Len(FinishSteps)] = "sweep"
<1>1. /\ FinishSteps \in Seq(Steps) /\ Len(FinishSteps) = 2 /\ FinishSteps[1] = "unpublish"
      /\ FinishSteps[2] = "sweep"
  BY DEF FinishSteps, Steps
<1>2. Precedes(FinishSteps[1], FinishSteps[2])
  BY <1>1 DEF Precedes
<1>3. \A i \in 1 .. Len(FinishSteps) : i < Len(FinishSteps) => i = 1
  BY <1>1
<1>4. Ordered(FinishSteps)
  BY <1>1, <1>2, <1>3 DEF Ordered
<1>. QED BY <1>1, <1>4

LEMMA SweepOrdered ==
  /\ Ordered(<<"sweep">>) /\ <<"sweep">> # <<>> /\ Head(<<"sweep">>) = "sweep"
  /\ <<"sweep">>[Len(<<"sweep">>)] = "sweep"
<1>1. <<"sweep">> \in Seq(Steps) /\ Len(<<"sweep">>) = 1 /\ <<"sweep">>[1] = "sweep"
  BY DEF Steps
<1>. QED BY <1>1 DEF Ordered

LEMMA UndoOrdered ==
  /\ Ordered(UndoSteps) /\ UndoSteps # <<>> /\ Head(UndoSteps) = "restorePatchset"
  /\ UndoSteps[Len(UndoSteps)] = "sweep"
<1> DEFINE r == <<"restorePatchset", "restoreJobs">>
           u == FinishSteps
           s == UndoSteps
<1>1. /\ r \in Seq(Steps) /\ u \in Seq(Steps) /\ Len(r) = 2 /\ Len(u) = 2
      /\ r[1] = "restorePatchset" /\ r[2] = "restoreJobs" /\ u[1] = "unpublish" /\ u[2] = "sweep"
  BY DEF FinishSteps, Steps
<1>2. s = r \o u
  BY DEF UndoSteps
<1> HIDE DEF r, u, s
<1>s. IsJoin(Steps, s, r, u)
  <2>1. r \in Seq(Steps) /\ u \in Seq(Steps) /\ s = r \o u
    BY <1>1, <1>2, Zenon
  <2>. QED BY <2>1, Joined, Zenon
<1>3. s \in Seq(Steps) /\ Len(s) = 4
  BY <1>1, <1>s DEF IsJoin
<1>4. s[1] = "restorePatchset" /\ s[2] = "restoreJobs" /\ s[3] = "unpublish" /\ s[4] = "sweep"
  BY <1>1, <1>s, <1>3 DEF IsJoin
<1>5. Ordered(s)
  <2>1. Precedes(s[1], s[2]) /\ Precedes(s[2], s[3]) /\ Precedes(s[3], s[4])
    BY <1>4 DEF Precedes
  <2>2. \A i \in 1 .. Len(s) : i < Len(s) => i = 1 \/ i = 2 \/ i = 3
    BY <1>3
  <2>. QED BY <1>3, <2>1, <2>2 DEF Ordered
<1>6. s # <<>> /\ Head(s) = s[1] /\ s[Len(s)] = "sweep"
  BY <1>3, <1>4
<1>. QED BY <1>4, <1>5, <1>6 DEF s

LEMMA PurgeOrdered == Ordered(PurgeSteps) /\ PurgeSteps # <<>> /\ Head(PurgeSteps) = "copyPatchset"
<1> DEFINE r == PrepareSteps
           u == <<"clear", "tombstone", "replaceRecord", "rebuildIndex", "catalog">>
           s == r \o u
           v == FinishSteps
           q == s \o v
<1>1. /\ r \in Seq(Steps) /\ Len(r) = 4 /\ r[1] = "copyPatchset" /\ r[2] = "copyJobs"
      /\ r[3] = "writeTemp" /\ r[4] = "publish"
  BY DEF PrepareSteps, Steps
<1>2. /\ u \in Seq(Steps) /\ Len(u) = 5 /\ u[1] = "clear" /\ u[2] = "tombstone"
      /\ u[3] = "replaceRecord" /\ u[4] = "rebuildIndex" /\ u[5] = "catalog"
  BY DEF Steps
<1>3. v \in Seq(Steps) /\ Len(v) = 2 /\ v[1] = "unpublish" /\ v[2] = "sweep"
  BY DEF FinishSteps, Steps
<1>4. q = PurgeSteps /\ s = r \o u /\ q = s \o v
  BY DEF PurgeSteps
<1> HIDE DEF r, u, v, s, q
<1>s. IsJoin(Steps, s, r, u)
  <2>1. r \in Seq(Steps) /\ u \in Seq(Steps) /\ s = r \o u
    BY <1>1, <1>2, <1>4, Zenon
  <2>. QED BY <2>1, Joined, Zenon
<1>5. s \in Seq(Steps) /\ Len(s) = 9
  BY <1>1, <1>2, <1>s DEF IsJoin
<1>6. s[1] = r[1] /\ s[2] = r[2] /\ s[3] = r[3] /\ s[4] = r[4]
  BY <1>1, <1>2, <1>5, <1>s DEF IsJoin
<1>7. s[5] = u[1] /\ s[6] = u[2] /\ s[7] = u[3] /\ s[8] = u[4] /\ s[9] = u[5]
  BY <1>1, <1>2, <1>5, <1>s DEF IsJoin
<1>q. IsJoin(Steps, q, s, v)
  <2>1. s \in Seq(Steps) /\ v \in Seq(Steps) /\ q = s \o v
    BY <1>3, <1>4, <1>5, Zenon
  <2>. QED BY <2>1, Joined, Zenon
<1>8. q \in Seq(Steps) /\ Len(q) = 11
  BY <1>3, <1>5, <1>q DEF IsJoin
<1>9. \A i \in 1 .. 9 : q[i] = s[i]
  BY <1>3, <1>5, <1>q DEF IsJoin
<1>10. q[10] = v[1] /\ q[11] = v[2]
  BY <1>3, <1>5, <1>q DEF IsJoin
<1>11. /\ q[1] = "copyPatchset" /\ q[2] = "copyJobs" /\ q[3] = "writeTemp" /\ q[4] = "publish"
       /\ q[5] = "clear" /\ q[6] = "tombstone" /\ q[7] = "replaceRecord" /\ q[8] = "rebuildIndex"
       /\ q[9] = "catalog" /\ q[10] = "unpublish" /\ q[11] = "sweep"
  BY <1>1, <1>2, <1>3, <1>6, <1>7, <1>9, <1>10
<1>12. Ordered(q)
  <2>1. /\ Precedes(q[1], q[2]) /\ Precedes(q[2], q[3]) /\ Precedes(q[3], q[4])
        /\ Precedes(q[4], q[5]) /\ Precedes(q[5], q[6]) /\ Precedes(q[6], q[7])
        /\ Precedes(q[7], q[8]) /\ Precedes(q[8], q[9]) /\ Precedes(q[9], q[10])
        /\ Precedes(q[10], q[11])
    BY <1>11 DEF Precedes
  <2>2. \A i \in 1 .. Len(q) : i < Len(q) => i \in {1, 2, 3, 4, 5, 6, 7, 8, 9, 10}
    BY <1>8
  <2>. QED BY <1>8, <2>1, <2>2 DEF Ordered
<1>13. q # <<>> /\ Head(q) = q[1]
  BY <1>8
<1>. QED BY <1>4, <1>11, <1>12, <1>13

(* A recovery and what comes after it: where it begins, by the lifecycle   *)
(* it goes by.                                                             *)
LEMMA RecoveryOrdered ==
  ASSUME NEW l, NEW u, Continues(u), NEW t, t = RecoverySteps(l) \o u
  PROVE  /\ Ordered(t) /\ t # <<>>
         /\ ~journal => Head(t) = "sweep"
         /\ journal /\ l = "retiring" => Head(t) = "restorePatchset"
         /\ journal /\ l # "retiring" => Head(t) = "unpublish"
<1> DEFINE r == RecoverySteps(l)
<1>1. /\ Ordered(r) /\ r # <<>> /\ r[Len(r)] = "sweep"
      /\ ~journal => Head(r) = "sweep"
      /\ journal /\ l = "retiring" => Head(r) = "restorePatchset"
      /\ journal /\ l # "retiring" => Head(r) = "unpublish"
  BY FinishOrdered, SweepOrdered, UndoOrdered, Zenon DEF RecoverySteps
<1> HIDE DEF r
<1>2. Ordered(r \o u) /\ r \o u # <<>> /\ Head(r \o u) = Head(r)
  BY <1>1, OrderedJoin, Zenon
<1>. QED BY <1>1, <1>2, Zenon DEF r

(* The other sequences of steps.                                           *)
LEMMA ShortOrdered ==
  /\ Ordered(<<>>)
  /\ Ordered(<<"check">>) /\ Head(<<"check">>) = "check" /\ <<"check">> # <<>>
  /\ Ordered(<<"reread">>) /\ Head(<<"reread">>) = "reread" /\ <<"reread">> # <<>>
  /\ Ordered(<<"recover", "open", "recoverJobs">>)
  /\ Head(<<"recover", "open", "recoverJobs">>) = "recover" /\ <<"recover", "open", "recoverJobs">> # <<>>
  /\ Continues(<<>>) /\ Continues(<<"catalog">>) /\ Continues(<<"recoverJobs">>)
  /\ Continues(<<"recoverJobs", "reread">>)
<1>1. Ordered(<<>>)
  BY DEF Ordered
<1>2. Ordered(<<"check">>) /\ Ordered(<<"reread">>) /\ Ordered(<<"catalog">>) /\ Ordered(<<"recoverJobs">>)
  BY DEF Ordered, Steps
<1>3. Ordered(<<"recoverJobs", "reread">>)
  <2> DEFINE t == <<"recoverJobs", "reread">>
  <2>1. t \in Seq(Steps) /\ Len(t) = 2 /\ t[1] = "recoverJobs" /\ t[2] = "reread"
    BY DEF Steps
  <2> HIDE DEF t
  <2>2. Ordered(t)
    BY <2>1 DEF Ordered, Precedes
  <2>. QED BY <2>2 DEF t
<1>4. Ordered(<<"recover", "open", "recoverJobs">>)
  <2> DEFINE t == <<"recover", "open", "recoverJobs">>
  <2>1. t \in Seq(Steps) /\ Len(t) = 3 /\ t[1] = "recover" /\ t[2] = "open" /\ t[3] = "recoverJobs"
    BY DEF Steps
  <2> HIDE DEF t
  <2>2. Ordered(t)
    BY <2>1 DEF Ordered, Precedes
  <2>. QED BY <2>2 DEF t
<1>5. /\ <<"recoverJobs">> # <<>> /\ <<"recoverJobs">>[1] = "recoverJobs" /\ <<"catalog">> # <<>>
      /\ <<"recoverJobs", "reread">> # <<>> /\ <<"recoverJobs", "reread">>[1] = "recoverJobs"
  OBVIOUS
<1>6. /\ Continues(<<>>) /\ Continues(<<"catalog">>) /\ Continues(<<"recoverJobs">>)
      /\ Continues(<<"recoverJobs", "reread">>)
  BY <1>2, <1>3, <1>5 DEF Continues
<1>7. /\ Head(<<"check">>) = "check" /\ <<"check">> # <<>>
      /\ Head(<<"reread">>) = "reread" /\ <<"reread">> # <<>>
      /\ Head(<<"recover", "open", "recoverJobs">>) = "recover" /\ <<"recover", "open", "recoverJobs">> # <<>>
  OBVIOUS
<1>. QED BY <1>1, <1>2, <1>4, <1>6, <1>7

-----------------------------------------------------------------------------
(* What the operations on the table of Worker Jobs make of it.             *)
States == {"live", "done", "tombstoned"}

LEMMA TableFacts ==
  ASSUME NEW s \in JobTable
  PROVE  s \in Seq(States) /\ Len(s) \in 0 .. MaxJobs /\ DOMAIN s = 1 .. Len(s)
<1>1. s \in Seq(States) /\ Len(s) <= MaxJobs
  BY JobTableIs DEF States
<1>. QED BY <1>1, BoundsAssumption

LEMMA TableAppended ==
  ASSUME NEW s \in JobTable, Len(s) < MaxJobs, NEW r, r = Append(s, "live")
  PROVE  /\ r \in JobTable /\ Len(r) = Len(s) + 1 /\ r[Len(s) + 1] = "live"
         /\ \A j \in DOMAIN s : r[j] = s[j]
<1>1. s \in Seq(States) /\ Len(s) \in 0 .. MaxJobs /\ DOMAIN s = 1 .. Len(s)
  BY TableFacts
<1>2. r \in Seq(States) /\ Len(r) = Len(s) + 1
  BY <1>1 DEF States
<1>a. Len(r) <= MaxJobs
  BY <1>1, <1>2, BoundsAssumption
<1>3. r \in JobTable
  BY <1>2, <1>a, JobTableIs, Zenon DEF States
<1>. QED BY <1>1, <1>2, <1>3

LEMMA TableFinished ==
  ASSUME NEW s \in JobTable, NEW k \in DOMAIN s, NEW r, r = [s EXCEPT ![k] = "done"]
  PROVE  /\ r \in JobTable /\ Len(r) = Len(s) /\ r[k] = "done"
         /\ \A j \in DOMAIN s : j # k => r[j] = s[j]
<1>1. s \in Seq(States) /\ Len(s) \in 0 .. MaxJobs /\ DOMAIN s = 1 .. Len(s)
  BY TableFacts
<1>2. r \in Seq(States) /\ Len(r) = Len(s)
  BY <1>1 DEF States
<1>3. r \in JobTable
  BY <1>1, <1>2, JobTableIs, BoundsAssumption DEF States
<1>. QED BY <1>1, <1>2, <1>3

LEMMA TableTombstoned ==
  ASSUME NEW s \in JobTable, NEW r, r = [j \in DOMAIN s |-> "tombstoned"]
  PROVE  r \in JobTable /\ Len(r) = Len(s) /\ \A j \in DOMAIN s : r[j] = "tombstoned"
<1>1. s \in Seq(States) /\ Len(s) \in 0 .. MaxJobs /\ DOMAIN s = 1 .. Len(s)
  BY TableFacts
<1>2. r \in Seq(States) /\ Len(r) = Len(s)
  BY <1>1 DEF States
<1>3. r \in JobTable
  BY <1>1, <1>2, JobTableIs, BoundsAssumption DEF States
<1>. QED BY <1>1, <1>2, <1>3

(* What a state says of the files, by elements.                            *)
LEMMA FileFacts ==
  ASSUME Types
  PROVE  /\ jobs \in JobTable /\ jobs \in Seq(States) /\ Len(jobs) \in 0 .. MaxJobs
         /\ DOMAIN jobs = 1 .. Len(jobs) /\ patchset \in SUBSET Jobs
         /\ image \in [patchset : (SUBSET Jobs) \cup {Absent}, jobs : JobTable \cup {Absent}]
         /\ image.patchset \in (SUBSET Jobs) \cup {Absent} /\ image.jobs \in JobTable \cup {Absent}
         /\ image.jobs # Absent =>
              Len(image.jobs) \in 0 .. MaxJobs /\ DOMAIN image.jobs = 1 .. Len(image.jobs)
         /\ Now \in Content /\ Now # Absent /\ Now.patchset = patchset /\ Now.jobs = jobs
<1>1. /\ jobs \in JobTable /\ patchset \in SUBSET Jobs
      /\ image \in [patchset : (SUBSET Jobs) \cup {Absent}, jobs : JobTable \cup {Absent}]
  BY DEF Types, FilesOK
<1>2. image.patchset \in (SUBSET Jobs) \cup {Absent} /\ image.jobs \in JobTable \cup {Absent}
  BY <1>1
<1>3. jobs \in Seq(States) /\ Len(jobs) \in 0 .. MaxJobs /\ DOMAIN jobs = 1 .. Len(jobs)
  BY <1>1, TableFacts
<1>4. image.jobs # Absent =>
        Len(image.jobs) \in 0 .. MaxJobs /\ DOMAIN image.jobs = 1 .. Len(image.jobs)
  BY <1>2, TableFacts
<1>5. Now \in Content /\ Now.patchset = patchset /\ Now.jobs = jobs
  BY <1>1 DEF Now, Content
<1>6. Now # Absent
  BY <1>5, AbsentAssumption
<1>. QED BY <1>1, <1>2, <1>3, <1>4, <1>5, <1>6

-----------------------------------------------------------------------------
(* Worker Jobs come and go: no job is tombstoned, or stops being so, and   *)
(* only a job that is new is located by one more Patchset.                 *)
JobsGrow ==
  /\ jobs' \in JobTable /\ Len(jobs) <= Len(jobs') /\ patchset' \in SUBSET Jobs
  /\ patchset \subseteq patchset'
  /\ \A j \in DOMAIN jobs : j \in patchset' /\ jobs[j] = "tombstoned" => j \in patchset
  /\ \A j \in DOMAIN jobs : j \in patchset' /\ ~At("open") => j \in patchset
  /\ \A j \in DOMAIN jobs : jobs'[j] = "tombstoned" <=> jobs[j] = "tombstoned"
  /\ \A j \in DOMAIN jobs' : j \notin DOMAIN jobs => jobs'[j] # "tombstoned"

LEMMA GrowKeepsInv ==
  ASSUME RetireInv, JobsGrow, scratch' \in BOOLEAN,
         enqueuer' \in {"idle", "admitted"}, enqueuer' = "admitted" => Len(jobs') < MaxJobs,
         UNCHANGED <<lifecycle, image, journal, leftover, export, cache, handler, misread, errors, crashes>>
  PROVE  /\ FilesInv'
         /\ UNCHANGED <<server, todo>> => RetireInv'
<1>1. /\ Types /\ Room /\ AtRest /\ AtStep
  BY DEF RetireInv
<1>2. FilesOK'
  BY <1>1 DEF Types, FilesOK, JobsGrow
<1>3. /\ DOMAIN jobs = 1 .. Len(jobs) /\ Len(jobs) \in Nat /\ DOMAIN jobs' = 1 .. Len(jobs')
      /\ Len(jobs') \in Nat
  BY <1>1, FileFacts, TableFacts, BoundsAssumption DEF JobsGrow
<1>4. DOMAIN jobs \subseteq DOMAIN jobs'
  BY <1>3 DEF JobsGrow
<1>5. Kept \subseteq DOMAIN jobs /\ Exported \subseteq DOMAIN jobs /\ Exported' = Exported /\ Kept' = Kept
  BY <1>1 DEF Room, Exported, Kept
<1>6. image.jobs # Absent => Len(image.jobs) \in Nat
  BY <1>1, FileFacts, BoundsAssumption
<1>7. Room'
  BY <1>1, <1>3, <1>4, <1>5, <1>6 DEF Room, JobsGrow
<1>8. Normalized => Normalized'
  BY <1>5 DEF Unlocated, Normalized, JobsGrow
<1>9. Whole(Now) => Whole(Now)'
  BY <1>4, <1>5 DEF Whole, HasExported, Holds, Now, JobsGrow
<1>10. /\ Whole(image) => Whole(image)' 
       /\ HasExported(image.patchset) => HasExported(image.patchset)'
       /\ HasExported(patchset) => HasExported(patchset)'
  BY <1>5 DEF Whole, HasExported, Holds, JobsGrow
<1>11. AtRest'
  BY <1>1, <1>8, <1>9, <1>10 DEF AtRest
<1>12. ASSUME UNCHANGED <<server, todo>> PROVE RetireInv'
  <2>1. Types'
    BY <1>1, <1>2, <1>12 DEF Types
  <2>2. Unlocated /\ At("tombstone") => Unlocated'
    BY <1>5 DEF Unlocated, JobsGrow, At
  <2>3. AtStep'
    BY <1>1, <1>8, <1>9, <1>10, <1>12, <2>2 DEF AtStep, At
  <2>. QED BY <1>7, <1>11, <2>1, <2>3 DEF RetireInv
<1>. QED BY <1>2, <1>7, <1>11, <1>12 DEF FilesInv

LEMMA AdmitKeeps ==
  ASSUME RetireInv, Admit
  PROVE  RetireInv'
<1>1. Types
  BY DEF RetireInv
<1>2. JobsGrow
  <2>1. jobs' = jobs /\ patchset' = patchset
    BY DEF Admit, files
  <2>2. Len(jobs) \in Nat /\ jobs \in JobTable /\ patchset \in SUBSET Jobs
    BY <1>1, FileFacts, BoundsAssumption
  <2>. QED BY <2>1, <2>2 DEF JobsGrow
<1>3. scratch' \in BOOLEAN
  BY <1>1 DEF Types, FilesOK, Admit, files
<1>. QED BY <1>2, <1>3, GrowKeepsInv DEF Admit, files

LEMMA EnqueueKeeps ==
  ASSUME RetireInv, Enqueue
  PROVE  RetireInv'
<1>1. Types /\ Room
  BY DEF RetireInv
<1>2. JobsGrow
  <2>1. jobs \in JobTable /\ Len(jobs) < MaxJobs /\ jobs' = Append(jobs, "live")
        /\ patchset' = patchset \cup {Len(jobs) + 1} /\ patchset \in SUBSET Jobs
    BY <1>1 DEF Types, FilesOK, Room, Enqueue
  <2>2. Len(jobs) \in Nat /\ DOMAIN jobs = 1 .. Len(jobs)
    BY <1>1, FileFacts, BoundsAssumption
  <2>3. /\ jobs' \in JobTable /\ Len(jobs') = Len(jobs) + 1 /\ jobs'[Len(jobs) + 1] = "live"
        /\ \A j \in DOMAIN jobs : jobs'[j] = jobs[j]
    BY <2>1, TableAppended
  <2>4. DOMAIN jobs' = 1 .. Len(jobs) + 1
    BY <2>3, TableFacts
  <2>5. Len(jobs) + 1 \in Jobs /\ Len(jobs) + 1 \notin DOMAIN jobs /\ Len(jobs) <= Len(jobs')
    BY <2>1, <2>2, <2>3, BoundsAssumption DEF Jobs
  <2>6. \A j \in DOMAIN jobs' : j \notin DOMAIN jobs => jobs'[j] # "tombstoned"
    <3>1. \A j \in 1 .. Len(jobs) + 1 : j \notin 1 .. Len(jobs) => j = Len(jobs) + 1
      BY <2>2
    <3>. QED BY <3>1, <2>2, <2>3, <2>4
  <2>. QED BY <2>1, <2>3, <2>5, <2>6 DEF JobsGrow
<1>. QED BY <1>2, GrowKeepsInv DEF Enqueue

LEMMA FinishKeeps ==
  ASSUME RetireInv, NEW k \in Jobs, Finish(k)
  PROVE  RetireInv'
<1>1. Types /\ Room
  BY DEF RetireInv
<1>2. JobsGrow
  <2>1. jobs \in JobTable /\ k \in DOMAIN jobs /\ jobs[k] = "live" /\ jobs' = [jobs EXCEPT ![k] = "done"]
        /\ patchset' = patchset /\ patchset \in SUBSET Jobs
    BY <1>1 DEF Types, FilesOK, Room, Finish
  <2>2. Len(jobs) \in Nat /\ DOMAIN jobs = 1 .. Len(jobs)
    BY <1>1, FileFacts, BoundsAssumption
  <2>3. /\ jobs' \in JobTable /\ Len(jobs') = Len(jobs) /\ jobs'[k] = "done"
        /\ \A j \in DOMAIN jobs : j # k => jobs'[j] = jobs[j]
    BY <2>1, TableFinished
  <2>4. DOMAIN jobs' = DOMAIN jobs
    BY <2>1
  <2>. QED BY <2>1, <2>2, <2>3, <2>4 DEF JobsGrow
<1>3. Len(jobs') = Len(jobs) /\ enqueuer' = enqueuer
  BY <1>1, TableFinished DEF Types, FilesOK, Finish, client
<1>4. enqueuer' \in {"idle", "admitted"} /\ (enqueuer' = "admitted" => Len(jobs') < MaxJobs)
  BY <1>1, <1>3 DEF Types, Room
<1>5. scratch' \in BOOLEAN
  BY <1>1 DEF Types, FilesOK, Finish
<1>. QED BY <1>2, <1>4, <1>5, GrowKeepsInv DEF Finish, client

-----------------------------------------------------------------------------
(* The client's state at most forgets a request to enqueue and the cached  *)
(* manifest; that a lifecycle was misread is not forgotten.                *)
ClientStays ==
  /\ export' = export /\ cache' \in {cache, Absent} /\ (enqueuer' = "admitted" => enqueuer = "admitted")
  /\ misread' \in BOOLEAN /\ (misread => misread')

LEMMA ClientFacts ==
  ASSUME ClientStays
  PROVE  /\ Exported' = Exported /\ Kept' \subseteq Kept /\ export' = export
         /\ \A p : Holds(export', p) <=> Holds(export, p)
         /\ \A p : Holds(cache, p) => Holds(cache', p)
BY DEF ClientStays, Exported, Kept, Holds

(* Temporary files count for nothing.                                      *)
LEMMA RestKeeps ==
  ASSUME RetireInv, ClientStays, UNCHANGED <<lifecycle, patchset, jobs, image, journal>>,
         leftover' \in BOOLEAN, scratch' \in BOOLEAN
  PROVE  FilesInv'
<1>1. Types /\ Room /\ AtRest
  BY DEF RetireInv
<1>2. FilesOK'
  BY <1>1 DEF Types, FilesOK, ClientStays
<1>3. Room'
  BY <1>1, ClientFacts DEF Room, ClientStays
<1>4. /\ Whole(Now) => Whole(Now)'
      /\ Whole(image) => Whole(image)'
  BY ClientFacts DEF Whole, HasExported, Now
<1>5. Normalized => Normalized'
  BY ClientFacts DEF Normalized, Unlocated
<1>6. AtRest'
  BY <1>1, <1>4, <1>5 DEF AtRest, ClientStays
<1>. QED BY <1>2, <1>3, <1>6 DEF FilesInv

(* The invariant from what it says of the files and of the rest.           *)
LEMMA Assemble ==
  ASSUME FilesInv', AtStep', export' \in Content \cup {Absent}, cache' \in Content \cup {Absent},
         enqueuer' \in {"idle", "admitted"}, server' \in {"down", "starting", "up"},
         Ordered(todo'), handler' \in {"none", "outer"}, errors' \in 0 .. MaxErrors, crashes' \in 0 .. MaxCrashes
  PROVE  RetireInv'
<1>1. Types'
  BY DEF FilesInv, Types
<1>. QED BY <1>1 DEF RetireInv, FilesInv

LEMMA AtNothing ==
  ASSUME todo' = <<>>
  PROVE  AtStep' /\ Ordered(todo')
BY ShortOrdered DEF AtStep, At

-----------------------------------------------------------------------------
(* Requests and the start of the server leave the files alone.             *)

(* What is cached is what the files had when nothing was left of a purge.  *)
LEMMA LifecycleKeeps ==
  ASSUME RetireInv, Begin \/ Abort \/ Status
  PROVE  RetireInv'
<1>1. Types /\ Room /\ AtRest
  BY DEF RetireInv
<1>2. /\ Free /\ lifecycle \in {"active", "retiring"} /\ lifecycle' \in {"active", "retiring"}
      /\ cache' \in {Absent, cache, Manifest}
      /\ (errors' = errors \/ (errors < MaxErrors /\ errors' = errors + 1))
      /\ UNCHANGED <<files, export, enqueuer, server, todo, handler, misread, crashes>>
  BY DEF Begin, Abort, Status, Becomes, Error
<1>3. UNCHANGED <<patchset, jobs, image, journal, leftover, scratch>>
  BY <1>2 DEF files
<1>4. todo' = <<>>
  BY <1>2 DEF Free
<1>5. cache' \in {cache, Absent} \/ (cache' = Now /\ ~journal)
  BY <1>2 DEF Manifest, Clean
<1>6. FilesOK'
  BY <1>1, <1>2, <1>3 DEF Types, FilesOK, Lifecycles
<1>7. Room' /\ AtRest' /\ cache' \in Content \cup {Absent}
  <2>1. CASE cache' \in {cache, Absent}
    <3>1. ClientStays
      BY <1>1, <1>2, <2>1 DEF ClientStays, Types, FilesOK
    <3>2. Room'
      BY <1>1, <1>2, <1>3, <3>1, ClientFacts DEF Room
    <3>3. /\ Whole(Now) => Whole(Now)'
          /\ Whole(image) => Whole(image)'
      BY <1>3, <3>1, ClientFacts DEF Whole, HasExported, Now
    <3>4. AtRest'
      BY <1>1, <1>2, <1>3, <3>3 DEF AtRest
    <3>. QED BY <1>1, <2>1, <3>2, <3>4 DEF Types
  <2>2. CASE cache' = Now /\ ~journal
    <3>1. Whole(Now)
      BY <1>1, <1>2, <2>2 DEF AtRest
    <3>2. Now \in Content /\ Now # Absent /\ Now.patchset = patchset /\ Now.jobs = jobs
      BY <1>1, FileFacts
    <3>3. Exported' = Exported /\ Kept' = Exported \cup DOMAIN jobs
      BY <1>2, <2>2, <3>2 DEF Exported, Kept
    <3>4. Exported \subseteq DOMAIN jobs
      BY <1>1 DEF Room, Kept
    <3>5. Room'
      BY <1>1, <1>2, <1>3, <3>3, <3>4 DEF Room
    <3>6. Holds(export', patchset) /\ Holds(cache', patchset)
      BY <1>2, <2>2, <3>1, <3>2 DEF Holds, Whole, HasExported
    <3>7. Whole(Now)'
      BY <1>3, <3>1, <3>2, <3>3, <3>4, <3>6 DEF Whole, HasExported, Now
    <3>8. AtRest'
      BY <1>2, <1>3, <2>2, <3>7 DEF AtRest
    <3>. QED BY <2>2, <3>2, <3>5, <3>8
  <2>. QED BY <1>5, <2>1, <2>2
<1>8. FilesInv' /\ AtStep' /\ Ordered(todo')
  BY <1>4, <1>6, <1>7, AtNothing DEF FilesInv
<1>9. errors' \in 0 .. MaxErrors
  BY <1>1, <1>2, BoundsAssumption DEF Types
<1>. QED BY <1>1, <1>2, <1>7, <1>8, <1>9, Assemble DEF Types

(* A manifest that is cached is kept by the images of a purge that could   *)
(* not be undone.                                                          *)
LEMMA ExportKeeps ==
  ASSUME RetireInv, Export
  PROVE  RetireInv'
<1>1. Types /\ Room /\ AtRest
  BY DEF RetireInv
<1>2. /\ Free /\ lifecycle = "retiring" /\ cache' = Now /\ export' = Now
      /\ cache' = (IF cache = Absent THEN Manifest ELSE cache)
      /\ UNCHANGED <<lifecycle, files, enqueuer, server, todo, handler, misread, errors, crashes>>
  BY DEF Export
<1>3. UNCHANGED <<patchset, jobs, image, journal, leftover, scratch>>
  BY <1>2 DEF files
<1>4. todo' = <<>>
  BY <1>2 DEF Free
<1>5. Now \in Content /\ Now # Absent /\ Now.patchset = patchset /\ Now.jobs = jobs
  BY <1>1, FileFacts
<1>6. Exported' = DOMAIN jobs /\ Kept' = DOMAIN jobs
  BY <1>2, <1>3, <1>5 DEF Exported, Kept
<1>7. journal => cache = Now
  BY <1>2, <1>5 DEF Manifest, Clean
<1>8. FilesOK'
  BY <1>1, <1>2, <1>3 DEF Types, FilesOK
<1>9. Room'
  BY <1>1, <1>2, <1>3, <1>6 DEF Room
<1>10. ~journal => Whole(Now)'
  <2>1. ~journal => \A j \in DOMAIN jobs : jobs[j] # "tombstoned"
    BY <1>1, <1>2, <1>5 DEF AtRest, Whole
  <2>2. Holds(export', patchset) /\ Holds(cache', patchset)
    BY <1>2, <1>5 DEF Holds
  <2>. QED BY <1>3, <1>5, <1>6, <2>1, <2>2 DEF Whole, HasExported, Now
<1>11. journal => Whole(image)' /\ image.patchset # Absent /\ image.jobs # Absent
  <2> HAVE journal
  <2>1. Whole(image) /\ image.patchset # Absent /\ image.jobs # Absent /\ cache = Now
    BY <1>1, <1>7 DEF AtRest
  <2>2. Holds(Now, image.patchset) /\ Holds(export', image.patchset) /\ Holds(cache', image.patchset)
    BY <1>2, <2>1 DEF Whole, HasExported
  <2>3. DOMAIN jobs \subseteq DOMAIN image.jobs
    BY <1>5, <2>1 DEF Whole, Kept
  <2>. QED BY <1>3, <1>6, <2>1, <2>2, <2>3 DEF Whole, HasExported
<1>12. AtRest'
  BY <1>2, <1>3, <1>5, <1>10, <1>11 DEF AtRest
<1>13. FilesInv' /\ AtStep' /\ Ordered(todo')
  BY <1>4, <1>8, <1>9, <1>12, AtNothing DEF FilesInv
<1>. QED BY <1>1, <1>2, <1>5, <1>13, Assemble DEF Types

(* A recovery begins by undoing a purge that did not replace the           *)
(* lifecycle, as far as could be read, and with a sweep only when there is *)
(* no journal.                                                             *)
LEMMA RecoveryBegins ==
  ASSUME NEW l \in Lifecycles, NEW u, Continues(u), todo' = RecoverySteps(l) \o u,
         journal \in BOOLEAN, journal => l # "active",
         l = lifecycle' \/ (l = "retiring" /\ misread'), journal' = journal
  PROVE  Ordered(todo') /\ AtStep'
<1>1. /\ Ordered(todo') /\ todo' # <<>>
      /\ ~journal => Head(todo') = "sweep"
      /\ journal /\ l = "retiring" => Head(todo') = "restorePatchset"
      /\ journal /\ l # "retiring" => Head(todo') = "unpublish"
  BY RecoveryOrdered
<1>2. CASE ~journal
  BY <1>1, <1>2 DEF AtStep, At
<1>3. CASE journal /\ l = "retiring"
  <2>1. lifecycle' = "retiring" \/ misread'
    BY <1>3
  <2>. QED BY <1>1, <1>3, <2>1 DEF AtStep, At
<1>4. CASE journal /\ l # "retiring"
  <2>1. lifecycle' = "purged"
    BY <1>4 DEF Lifecycles
  <2>. QED BY <1>1, <1>4, <2>1 DEF AtStep, At
<1>. QED BY <1>1, <1>2, <1>3, <1>4

(* Nothing but what is left to do changes.                                 *)
LEMMA UntouchedKeeps ==
  ASSUME RetireInv, UNCHANGED <<lifecycle, files, client, crashes>>,
         misread' \in BOOLEAN, misread => misread', errors' \in 0 .. MaxErrors,
         server' \in {"down", "starting", "up"}, handler' \in {"none", "outer"},
         Ordered(todo'), AtStep'
  PROVE  RetireInv'
<1>1. UNCHANGED <<lifecycle, patchset, jobs, image, journal, leftover, scratch, export, cache, enqueuer>>
  BY DEF files, client
<1>2. Types
  BY DEF RetireInv
<1>3. ClientStays /\ leftover' \in BOOLEAN /\ scratch' \in BOOLEAN
  BY <1>1, <1>2 DEF ClientStays, Types, FilesOK
<1>4. FilesInv'
  BY <1>1, <1>3, RestKeeps
<1>. QED BY <1>1, <1>2, <1>4, Assemble DEF Types

LEMMA PurgeKeeps ==
  ASSUME RetireInv, Purge
  PROVE  RetireInv'
<1>1. Types
  BY DEF RetireInv
<1>2. /\ Free /\ export # Absent /\ handler' = "none"
      /\ UNCHANGED <<lifecycle, files, client, server, misread, errors, crashes>>
  BY DEF Purge
<1>3. lifecycle' = lifecycle /\ export' = export /\ journal' = journal
  BY <1>2 DEF files, client
<1>4. CASE lifecycle = "retiring" /\ todo' = <<"check">>
  <2>1. todo' # <<>> /\ Head(todo') = "check" /\ Ordered(todo')
    BY <1>4, ShortOrdered
  <2>2. AtStep'
    BY <1>2, <1>3, <1>4, <2>1 DEF AtStep, At
  <2>. QED BY <1>1, <1>2, <2>1, <2>2, UntouchedKeeps DEF Types, FilesOK
<1>5. CASE lifecycle = "purged" /\ todo' = RecoverySteps("purged") \o <<"catalog">>
  <2>1. "purged" \in Lifecycles /\ journal \in BOOLEAN /\ Continues(<<"catalog">>)
    BY <1>1, ShortOrdered DEF Lifecycles, Types, FilesOK
  <2>2. Ordered(todo') /\ AtStep'
    BY <1>3, <1>5, <2>1, RecoveryBegins
  <2>. QED BY <1>1, <1>2, <2>2, UntouchedKeeps DEF Types, FilesOK
<1>. QED BY <1>4, <1>5 DEF Purge

LEMMA StartKeeps ==
  ASSUME RetireInv, Start
  PROVE  RetireInv'
<1>1. Types
  BY DEF RetireInv
<1>2. /\ server' = "starting" /\ handler' = "none"
      /\ UNCHANGED <<lifecycle, files, client, misread, errors, crashes>>
  BY DEF Start
<1>3. Ordered(todo') /\ AtStep'
  <2>1. CASE todo' = <<>>
    BY <2>1, AtNothing
  <2>2. CASE todo' = <<"recover", "open", "recoverJobs">>
    <3>1. todo' # <<>> /\ Head(todo') = "recover" /\ Ordered(todo')
      BY <2>2, ShortOrdered
    <3>2. AtStep'
      BY <3>1 DEF AtStep, At
    <3>. QED BY <3>1, <3>2
  <2>. QED BY <2>1, <2>2 DEF Start
<1>. QED BY <1>1, <1>2, <1>3, UntouchedKeeps DEF Types, FilesOK

LEMMA RecoverKeeps ==
  ASSUME RetireInv, Recover
  PROVE  RetireInv'
<1>1. Types
  BY DEF RetireInv
<1>2. At("recover") /\ UNCHANGED <<lifecycle, files, client, handler, misread, errors, crashes>>
  BY DEF Recover
<1>3. lifecycle' = lifecycle /\ journal' = journal /\ lifecycle \in Lifecycles /\ journal \in BOOLEAN
  BY <1>1, <1>2 DEF files, Types, FilesOK
<1>4. CASE Recoverable(lifecycle) /\ todo' = RecoverySteps(lifecycle) \o Tail(todo) /\ server' = server
  <2>1. Continues(Tail(todo))
    <3>1. /\ Ordered(Tail(todo))
          /\ Tail(todo) # <<>> =>
               Precedes("recover", Head(Tail(todo))) \/ "recover" = "sweep"
      BY <1>1, <1>2, OrderedTail DEF At, Types
    <3>2. Tail(todo) # <<>> => Head(Tail(todo)) = "open"
      BY <3>1 DEF Precedes
    <3>3. Tail(todo) # <<>> => Tail(todo)[1] = Head(Tail(todo))
      BY <3>1 DEF Ordered
    <3>. QED BY <3>1, <3>2, <3>3 DEF Continues
  <2>2. journal => lifecycle # "active"
    BY <1>4 DEF Recoverable
  <2>3. Ordered(todo') /\ AtStep'
    BY <1>3, <1>4, <2>1, <2>2, RecoveryBegins
  <2>. QED BY <1>1, <1>2, <1>4, <2>3, UntouchedKeeps DEF Types, FilesOK
<1>5. CASE Refused
  BY <1>1, <1>2, <1>5, AtNothing, UntouchedKeeps DEF Refused, Types, FilesOK
<1>. QED BY <1>4, <1>5 DEF Recover

(* Opening locates every job that counts, and only those.                  *)
LEMMA OpenKeeps ==
  ASSUME RetireInv, Open
  PROVE  RetireInv'
<1>1. Types /\ Room
  BY DEF RetireInv
<1>2. At("open") /\ UNCHANGED <<lifecycle, jobs, image, journal, leftover, scratch, client, handler, misread,
                                errors, crashes>>
  BY DEF Open
<1>3. CASE Openable /\ patchset' = Located /\ todo' = Tail(todo) /\ server' = server
  <2>1. Len(jobs) \in 0 .. MaxJobs /\ DOMAIN jobs = 1 .. Len(jobs) /\ jobs \in JobTable
    BY <1>1, FileFacts
  <2>2. Located \in SUBSET Jobs /\ patchset \subseteq Located
    BY <1>3, <2>1, BoundsAssumption DEF Located, Jobs, Openable
  <2>3. JobsGrow
    BY <1>2, <1>3, <2>1, <2>2 DEF JobsGrow, Located
  <2>4. /\ enqueuer' \in {"idle", "admitted"} /\ (enqueuer' = "admitted" => Len(jobs') < MaxJobs)
        /\ scratch' \in BOOLEAN
    BY <1>1, <1>2 DEF Types, FilesOK, Room, client
  <2>5. FilesInv'
    BY <1>2, <2>3, <2>4, GrowKeepsInv DEF client
  <2>6. /\ Ordered(todo')
        /\ todo' # <<>> => Precedes("open", Head(todo')) \/ "open" = "sweep"
    BY <1>1, <1>2, <1>3, OrderedTail DEF At, Types
  <2>7. todo' # <<>> => Head(todo') = "recoverJobs"
    BY <2>6 DEF Precedes
  <2>8. AtStep'
    BY <2>7 DEF AtStep, At
  <2>. QED BY <1>1, <1>2, <1>3, <2>4, <2>5, <2>6, <2>8, Assemble DEF Types, client
<1>4. CASE Refused /\ UNCHANGED patchset
  <2>1. UNCHANGED files
    BY <1>2, <1>4 DEF files
  <2>. QED BY <1>1, <1>2, <1>4, <2>1, AtNothing, UntouchedKeeps DEF Refused, Types, FilesOK
<1>. QED BY <1>3, <1>4 DEF Open

LEMMA ServeKeeps ==
  ASSUME RetireInv, Serve
  PROVE  RetireInv'
<1>1. Types
  BY DEF RetireInv
<1>2. /\ server' = "up" /\ todo' = <<>>
      /\ UNCHANGED <<lifecycle, files, client, handler, misread, errors, crashes>>
  BY DEF Serve
<1>. QED BY <1>1, <1>2, AtNothing, UntouchedKeeps DEF Types, FilesOK

LEMMA CheckKeeps ==
  ASSUME RetireInv, Check
  PROVE  RetireInv'
<1>1. Types /\ AtStep
  BY DEF RetireInv
<1>2. At("check") /\ UNCHANGED <<lifecycle, files, client, server, handler, misread, errors, crashes>>
  BY DEF Check
<1>3. lifecycle' = lifecycle /\ journal' = journal /\ export' = export
  BY <1>2 DEF files, client
<1>4. Ordered(todo') /\ AtStep'
  <2>1. CASE todo' = <<>>
    BY <2>1, AtNothing
  <2>2. CASE todo' = PurgeSteps /\ Accepts
    <3>1. lifecycle = "retiring" /\ ~journal /\ export # Absent
      BY <1>1, <1>2, <2>2 DEF AtStep, Accepts, Clean
    <3>2. Ordered(todo') /\ todo' # <<>> /\ Head(todo') = "copyPatchset"
      BY <2>2, PurgeOrdered
    <3>3. AtStep'
      BY <1>3, <3>1, <3>2 DEF AtStep, At
    <3>. QED BY <3>2, <3>3
  <2>. QED BY <2>1, <2>2 DEF Check
<1>. QED BY <1>1, <1>2, <1>4, UntouchedKeeps DEF Types, FilesOK

LEMMA RereadKeeps ==
  ASSUME RetireInv, Reread
  PROVE  RetireInv'
<1>1. Types
  BY DEF RetireInv
<1>2. At("reread") /\ handler' = "none" /\ UNCHANGED <<lifecycle, files, client, server, crashes>>
  BY DEF Reread
<1>3. /\ lifecycle' = lifecycle /\ journal' = journal /\ journal \in BOOLEAN /\ misread \in BOOLEAN
      /\ lifecycle \in Lifecycles /\ errors \in 0 .. MaxErrors
  BY <1>1, <1>2 DEF files, Types, FilesOK
<1>4. PICK l \in {lifecycle, IF errors < MaxErrors THEN "retiring" ELSE lifecycle} :
        /\ todo' = IF Recoverable(l) THEN RecoverySteps(l) \o UndoneJobs(l) ELSE <<>>
        /\ errors' = IF l = lifecycle THEN errors ELSE errors + 1
        /\ misread' = (misread \/ l # lifecycle)
  BY DEF Reread
<1>5. /\ l \in Lifecycles /\ (l = lifecycle' \/ (l = "retiring" /\ misread')) 
      /\ misread' \in BOOLEAN /\ (misread => misread')
  BY <1>3, <1>4 DEF Lifecycles
<1>6. errors' \in 0 .. MaxErrors
  BY <1>3, <1>4, BoundsAssumption
<1>7. Ordered(todo') /\ AtStep'
  <2>1. CASE Recoverable(l)
    <3>1. Continues(UndoneJobs(l))
      BY ShortOrdered DEF UndoneJobs
    <3>2. journal => l # "active"
      BY <2>1 DEF Recoverable
    <3>3. todo' = RecoverySteps(l) \o UndoneJobs(l)
      BY <1>4, <2>1
    <3>. QED BY <1>3, <1>5, <3>1, <3>2, <3>3, RecoveryBegins
  <2>2. CASE ~Recoverable(l)
    <3>1. todo' = <<>>
      BY <1>4, <2>2
    <3>. QED BY <3>1, AtNothing
  <2>. QED BY <2>1, <2>2
<1>. QED BY <1>1, <1>2, <1>5, <1>6, <1>7, UntouchedKeeps DEF Types

LEMMA StopKeeps ==
  ASSUME RetireInv, Stop
  PROVE  RetireInv'
<1>1. Types
  BY DEF RetireInv
<1>2. /\ todo' = <<>> /\ server' = "down" /\ cache' = Absent
      /\ UNCHANGED <<lifecycle, patchset, jobs, image, journal, leftover, scratch, export, enqueuer,
                     handler, misread, errors, crashes>>
  BY DEF Stop, Free, files
<1>3. ClientStays /\ leftover' \in BOOLEAN /\ scratch' \in BOOLEAN
  BY <1>1, <1>2 DEF ClientStays, Types, FilesOK
<1>4. FilesInv' /\ AtStep' /\ Ordered(todo')
  BY <1>2, <1>3, RestKeeps, AtNothing
<1>. QED BY <1>1, <1>2, <1>4, Assemble DEF Types

-----------------------------------------------------------------------------
(* What each step leaves in the files, and what holds at the next one.     *)
LEMMA CopyKeeps ==
  ASSUME RetireInv, ClientStays, NEW step \in {"copyPatchset", "copyJobs"}, At(step), Copy(step)
  PROVE  /\ FilesInv' /\ lifecycle' = "retiring" /\ ~journal' /\ export' # Absent
         /\ image.patchset' # Absent /\ HasExported(image.patchset)'
         /\ step = "copyJobs" => image.jobs' # Absent /\ Whole(image)'
<1>1. Types /\ Room /\ AtRest /\ AtStep
  BY DEF RetireInv
<1>2. /\ lifecycle = "retiring" /\ ~journal /\ export # Absent
      /\ step = "copyJobs" => image.patchset # Absent /\ HasExported(image.patchset)
  BY <1>1 DEF AtStep
<1>3. /\ UNCHANGED <<lifecycle, patchset, jobs, journal, leftover, scratch>> /\ export' = export
      /\ step = "copyPatchset" => image' = [image EXCEPT !.patchset = patchset]
      /\ step = "copyJobs" => image' = [image EXCEPT !.jobs = jobs]
  BY DEF Copy, ClientStays
<1>4. /\ image \in [patchset : (SUBSET Jobs) \cup {Absent}, jobs : JobTable \cup {Absent}]
      /\ patchset \in SUBSET Jobs /\ jobs \in JobTable /\ Len(jobs) \in Nat
      /\ Now.patchset = patchset /\ Now.jobs = jobs
  BY <1>1, FileFacts, BoundsAssumption
<1>5. patchset # Absent /\ jobs # Absent
  BY <1>4, AbsentAssumption
<1>6. Whole(Now) /\ Whole(Now)'
  BY <1>1, <1>2, <1>3, ClientFacts DEF AtRest, Whole, HasExported, Now
<1>7. /\ image' \in [patchset : (SUBSET Jobs) \cup {Absent}, jobs : JobTable \cup {Absent}]
      /\ step = "copyPatchset" => image'.patchset = patchset /\ image'.jobs = image.jobs
      /\ step = "copyJobs" => image'.patchset = image.patchset /\ image'.jobs = jobs
  BY <1>3, <1>4
<1>8. FilesOK'
  BY <1>1, <1>3, <1>7 DEF Types, FilesOK, ClientStays
<1>9. Room'
  BY <1>1, <1>3, <1>4, <1>7, ClientFacts DEF Room, ClientStays
<1>10. AtRest'
  BY <1>2, <1>3, <1>6 DEF AtRest
<1>11. image.patchset' # Absent /\ HasExported(image.patchset)'
  <2>1. HasExported(patchset)
    BY <1>4, <1>6 DEF Whole
  <2>. QED BY <1>2, <1>5, <1>7, <2>1, ClientFacts DEF HasExported
<1>12. step = "copyJobs" => image.jobs' # Absent /\ Whole(image)'
  <2>1. Kept \subseteq DOMAIN jobs /\ \A j \in DOMAIN jobs : jobs[j] # "tombstoned"
    BY <1>4, <1>6 DEF Whole
  <2>. QED BY <1>5, <1>7, <1>11, <2>1, ClientFacts DEF Whole
<1>. QED BY <1>2, <1>3, <1>8, <1>9, <1>10, <1>11, <1>12 DEF FilesInv

LEMMA WriteTempKeeps ==
  ASSUME RetireInv, ClientStays, At("writeTemp"), WriteTemp
  PROVE  /\ FilesInv' /\ lifecycle' = "retiring" /\ ~journal' /\ export' # Absent
         /\ image.patchset' # Absent /\ HasExported(image.patchset)'
         /\ image.jobs' # Absent /\ Whole(image)'
<1>1. Types /\ AtStep
  BY DEF RetireInv
<1>2. /\ lifecycle = "retiring" /\ ~journal /\ export # Absent
      /\ image.patchset # Absent /\ HasExported(image.patchset) /\ image.jobs # Absent /\ Whole(image)
  BY <1>1 DEF AtStep
<1>3. UNCHANGED <<lifecycle, patchset, jobs, image, journal, scratch, export>> /\ leftover' = TRUE
  BY DEF WriteTemp, ClientStays
<1>4. FilesInv'
  BY <1>1, <1>3, RestKeeps DEF Types, FilesOK
<1>5. Whole(image)' /\ HasExported(image.patchset)'
  BY <1>2, <1>3, ClientFacts DEF Whole, HasExported
<1>. QED BY <1>2, <1>3, <1>4, <1>5

LEMMA PublishKeeps ==
  ASSUME RetireInv, ClientStays, At("publish"), Publish
  PROVE  FilesInv' /\ lifecycle' = "retiring" /\ journal'
<1>1. Types /\ Room /\ AtStep
  BY DEF RetireInv
<1>2. /\ lifecycle = "retiring" /\ ~journal /\ export # Absent
      /\ image.patchset # Absent /\ image.jobs # Absent /\ Whole(image)
  BY <1>1 DEF AtStep
<1>3. /\ UNCHANGED <<lifecycle, patchset, jobs, image, scratch, export>> /\ leftover' = FALSE
      /\ journal' = TRUE
  BY DEF Publish, ClientStays
<1>4. FilesOK'
  BY <1>1, <1>3 DEF Types, FilesOK, ClientStays
<1>5. Room'
  BY <1>1, <1>3, ClientFacts DEF Room, ClientStays
<1>6. Whole(image)'
  BY <1>2, <1>3, ClientFacts DEF Whole, HasExported
<1>7. AtRest'
  BY <1>2, <1>3, <1>6 DEF AtRest
<1>. QED BY <1>2, <1>3, <1>4, <1>5, <1>7 DEF FilesInv

LEMMA ClearKeeps ==
  ASSUME RetireInv, ClientStays, At("clear"), Clear
  PROVE  FilesInv' /\ lifecycle' = "retiring" /\ journal' /\ Unlocated'
<1>1. Types /\ Room /\ AtRest /\ AtStep
  BY DEF RetireInv
<1>2. lifecycle = "retiring" /\ journal
  BY <1>1 DEF AtStep
<1>3. UNCHANGED <<lifecycle, jobs, image, journal, leftover, scratch, export>> /\ patchset' = {}
  BY DEF Clear, ClientStays
<1>4. FilesOK'
  BY <1>1, <1>3 DEF Types, FilesOK, ClientStays
<1>5. Room'
  BY <1>1, <1>3, ClientFacts DEF Room, ClientStays
<1>6. Whole(image)'
  BY <1>1, <1>2, <1>3, ClientFacts DEF AtRest, Whole, HasExported
<1>7. AtRest'
  BY <1>1, <1>2, <1>3, <1>6 DEF AtRest
<1>. QED BY <1>2, <1>3, <1>4, <1>5, <1>7 DEF FilesInv, Unlocated

(* The temporary files of the job store do not matter here.                *)
LEMMA TombstoneKeeps ==
  ASSUME RetireInv, ClientStays, At("tombstone"),
         jobs' = Tombstoned, scratch' \in BOOLEAN, UNCHANGED <<lifecycle, patchset, image, journal, leftover>>
  PROVE  FilesInv' /\ lifecycle' = "retiring" /\ journal' /\ Normalized'
<1>1. Types /\ Room /\ AtRest /\ AtStep
  BY DEF RetireInv
<1>2. lifecycle = "retiring" /\ journal /\ Unlocated /\ export # Absent
  BY <1>1 DEF AtStep, AtRest
<1>3. UNCHANGED <<lifecycle, patchset, image, journal, leftover, export>> /\ jobs' = Tombstoned
  BY DEF ClientStays
<1>4. /\ jobs' \in JobTable /\ Len(jobs') = Len(jobs) /\ \A j \in DOMAIN jobs : jobs'[j] = "tombstoned"
      /\ DOMAIN jobs' = DOMAIN jobs
  BY <1>1, <1>3, FileFacts, TableTombstoned DEF Tombstoned
<1>5. FilesOK'
  BY <1>1, <1>3, <1>4 DEF Types, FilesOK, ClientStays
<1>6. Room'
  BY <1>1, <1>3, <1>4, ClientFacts DEF Room, ClientStays
<1>7. Whole(image)'
  BY <1>1, <1>2, <1>3, ClientFacts DEF AtRest, Whole, HasExported
<1>8. AtRest'
  BY <1>1, <1>2, <1>3, <1>7 DEF AtRest
<1>9. Exported \subseteq DOMAIN jobs
  BY <1>1 DEF Room, Kept
<1>10. Normalized'
  BY <1>2, <1>3, <1>4, <1>9, ClientFacts DEF Normalized, Unlocated
<1>. QED BY <1>2, <1>3, <1>5, <1>6, <1>8, <1>10 DEF FilesInv

LEMMA ReplaceRecordKeeps ==
  ASSUME RetireInv, ClientStays, At("replaceRecord"), ReplaceRecord
  PROVE  FilesInv' /\ lifecycle' = "purged"
<1>1. Types /\ Room /\ AtRest /\ AtStep
  BY DEF RetireInv
<1>2. Normalized /\ journal
  BY <1>1 DEF AtStep
<1>3. UNCHANGED <<patchset, jobs, image, journal, leftover, scratch, export>> /\ lifecycle' = "purged"
  BY DEF ReplaceRecord, ClientStays, files
<1>4. FilesOK'
  BY <1>1, <1>3 DEF Types, FilesOK, Lifecycles, ClientStays
<1>5. Room'
  BY <1>1, <1>3, ClientFacts DEF Room, ClientStays
<1>6. Normalized'
  BY <1>2, <1>3, ClientFacts DEF Normalized, Unlocated
<1>7. Whole(image)'
  BY <1>1, <1>2, <1>3, ClientFacts DEF AtRest, Whole, HasExported
<1>8. AtRest'
  BY <1>1, <1>2, <1>3, <1>6, <1>7 DEF AtRest
<1>. QED BY <1>3, <1>4, <1>5, <1>8 DEF FilesInv

LEMMA RestoreKeeps ==
  ASSUME RetireInv, ClientStays, NEW step \in {"restorePatchset", "restoreJobs"}, At(step), Restore(step)
  PROVE  /\ FilesInv' /\ journal' /\ (lifecycle' = "retiring" \/ misread') /\ HasExported(patchset)'
         /\ step = "restoreJobs" => Whole(Now)'
<1>1. Types /\ Room /\ AtRest /\ AtStep
  BY DEF RetireInv
<1>2. /\ lifecycle = "retiring" \/ misread
      /\ journal /\ export # Absent /\ image.patchset # Absent /\ image.jobs # Absent /\ Whole(image)
      /\ step = "restoreJobs" => HasExported(patchset)
  BY <1>1 DEF AtStep, AtRest
<1>3. /\ UNCHANGED <<lifecycle, image, journal, leftover, scratch, export>>
      /\ step = "restorePatchset" => patchset' = image.patchset /\ jobs' = jobs
      /\ step = "restoreJobs" => patchset' = patchset /\ jobs' = image.jobs
      /\ misread => misread'
  BY DEF Restore, ClientStays
<1>4. image.patchset \in SUBSET Jobs /\ image.jobs \in JobTable
  BY <1>1, <1>2, FileFacts
<1>5. FilesOK'
  BY <1>1, <1>3, <1>4 DEF Types, FilesOK, ClientStays
<1>6. /\ Len(jobs) \in Nat /\ Len(image.jobs) \in Nat /\ Len(image.jobs) <= Len(jobs)
      /\ Kept \subseteq DOMAIN image.jobs
  BY <1>1, <1>2, FileFacts, BoundsAssumption DEF Room, Whole
<1>7. Room'
  BY <1>1, <1>2, <1>3, <1>6, ClientFacts, BoundsAssumption DEF Room, ClientStays
<1>8. Whole(image)'
  BY <1>2, <1>3, ClientFacts DEF Whole, HasExported
<1>9. AtRest'
  <2>1. lifecycle' = "purged" => misread'
    BY <1>2, <1>3
  <2>. QED BY <1>2, <1>3, <1>8, <2>1 DEF AtRest
<1>10. HasExported(patchset)'
  BY <1>2, <1>3, ClientFacts DEF HasExported, Whole
<1>11. step = "restoreJobs" => Whole(Now)'
  BY <1>2, <1>3, <1>6, <1>10, ClientFacts DEF Whole, Now
<1>. QED BY <1>2, <1>3, <1>5, <1>7, <1>9, <1>10, <1>11 DEF FilesInv

LEMMA UnpublishKeeps ==
  ASSUME RetireInv, ClientStays, At("unpublish"), Unpublish
  PROVE  FilesInv' /\ ~journal'
<1>1. Types /\ Room /\ AtRest /\ AtStep
  BY DEF RetireInv
<1>2. lifecycle # "purged" => Whole(Now)
  BY <1>1 DEF AtStep
<1>3. UNCHANGED <<lifecycle, patchset, jobs, image, leftover, scratch, export>> /\ journal' = FALSE
  BY DEF Unpublish, ClientStays
<1>4. FilesOK'
  BY <1>1, <1>3 DEF Types, FilesOK, ClientStays
<1>5. Room'
  BY <1>1, <1>3, ClientFacts DEF Room, ClientStays
<1>6. /\ Whole(Now) => Whole(Now)'
      /\ Normalized => Normalized'
  BY <1>3, ClientFacts DEF Whole, HasExported, Now, Normalized, Unlocated
<1>7. AtRest'
  BY <1>1, <1>2, <1>3, <1>6 DEF AtRest, ClientStays
<1>. QED BY <1>3, <1>4, <1>5, <1>7 DEF FilesInv

LEMMA SweepKeeps ==
  ASSUME RetireInv, ClientStays, At("sweep"), Sweep
  PROVE  FilesInv' /\ ~journal'
<1>1. Types /\ Room /\ AtRest /\ AtStep
  BY DEF RetireInv
<1>2. ~journal
  BY <1>1 DEF AtStep
<1>3. /\ UNCHANGED <<lifecycle, patchset, jobs, journal, scratch, export>> /\ leftover' = FALSE
      /\ image' = NoImage
  BY DEF Sweep, ClientStays
<1>4. /\ image' \in [patchset : (SUBSET Jobs) \cup {Absent}, jobs : JobTable \cup {Absent}]
      /\ image'.jobs = Absent
  BY <1>3 DEF NoImage
<1>5. FilesOK'
  BY <1>1, <1>3, <1>4 DEF Types, FilesOK, ClientStays
<1>6. Room'
  BY <1>1, <1>3, <1>4, ClientFacts DEF Room, ClientStays
<1>7. /\ Whole(Now) => Whole(Now)'
      /\ Normalized => Normalized'
  BY <1>3, ClientFacts DEF Whole, HasExported, Now, Normalized, Unlocated
<1>8. AtRest'
  BY <1>1, <1>2, <1>3, <1>7 DEF AtRest, ClientStays
<1>. QED BY <1>2, <1>3, <1>5, <1>6, <1>8 DEF FilesInv

(* Steps that leave the files alone, or only touch temporary files.        *)
LEMMA ScratchKeeps ==
  ASSUME RetireInv, ClientStays, UNCHANGED <<lifecycle, patchset, jobs, image, journal>>,
         leftover' \in {leftover, TRUE}, scratch' \in {scratch, TRUE, FALSE}
  PROVE  FilesInv'
BY RestKeeps DEF RetireInv, Types, FilesOK

LEMMA EffectKeeps ==
  ASSUME RetireInv, ClientStays, NEW step, At(step), Effect(step)
  PROVE  FilesInv'
<1>1. CASE step \in {"copyPatchset", "copyJobs"} /\ Copy(step)
  BY <1>1, CopyKeeps
<1>2. CASE step = "writeTemp" /\ WriteTemp
  BY <1>2, WriteTempKeeps
<1>3. CASE step = "publish" /\ Publish
  BY <1>3, PublishKeeps
<1>4. CASE step = "clear" /\ Clear
  BY <1>4, ClearKeeps
<1>5. CASE step = "tombstone" /\ Tombstone
  BY <1>5, TombstoneKeeps DEF Tombstone
<1>6. CASE step = "replaceRecord" /\ ReplaceRecord
  BY <1>6, ReplaceRecordKeeps
<1>7. CASE step \in {"restorePatchset", "restoreJobs"} /\ Restore(step)
  BY <1>7, RestoreKeeps
<1>8. CASE step = "unpublish" /\ Unpublish
  BY <1>8, UnpublishKeeps
<1>9. CASE step = "sweep" /\ Sweep
  BY <1>9, SweepKeeps
<1>10. CASE step = "recoverJobs" /\ RecoverJobs
  BY <1>10, ScratchKeeps DEF RecoverJobs
<1>11. CASE UNCHANGED <<lifecycle, files>>
  BY <1>11, ScratchKeeps DEF files
<1>. QED BY <1>1, <1>2, <1>3, <1>4, <1>5, <1>6, <1>7, <1>8, <1>9, <1>10, <1>11 DEF Effect

LEMMA PartlyKeeps ==
  ASSUME RetireInv, ClientStays, NEW step, At(step), Partly(step)
  PROVE  FilesInv'
<1>1. CASE UNCHANGED <<lifecycle, files>>
  BY <1>1, ScratchKeeps DEF files
<1>2. CASE Effect(step)
  BY <1>2, EffectKeeps
<1>3. CASE leftover' = TRUE /\ UNCHANGED <<lifecycle, patchset, jobs, image, journal, scratch>>
  BY <1>3, ScratchKeeps
<1>4. CASE /\ step \in {"tombstone", "recoverJobs"}
           /\ jobs' \in {jobs, IF step = "tombstone" THEN Tombstoned ELSE jobs}
           /\ scratch' = TRUE
           /\ UNCHANGED <<lifecycle, patchset, image, journal, leftover>>
  <2>1. CASE jobs' = jobs
    BY <1>4, <2>1, ScratchKeeps
  <2>2. CASE step = "tombstone" /\ jobs' = Tombstoned
    BY <1>4, <2>2, TombstoneKeeps
  <2>. QED BY <1>4, <2>1, <2>2
<1>. QED BY <1>1, <1>2, <1>3, <1>4 DEF Partly

-----------------------------------------------------------------------------
(* What holds at a step is what the one before it left.                    *)
LEMMA StepAtStep ==
  ASSUME RetireInv, ClientStays, NEW step \in FileSteps, At(step), Effect(step), todo' = Tail(todo)
  PROVE  AtStep'
<1>1. Types /\ AtStep
  BY DEF RetireInv
<1>2. todo' # <<>> =>
        \/ Precedes(step, Head(todo'))
        \/ step = "sweep" /\ Head(todo') = "catalog" /\ Tail(todo') = <<>>
  BY <1>1, OrderedTail DEF At, Types
<1> SUFFICES ASSUME todo' # <<>> PROVE AtStep'
  BY AtNothing
<1>3. CASE step = "copyPatchset"
  <2>1. Head(todo') = "copyJobs"
    BY <1>2, <1>3 DEF Precedes
  <2>2. Copy(step)
    BY <1>3 DEF Effect
  <2>3. /\ lifecycle' = "retiring" /\ ~journal' /\ export' # Absent
        /\ image.patchset' # Absent /\ HasExported(image.patchset)'
    BY <1>3, <2>2, CopyKeeps
  <2>. QED BY <2>1, <2>3 DEF AtStep, At
<1>4. CASE step = "copyJobs"
  <2>1. Head(todo') = "writeTemp"
    BY <1>2, <1>4 DEF Precedes
  <2>2. Copy(step)
    BY <1>4 DEF Effect
  <2>3. /\ lifecycle' = "retiring" /\ ~journal' /\ export' # Absent
        /\ image.patchset' # Absent /\ HasExported(image.patchset)'
        /\ image.jobs' # Absent /\ Whole(image)'
    BY <1>4, <2>2, CopyKeeps
  <2>. QED BY <2>1, <2>3 DEF AtStep, At
<1>5. CASE step = "writeTemp"
  <2>1. Head(todo') = "publish"
    BY <1>2, <1>5 DEF Precedes
  <2>2. WriteTemp
    BY <1>5 DEF Effect
  <2>3. /\ lifecycle' = "retiring" /\ ~journal' /\ export' # Absent
        /\ image.patchset' # Absent /\ HasExported(image.patchset)'
        /\ image.jobs' # Absent /\ Whole(image)'
    BY <1>5, <2>2, WriteTempKeeps
  <2>. QED BY <2>1, <2>3 DEF AtStep, At
<1>6. CASE step = "publish"
  <2>1. Head(todo') = "clear"
    BY <1>2, <1>6 DEF Precedes
  <2>2. Publish
    BY <1>6 DEF Effect
  <2>3. lifecycle' = "retiring" /\ journal'
    BY <1>6, <2>2, PublishKeeps
  <2>. QED BY <2>1, <2>3 DEF AtStep, At
<1>7. CASE step = "clear"
  <2>1. Head(todo') = "tombstone"
    BY <1>2, <1>7 DEF Precedes
  <2>2. Clear
    BY <1>7 DEF Effect
  <2>3. lifecycle' = "retiring" /\ journal' /\ Unlocated'
    BY <1>7, <2>2, ClearKeeps
  <2>. QED BY <2>1, <2>3 DEF AtStep, At
<1>8. CASE step = "tombstone"
  <2>1. Head(todo') = "replaceRecord"
    BY <1>2, <1>8 DEF Precedes
  <2>2. Tombstone
    BY <1>8 DEF Effect
  <2>3. lifecycle' = "retiring" /\ journal' /\ Normalized'
    BY <1>8, <2>2, TombstoneKeeps DEF Tombstone
  <2>. QED BY <2>1, <2>3 DEF AtStep, At
<1>9. CASE step = "replaceRecord"
  <2>1. Head(todo') = "rebuildIndex"
    BY <1>2, <1>9 DEF Precedes
  <2>2. lifecycle' = "purged"
    BY <1>9 DEF Effect, ReplaceRecord
  <2>. QED BY <2>1, <2>2 DEF AtStep, At
<1>10. CASE step = "rebuildIndex"
  <2>1. Head(todo') = "catalog"
    BY <1>2, <1>10 DEF Precedes
  <2>2. lifecycle = "purged" /\ lifecycle' = lifecycle
    BY <1>1, <1>10 DEF AtStep, Effect
  <2>. QED BY <2>1, <2>2 DEF AtStep, At
<1>11. CASE step = "catalog"
  <2>1. Head(todo') = "unpublish"
    BY <1>2, <1>11 DEF Precedes
  <2>2. lifecycle = "purged" /\ lifecycle' = lifecycle
    BY <1>1, <1>11 DEF AtStep, Effect
  <2>. QED BY <2>1, <2>2 DEF AtStep, At
<1>12. CASE step = "restorePatchset"
  <2>1. Head(todo') = "restoreJobs"
    BY <1>2, <1>12 DEF Precedes
  <2>2. Restore(step)
    BY <1>12 DEF Effect
  <2>3. journal' /\ (lifecycle' = "retiring" \/ misread') /\ HasExported(patchset)'
    BY <1>12, <2>2, RestoreKeeps
  <2>. QED BY <2>1, <2>3 DEF AtStep, At
<1>13. CASE step = "restoreJobs"
  <2>1. Head(todo') = "unpublish"
    BY <1>2, <1>13 DEF Precedes
  <2>2. Restore(step)
    BY <1>13 DEF Effect
  <2>3. Whole(Now)'
    BY <1>13, <2>2, RestoreKeeps
  <2>. QED BY <2>1, <2>3 DEF AtStep, At
<1>14. CASE step = "unpublish"
  <2>1. Head(todo') = "sweep"
    BY <1>2, <1>14 DEF Precedes
  <2>2. ~journal'
    BY <1>14 DEF Effect, Unpublish
  <2>. QED BY <2>1, <2>2 DEF AtStep, At
<1>15. CASE step = "sweep"
  <2>1. Head(todo') \in {"open", "recoverJobs"} \/ (Head(todo') = "catalog" /\ Tail(todo') = <<>>)
    BY <1>2, <1>15 DEF Precedes
  <2>. QED BY <2>1 DEF AtStep, At
<1>16. CASE step = "recoverJobs"
  <2>1. Head(todo') = "reread"
    BY <1>2, <1>16 DEF Precedes
  <2>. QED BY <2>1 DEF AtStep, At
<1>. QED BY <1>3, <1>4, <1>5, <1>6, <1>7, <1>8, <1>9, <1>10, <1>11, <1>12, <1>13, <1>14, <1>15, <1>16
     DEF FileSteps, Steps

LEMMA StepKeeps ==
  ASSUME RetireInv, NEW step \in FileSteps, Step(step)
  PROVE  RetireInv'
<1>1. Types
  BY DEF RetireInv
<1>2. /\ At(step) /\ Effect(step) /\ todo' = Tail(todo)
      /\ UNCHANGED <<export, cache, enqueuer, server, handler, misread, errors, crashes>>
  BY DEF Step, client
<1>3. ClientStays
  BY <1>1, <1>2 DEF ClientStays, Types, FilesOK
<1>4. FilesInv' /\ AtStep'
  BY <1>2, <1>3, EffectKeeps, StepAtStep
<1>5. Ordered(todo')
  BY <1>1, <1>2, OrderedTail DEF Types, At
<1>. QED BY <1>1, <1>2, <1>4, <1>5, Assemble DEF Types

(* A purge whose files began to change is undone at once, and in any case  *)
(* by the lifecycle read again; a recovery that fails leaves what it did.  *)
LEMMA FailKeeps ==
  ASSUME RetireInv, NEW step \in FileSteps, Fail(step)
  PROVE  RetireInv'
<1>1. Types /\ AtStep
  BY DEF RetireInv
<1>2. /\ At(step) /\ errors < MaxErrors /\ errors' = errors + 1 /\ Partly(step) /\ Failed(step)
      /\ server' = (IF server = "starting" THEN "down" ELSE server)
      /\ UNCHANGED <<export, cache, enqueuer, misread, crashes>>
  BY DEF Fail, Error, client
<1>3. ClientStays
  BY <1>1, <1>2 DEF ClientStays, Types, FilesOK
<1>4. FilesInv'
  BY <1>2, <1>3, PartlyKeeps
<1>5. errors' \in 0 .. MaxErrors /\ server' \in {"down", "starting", "up"}
  BY <1>1, <1>2, BoundsAssumption DEF Types
<1>6. Ordered(todo') /\ AtStep' /\ handler' \in {"none", "outer"}
  <2>1. CASE HandlerOf(step) = "inner"
    <3>1. step \in {"clear", "tombstone"}
      BY <1>1, <2>1 DEF HandlerOf, Types
    <3>2. lifecycle = "retiring" /\ journal
      BY <1>1, <1>2, <3>1 DEF AtStep
    <3>3. lifecycle' = "retiring" /\ journal' = journal
      BY <1>2, <3>1, <3>2 DEF Partly, Effect, Clear, Tombstone, files
    <3>4. todo' = RecoverySteps("retiring") \o <<"recoverJobs", "reread">> /\ handler' = "outer"
      BY <1>2, <2>1 DEF Failed
    <3>5. "retiring" \in Lifecycles /\ Continues(<<"recoverJobs", "reread">>) /\ journal \in BOOLEAN
      BY <1>1, ShortOrdered DEF Lifecycles, Types, FilesOK
    <3>6. Ordered(todo') /\ AtStep'
      BY <3>2, <3>3, <3>4, <3>5, RecoveryBegins
    <3>. QED BY <3>4, <3>6
  <2>2. CASE HandlerOf(step) = "outer"
    <3>1. todo' = <<"reread">> /\ handler' = "none"
      BY <1>2, <2>2 DEF Failed
    <3>2. todo' # <<>> /\ Head(todo') = "reread" /\ Ordered(todo')
      BY <3>1, ShortOrdered
    <3>3. AtStep'
      BY <3>2 DEF AtStep, At
    <3>. QED BY <3>1, <3>2, <3>3
  <2>3. CASE HandlerOf(step) = "none"
    <3>1. todo' = <<>> /\ handler' = "none"
      BY <1>2, <2>3 DEF Failed
    <3>. QED BY <3>1, AtNothing
  <2>. QED BY <1>1, <2>1, <2>2, <2>3 DEF HandlerOf, Types
<1>. QED BY <1>1, <1>2, <1>4, <1>5, <1>6, Assemble DEF Types

LEMMA CrashKeeps ==
  ASSUME RetireInv, Crash
  PROVE  RetireInv'
<1>1. Types
  BY DEF RetireInv
<1>2. /\ crashes < MaxCrashes /\ crashes' = crashes + 1 /\ server' = "down" /\ todo' = <<>>
      /\ handler' = "none" /\ cache' = Absent /\ enqueuer' = "idle" /\ export' = export
      /\ errors' = errors /\ misread' = misread
  BY DEF Crash
<1>3. ClientStays
  BY <1>1, <1>2 DEF ClientStays, Types, FilesOK
<1>4. FilesInv'
  <2>1. CASE UNCHANGED <<lifecycle, files>>
    BY <1>3, <2>1, ScratchKeeps DEF files
  <2>2. CASE todo # <<>> /\ Partly(Head(todo))
    <3>1. PICK step : step = Head(todo)
      OBVIOUS
    <3>2. At(step) /\ Partly(step)
      BY <2>2, <3>1 DEF At
    <3>. QED BY <1>3, <3>2, PartlyKeeps
  <2>. QED BY <2>1, <2>2 DEF Crash
<1>5. AtStep' /\ Ordered(todo')
  BY <1>2, AtNothing
<1>6. crashes' \in 0 .. MaxCrashes
  BY <1>1, <1>2, BoundsAssumption DEF Types
<1>. QED BY <1>1, <1>2, <1>4, <1>5, <1>6, Assemble DEF Types

-----------------------------------------------------------------------------
LEMMA InitRetires == Init => RetireInv
<1> SUFFICES ASSUME Init PROVE RetireInv
  OBVIOUS
<1>1. jobs = <<>> /\ jobs \in JobTable /\ Len(jobs) = 0
  <2>1. jobs = <<>> /\ jobs \in Seq({"live", "done", "tombstoned"}) /\ Len(jobs) = 0
    BY DEF Init
  <2>2. Len(jobs) <= MaxJobs
    BY <2>1, BoundsAssumption
  <2>. QED BY <2>1, <2>2, JobTableIs, Zenon
<1>2. image.jobs = Absent /\ image.patchset = Absent
      /\ image \in [patchset : (SUBSET Jobs) \cup {Absent}, jobs : JobTable \cup {Absent}]
  BY DEF Init, NoImage
<1>3. errors \in 0 .. MaxErrors /\ crashes \in 0 .. MaxCrashes
  BY BoundsAssumption DEF Init
<1>4. Ordered(todo)
  BY ShortOrdered DEF Init
<1>5. Types
  BY <1>1, <1>2, <1>3, <1>4 DEF Init, Types, FilesOK, Lifecycles
<1>6. Exported = {} /\ Kept = {}
  BY DEF Init, Exported, Kept
<1>7. Room
  BY <1>2, <1>6 DEF Init, Room
<1>8. AtRest
  BY <1>1, <1>6 DEF Init, AtRest, Whole, HasExported, Holds, Now
<1>9. AtStep
  BY DEF Init, AtStep, At
<1>. QED BY <1>5, <1>7, <1>8, <1>9 DEF RetireInv

LEMMA StutterRetires ==
  ASSUME RetireInv, UNCHANGED vars
  PROVE  RetireInv'
<1>1. UNCHANGED <<lifecycle, patchset, jobs, image, journal, leftover, scratch, export, cache, enqueuer,
                  server, todo, handler, misread, errors, crashes>>
  BY DEF vars, files, client
<1>2. Types
  BY DEF RetireInv
<1>3. AtStep'
  BY <1>1 DEF RetireInv, AtStep, At, Unlocated, Normalized, Whole, HasExported, Holds, Exported, Kept, Now
<1>4. ClientStays /\ leftover' \in BOOLEAN /\ scratch' \in BOOLEAN
  BY <1>1, <1>2 DEF ClientStays, Types, FilesOK
<1>5. FilesInv'
  BY <1>1, <1>4, RestKeeps
<1>. QED BY <1>1, <1>2, <1>3, <1>5, Assemble DEF Types

(* With any number of I/O errors, crashes and restarts, at every step of a *)
(* purge and of its recovery, the files, the journal and the lifecycle     *)
(* stay in step with the work that is left.                                *)
THEOREM PurgeAndRecovery == Spec => []RetireInv
<1>1. RetireInv /\ [Next]_vars => RetireInv'
  <2> SUFFICES ASSUME RetireInv, [Next]_vars PROVE RetireInv'
    OBVIOUS
  <2>1. CASE Admit \/ Enqueue
    BY <2>1, AdmitKeeps, EnqueueKeeps
  <2>2. CASE \E j \in Jobs : Finish(j)
    BY <2>2, FinishKeeps
  <2>3. CASE Request
    BY <2>3, LifecycleKeeps, ExportKeeps, PurgeKeeps DEF Request
  <2>4. CASE Run
    BY <2>4, CheckKeeps, RereadKeeps, RecoverKeeps, OpenKeeps, StepKeeps DEF Run
  <2>5. CASE Boot
    BY <2>5, StartKeeps, ServeKeeps DEF Boot
  <2>6. CASE \E step \in FileSteps : Fail(step)
    BY <2>6, FailKeeps
  <2>7. CASE Stop \/ Crash
    BY <2>7, StopKeeps, CrashKeeps
  <2>8. CASE UNCHANGED vars
    BY <2>8, StutterRetires
  <2>. QED BY <2>1, <2>2, <2>3, <2>4, <2>5, <2>6, <2>7, <2>8 DEF Next
<1>. QED BY <1>1, InitRetires, PTL DEF Spec

(* The types hold: in particular no recovery puts an image in place that   *)
(* does not exist.                                                         *)
THEOREM RetirementTypes == Spec => []TypeOK
<1>1. RetireInv => TypeOK
  <2> SUFFICES ASSUME RetireInv PROVE TypeOK
    OBVIOUS
  <2>1. Types
    BY DEF RetireInv
  <2>2. todo \in Seq(Steps)
    BY <2>1 DEF Types, Ordered
  <2>3. patchset # Absent /\ jobs # Absent
    BY <2>1, AbsentAssumption DEF Types, FilesOK
  <2>4. /\ image.patchset = Absent \/ image.patchset \subseteq Jobs
        /\ image.jobs \in JobTable \cup {Absent}
    BY <2>1, FileFacts
  <2>. QED BY <2>1, <2>2, <2>3, <2>4 DEF TypeOK, Types, FilesOK, Handlers
<1>. QED BY <1>1, PurgeAndRecovery, PTL

(* The registry says purged only when the client has an export and every   *)
(* job of it is tombstoned and located by no Patchset; no crash and no     *)
(* recovery undoes a purge whose record was replaced, unless the lifecycle *)
(* could not be read after an error and was taken for retiring.            *)
THEOREM PurgedStaysPurged == Spec => []PurgedIsNormalized
<1>1. RetireInv => PurgedIsNormalized
  BY DEF RetireInv, AtRest, Normalized, Unlocated, PurgedIsNormalized
<1>. QED BY <1>1, PurgeAndRecovery, PTL

(* Once the journal of a purge that did not happen is gone, everything the *)
(* client exported is there again, wherever the purge and its recoveries   *)
(* failed or were cut off.                                                 *)
THEOREM FailedPurgesAreUndone == Spec => []FailedPurgeIsUndone
<1>1. RetireInv => FailedPurgeIsUndone
  BY DEF RetireInv, AtRest, Whole, HasExported, Holds, Kept, Keeps, Now, FailedPurgeIsUndone
<1>. QED BY <1>1, PurgeAndRecovery, PTL

(* A published journal of a repository that is not purged, also of one     *)
(* whose retirement was aborted, has images of both files with everything  *)
(* the client exported.                                                    *)
THEOREM JournalsUndoPurges == Spec => []PurgeCanBeUndone
<1>1. RetireInv => PurgeCanBeUndone
  BY DEF RetireInv, AtRest, Whole, HasExported, Holds, Kept, Keeps, PurgeCanBeUndone
<1>. QED BY <1>1, PurgeAndRecovery, PTL
=============================================================================
