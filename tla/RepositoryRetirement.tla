------------------------ MODULE RepositoryRetirement ------------------------
(***************************************************************************)
(* The retirement of a repository (operational_binary_runtime.rs,          *)
(* repository_retirement.rs): its lifecycle in the registry, the export a  *)
(* client takes of its authority files, and the purge, which clears the CI *)
(* locators of its Patchsets, tombstones its Worker Jobs and moves the     *)
(* lifecycle on.  A purge journal with before-images of both files lets a  *)
(* purge that fails, or is interrupted, be undone.                         *)
(*                                                                         *)
(* Clearing the locators is one Binary DB transaction (RemoteBinaryDb): it *)
(* happens as a whole or not at all.  Operations of the Worker Job store   *)
(* replace its files one by one through temporary files, and one that does *)
(* not end leaves them.  Of a Worker Job this model keeps whether it is    *)
(* queued or running ("live"), finished or tombstoned.                     *)
(***************************************************************************)
EXTENDS Naturals, Sequences

CONSTANTS
  MaxJobs,       \* bound: Worker Jobs of the repository
  MaxErrors,     \* bound: I/O errors of a behaviour
  MaxCrashes,    \* bound: crashes of the server in a behaviour
  Absent         \* what is in a file that does not exist

ASSUME BoundsAssumption == {MaxJobs, MaxErrors, MaxCrashes} \subseteq Nat

Jobs == 1 .. MaxJobs
JobTable == UNION {[1 .. n -> {"live", "done", "tombstoned"}] : n \in 0 .. MaxJobs}
Lifecycles == {"active", "retiring", "purged"}
(* The two files a purge rewrites: the jobs that Patchsets locate, in      *)
(* patchset.bin, and worker_job.bin.                                       *)
Content == [patchset : SUBSET Jobs, jobs : JobTable]
ASSUME AbsentAssumption ==
  (\A p \in SUBSET Jobs : p # Absent) /\ (\A t \in JobTable : t # Absent) /\ Absent \notin Content

Steps == {"check", "copyPatchset", "copyJobs", "writeTemp", "publish", "clear", "tombstone",
          "replaceRecord", "rebuildIndex", "catalog", "reread",
          "restorePatchset", "restoreJobs", "unpublish", "sweep",
          "recover", "open", "recoverJobs"}

VARIABLES
  lifecycle,        \* the lifecycle in the registry
  patchset, jobs,   \* the two files
  image,            \* their before-images, or Absent
  journal,          \* whether the purge journal is published
  leftover,         \* whether temporary files of the purge exist
  scratch,          \* whether temporary files of the Worker Job store exist
  export, cache,    \* the export the client took, and the cached manifest, or Absent
  enqueuer,         \* a request to enqueue: "idle", or "admitted" to the repository
  server,           \* "down", "starting" or "up"
  todo, handler,    \* steps left of the purge or recovery at work; where an error leads
  misread,          \* whether a purged repository was ever taken for a retiring one
  errors, crashes   \* faults so far

files == <<patchset, jobs, image, journal, leftover, scratch>>
client == <<export, cache, enqueuer>>
vars == <<lifecycle, files, client, server, todo, handler, misread, errors, crashes>>

Handlers == {"none", "inner", "outer"}

(* The two files always exist: no recovery restores an image that is not   *)
(* there.                                                                  *)
TypeOK ==
  /\ lifecycle \in Lifecycles
  /\ patchset # Absent /\ patchset \subseteq Jobs
  /\ jobs # Absent /\ jobs \in JobTable
  /\ image.patchset = Absent \/ image.patchset \subseteq Jobs
  /\ image.jobs \in JobTable \cup {Absent}
  /\ journal \in BOOLEAN /\ leftover \in BOOLEAN /\ scratch \in BOOLEAN
  /\ {export, cache} \subseteq Content \cup {Absent}
  /\ enqueuer \in {"idle", "admitted"}
  /\ server \in {"down", "starting", "up"}
  /\ todo \in Seq(Steps) /\ handler \in Handlers /\ misread \in BOOLEAN
  /\ errors \in 0 .. MaxErrors /\ crashes \in 0 .. MaxCrashes

NoImage == [patchset |-> Absent, jobs |-> Absent]

Init ==
  /\ lifecycle = "active"
  /\ patchset = {} /\ jobs = <<>>
  /\ image = NoImage /\ journal = FALSE /\ leftover = FALSE /\ scratch = FALSE
  /\ export = Absent /\ cache = Absent
  /\ enqueuer = "idle"
  /\ server = "up" /\ todo = <<>> /\ handler = "none" /\ misread = FALSE
  /\ errors = 0 /\ crashes = 0

Now == [patchset |-> patchset, jobs |-> jobs]
Drained == \A j \in DOMAIN jobs : jobs[j] # "live"
(* Nothing is left of a purge, or of an operation of the job store.        *)
Clean == ~journal /\ ~leftover /\ image = NoImage /\ ~scratch
(* One retirement request at a time has the registration lock.             *)
Free == server = "up" /\ todo = <<>>

-----------------------------------------------------------------------------
(* Worker Jobs come and go.  An enqueue looks at the lifecycle first and   *)
(* appends later, without the registration lock in between; it begins by   *)
(* removing what an operation of the job store left.                       *)

Admit ==
  /\ server = "up" /\ enqueuer = "idle"
  /\ lifecycle = "active" /\ Len(jobs) < MaxJobs
  /\ enqueuer' = "admitted"
  /\ UNCHANGED <<lifecycle, files, export, cache, server, todo, handler, misread, errors, crashes>>

Enqueue ==
  /\ server = "up" /\ enqueuer = "admitted"
  /\ enqueuer' = "idle"
  /\ jobs' = Append(jobs, "live")
  /\ patchset' = patchset \cup {Len(jobs) + 1}
  /\ scratch' = FALSE
  /\ UNCHANGED <<lifecycle, image, journal, leftover, export, cache, server, todo, handler, misread,
                 errors, crashes>>

(* A purged repository hands out no job, and no job is read next to what   *)
(* an operation of the job store left.                                     *)
Finish(j) ==
  /\ server = "up" /\ lifecycle # "purged" /\ ~scratch
  /\ j \in DOMAIN jobs /\ jobs[j] = "live"
  /\ jobs' = [jobs EXCEPT ![j] = "done"]
  /\ UNCHANGED <<lifecycle, patchset, image, journal, leftover, scratch, client, server, todo, handler,
                 misread, errors, crashes>>

-----------------------------------------------------------------------------
(* Requests that change the lifecycle replace the record of the registry   *)
(* and the cached manifest; an error may come before the rename, or after  *)
(* it, and then the cached manifest stays, or while the new one is made.   *)

Error == errors < MaxErrors /\ errors' = errors + 1

Becomes(l, manifest) ==
  /\ \/ lifecycle' = l /\ cache' = manifest /\ UNCHANGED errors
     \/ Error /\ lifecycle' \in {lifecycle, l} /\ UNCHANGED cache
     \/ Error /\ manifest # Absent /\ lifecycle' = l /\ cache' = Absent
  /\ UNCHANGED <<files, export, enqueuer, server, todo, handler, misread, crashes>>

Manifest == IF Drained /\ Clean THEN Now ELSE Absent

Begin ==
  /\ Free /\ lifecycle \in {"active", "retiring"} /\ ~scratch
  /\ Becomes("retiring", Manifest)

(* Nothing here asks for a purge journal that could not be recovered.      *)
Abort == Free /\ lifecycle = "retiring" /\ Becomes("active", Absent)

(* The client asks for the manifest, which is cached, and downloads every  *)
(* file of it; a file that changed since then is refused.                  *)
Status ==
  /\ Free /\ lifecycle = "retiring" /\ ~scratch
  /\ cache = Absent /\ Manifest # Absent
  /\ cache' = Manifest
  /\ UNCHANGED <<lifecycle, files, export, enqueuer, server, todo, handler, misread, errors, crashes>>

Export ==
  /\ Free /\ lifecycle = "retiring" /\ Drained /\ ~scratch
  /\ cache' = IF cache = Absent THEN Manifest ELSE cache
  /\ cache' = Now
  /\ export' = Now
  /\ UNCHANGED <<lifecycle, files, enqueuer, server, todo, handler, misread, errors, crashes>>

-----------------------------------------------------------------------------
(* Recovery of an interrupted purge, by the lifecycle: undo it, or finish  *)
(* it.  Without a journal only files that never counted are left.          *)
(* Mutant of FinishSteps: the images go before the journal.                *)
FinishImagesFirst == <<"sweep", "unpublish">>
FinishSteps == <<"unpublish", "sweep">>
UndoSteps == <<"restorePatchset", "restoreJobs">> \o FinishSteps
(* Mutants of RecoverySteps: a purge is undone whatever the lifecycle, or  *)
(* finished whatever the lifecycle, or undone without a journal.           *)
RecoveryUndoes(l) == IF journal THEN UndoSteps ELSE <<"sweep">>
RecoveryFinishes(l) == FinishSteps
RecoveryAnyway(l) == IF l = "retiring" THEN UndoSteps ELSE FinishSteps
RecoverySteps(l) ==
  IF ~journal THEN <<"sweep">> ELSE IF l = "retiring" THEN UndoSteps ELSE FinishSteps
Recoverable(l) == journal => l # "active" /\ image.patchset # Absent /\ image.jobs # Absent

(* Mutant of PrepareSteps: the journal is published before its images.     *)
PrepareJournalFirst == <<"writeTemp", "publish", "copyPatchset", "copyJobs">>
PrepareSteps == <<"copyPatchset", "copyJobs", "writeTemp", "publish">>
PurgeSteps ==
  PrepareSteps \o <<"clear", "tombstone", "replaceRecord", "rebuildIndex", "catalog">> \o FinishSteps

Purge ==
  /\ Free /\ export # Absent
  /\ \/ lifecycle = "retiring" /\ ~scratch /\ todo' = <<"check">>
     \/ /\ lifecycle = "purged" /\ Recoverable("purged")
        /\ todo' = RecoverySteps("purged") \o <<"catalog">>
  /\ handler' = "none"
  /\ UNCHANGED <<lifecycle, files, client, server, misread, errors, crashes>>

(* A start recovers the purge of a repository that is not purged, opens it *)
(* and recovers its job store.  It is refused when there is a journal that *)
(* recovery does not accept, when a Patchset locates a job that is not     *)
(* there, and when the job store has temporary files: opening the          *)
(* repository reads the jobs before the job store is recovered.            *)
Start ==
  /\ server = "down"
  /\ server' = "starting" /\ handler' = "none"
  /\ todo' = IF lifecycle = "purged" THEN <<>> ELSE <<"recover", "open", "recoverJobs">>
  /\ UNCHANGED <<lifecycle, files, client, misread, errors, crashes>>

At(step) == todo # <<>> /\ Head(todo) = step
Refused == server' = "down" /\ todo' = <<>>

Recover ==
  /\ At("recover")
  /\ \/ Recoverable(lifecycle) /\ todo' = RecoverySteps(lifecycle) \o Tail(todo) /\ UNCHANGED server
     \/ ~Recoverable(lifecycle) /\ Refused
  /\ UNCHANGED <<lifecycle, files, client, handler, misread, errors, crashes>>

(* Opening sets the locators anew: those of the jobs that count.           *)
Located == {j \in DOMAIN jobs : jobs[j] # "tombstoned"}
Openable == ~scratch /\ patchset \subseteq Located

Open ==
  /\ At("open")
  /\ \/ Openable /\ patchset' = Located /\ todo' = Tail(todo) /\ UNCHANGED server
     \/ ~Openable /\ Refused /\ UNCHANGED patchset
  /\ UNCHANGED <<lifecycle, jobs, image, journal, leftover, scratch, client, handler, misread, errors, crashes>>

Serve ==
  /\ server = "starting" /\ todo = <<>>
  /\ server' = "up"
  /\ UNCHANGED <<lifecycle, files, client, todo, handler, misread, errors, crashes>>

-----------------------------------------------------------------------------
(* The steps.  Until the lifecycle is replaced an error undoes the purge:  *)
(* after the files began to change, under the closure of the coordinator   *)
(* first, and then in any case once more by the lifecycle read again.      *)

HandlerOf(step) ==
  CASE step \in {"clear", "tombstone"} -> "inner"
    [] step \in {"copyPatchset", "copyJobs", "writeTemp", "publish", "replaceRecord", "rebuildIndex"} -> "outer"
    [] OTHER -> handler

UndoneJobs(l) == IF l = "retiring" THEN <<"recoverJobs">> ELSE <<>>

Failed(step) ==
  LET h == HandlerOf(step)
  IN  CASE h = "inner" -> /\ todo' = RecoverySteps("retiring") \o <<"recoverJobs", "reread">>
                          /\ handler' = "outer"
        [] h = "outer" -> todo' = <<"reread">> /\ handler' = "none"
        [] h = "none" -> todo' = <<>> /\ handler' = "none"

(* The acknowledged manifest must be that of the files, and there is none  *)
(* while anything is left of an earlier purge.                             *)
Accepts == Drained /\ Clean /\ export = Now

Check ==
  /\ At("check")
  /\ todo' = IF Accepts THEN PurgeSteps ELSE <<>>
  /\ UNCHANGED <<lifecycle, files, client, server, handler, misread, errors, crashes>>

(* A lifecycle that cannot be read counts as retiring.                     *)
Reread ==
  /\ At("reread")
  /\ \E l \in {lifecycle, IF errors < MaxErrors THEN "retiring" ELSE lifecycle} :
       /\ todo' = IF Recoverable(l) THEN RecoverySteps(l) \o UndoneJobs(l) ELSE <<>>
       /\ errors' = IF l = lifecycle THEN errors ELSE errors + 1
       /\ misread' = (misread \/ l # lifecycle)
  /\ handler' = "none"
  /\ UNCHANGED <<lifecycle, files, client, server, crashes>>

(* What a step does to the files.                                          *)
Copy(step) ==
  /\ image' = IF step = "copyPatchset" THEN [image EXCEPT !.patchset = patchset]
              ELSE [image EXCEPT !.jobs = jobs]
  /\ UNCHANGED <<lifecycle, patchset, jobs, journal, leftover, scratch>>
WriteTemp == leftover' = TRUE /\ UNCHANGED <<lifecycle, patchset, jobs, image, journal, scratch>>
Publish ==
  journal' = TRUE /\ leftover' = FALSE /\ UNCHANGED <<lifecycle, patchset, jobs, image, scratch>>
Clear == patchset' = {} /\ UNCHANGED <<lifecycle, jobs, image, journal, leftover, scratch>>
Tombstoned == [j \in DOMAIN jobs |-> "tombstoned"]
Tombstone ==
  jobs' = Tombstoned /\ scratch' = FALSE /\ UNCHANGED <<lifecycle, patchset, image, journal, leftover>>
ReplaceRecord == lifecycle' = "purged" /\ UNCHANGED files
Restore(step) ==
  /\ IF step = "restorePatchset" THEN patchset' = image.patchset /\ UNCHANGED jobs
     ELSE jobs' = image.jobs /\ UNCHANGED patchset
  /\ UNCHANGED <<lifecycle, image, journal, leftover, scratch>>
Unpublish == journal' = FALSE /\ UNCHANGED <<lifecycle, patchset, jobs, image, leftover, scratch>>
Sweep ==
  /\ image' = NoImage /\ leftover' = FALSE
  /\ UNCHANGED <<lifecycle, patchset, jobs, journal, scratch>>
RecoverJobs == scratch' = FALSE /\ UNCHANGED <<lifecycle, patchset, jobs, image, journal, leftover>>

Effect(step) ==
  \/ step \in {"copyPatchset", "copyJobs"} /\ Copy(step)
  \/ step = "writeTemp" /\ WriteTemp
  \/ step = "publish" /\ Publish
  \/ step = "clear" /\ Clear
  \/ step = "tombstone" /\ Tombstone
  \/ step = "replaceRecord" /\ ReplaceRecord
  \/ step \in {"restorePatchset", "restoreJobs"} /\ Restore(step)
  \/ step = "unpublish" /\ Unpublish
  \/ step = "sweep" /\ Sweep
  \/ step = "recoverJobs" /\ RecoverJobs
  \/ step \in {"rebuildIndex", "catalog"} /\ UNCHANGED <<lifecycle, files>>

(* What may be left of a step that does not end: nothing, all of it, or    *)
(* temporary files.  Whether an index of the job store has to be written   *)
(* again when it is recovered is left open: indexes are not modelled here. *)
Partly(step) ==
  \/ UNCHANGED <<lifecycle, files>>
  \/ Effect(step)
  \/ /\ step \in {"copyPatchset", "copyJobs", "writeTemp", "restorePatchset", "restoreJobs"}
     /\ leftover' = TRUE
     /\ UNCHANGED <<lifecycle, patchset, jobs, image, journal, scratch>>
  \/ /\ step \in {"tombstone", "recoverJobs"}
     /\ jobs' \in {jobs, IF step = "tombstone" THEN Tombstoned ELSE jobs}
     /\ scratch' = TRUE
     /\ UNCHANGED <<lifecycle, patchset, image, journal, leftover>>

FileSteps == Steps \ {"check", "reread", "recover", "open"}

Step(step) ==
  /\ At(step) /\ Effect(step)
  /\ todo' = Tail(todo)
  /\ UNCHANGED <<client, server, handler, misread, errors, crashes>>

Fail(step) ==
  /\ At(step) /\ Error /\ Partly(step)
  /\ Failed(step)
  /\ server' = IF server = "starting" THEN "down" ELSE server
  /\ UNCHANGED <<client, misread, crashes>>

(* The server is stopped between requests.                                 *)
Stop ==
  /\ Free /\ enqueuer = "idle"
  /\ server' = "down" /\ cache' = Absent
  /\ UNCHANGED <<lifecycle, files, export, enqueuer, todo, handler, misread, errors, crashes>>

(* The manifest cache and admitted requests go with the process.           *)
Crash ==
  /\ server # "down" /\ crashes < MaxCrashes
  /\ crashes' = crashes + 1
  /\ server' = "down" /\ todo' = <<>> /\ handler' = "none"
  /\ cache' = Absent /\ enqueuer' = "idle"
  /\ IF todo # <<>> /\ Head(todo) \in FileSteps THEN Partly(Head(todo))
     ELSE UNCHANGED <<lifecycle, files>>
  /\ UNCHANGED <<export, misread, errors>>

-----------------------------------------------------------------------------
Request == Begin \/ Abort \/ Status \/ Export \/ Purge
Run == Check \/ Reread \/ Recover \/ Open \/ (\E step \in FileSteps : Step(step))
Boot == Start \/ Serve

Next ==
  \/ Admit \/ Enqueue \/ (\E j \in Jobs : Finish(j))
  \/ Request \/ Run \/ Boot
  \/ (\E step \in FileSteps : Fail(step)) \/ Stop \/ Crash

Spec == Init /\ [][Next]_vars

(* A stopped server is started again, and what is at work goes on.         *)
FairSpec == Spec /\ WF_vars(Boot) /\ WF_vars(Run)

-----------------------------------------------------------------------------
(* The jobs the client holds in its export, and whether contents c of the  *)
(* two files still has all of it.                                          *)
Exported == IF export = Absent THEN {} ELSE DOMAIN export.jobs
Keeps(c) == export # Absent =>
  export.patchset \subseteq c.patchset /\ \A j \in Exported : c.jobs[j] # "tombstoned"

(* The registry says purged only when the client has an export and every   *)
(* job of it is tombstoned and located by no Patchset, and no recovery     *)
(* brings them back afterwards.  The exception is a recovery after an      *)
(* error that cannot read the lifecycle and takes it for retiring: it      *)
(* restores the files of a purged repository.                              *)
PurgedIsNormalized ==
  lifecycle = "purged" /\ ~misread =>
    export # Absent /\ \A j \in Exported : jobs[j] = "tombstoned" /\ j \notin patchset

(* A purge that failed or was interrupted is undone as a whole: once its   *)
(* journal is gone and the server answers, what was exported is there.     *)
FailedPurgeIsUndone ==
  Free /\ lifecycle # "purged" /\ ~journal => Keeps(Now)

(* A published journal of a repository that is not purged always has what  *)
(* undoing takes, however often the purge or its recovery is interrupted.  *)
PurgeCanBeUndone ==
  journal /\ lifecycle # "purged" =>
    image.patchset # Absent /\ image.jobs # Absent /\ Keeps(image)

(* A server that stops in the middle of a purge can be started again.      *)
(* Three things, and nothing else, keep it from that: temporary files of   *)
(* the job store, a Patchset that locates a job that is not there, and the *)
(* journal of a purge whose recovery failed and that was then aborted.     *)
Obstructed ==
  \/ scratch
  \/ journal /\ lifecycle = "active"
  \/ ~journal /\ ~(patchset \subseteq Located)
ServerComesBack == server = "down" ~> (server = "up" \/ Obstructed)

(* An active repository has no purge journal.                              *)
ActiveHasNoJournal == lifecycle = "active" => ~journal
=============================================================================
