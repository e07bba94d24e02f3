---------------------------- MODULE BinaryDbScopes ----------------------------
(***************************************************************************)
(* The command scopes of the server's remote Binary DB, the write locks    *)
(* each of them owns and the order in which those locks are taken          *)
(* (remote_binary_db/ids.rs).  A lock is named by its file family, and     *)
(* "global" is the additional lock that only whole-authority maintenance   *)
(* takes.                                                                  *)
(***************************************************************************)
EXTENDS Integers, Sequences

(* The write locks, in the alphabetical order of their file names: the     *)
(* order of all_write_lock_file_names and of the admission lanes.          *)
LockOrder == <<"global", "content", "plan", "queue", "pack", "workflow">>

LockNames == {"global", "content", "plan", "queue", "pack", "workflow"}

(* BinaryDbCommandScope::ALL, in its order: the order in which pending     *)
(* journals are looked for and recovered.                                  *)
AllScopes ==
  <<"General", "ServerContent", "ServerLand", "ServerPlan", "ServerQueue",
    "ServerRemoteSyncCommit", "ServerRepositoryPack", "ServerTaskStart",
    "ServerWorkflow", "ServerSnapshotCapture">>

Scopes ==
  {"General", "ServerContent", "ServerLand", "ServerPlan", "ServerQueue",
   "ServerRemoteSyncCommit", "ServerRepositoryPack", "ServerTaskStart",
   "ServerWorkflow", "ServerSnapshotCapture"}

(* The locks a scope owns, in the order in which they are requested.       *)
LockFileNames(scope) ==
  CASE scope = "General"                -> LockOrder
    [] scope = "ServerWorkflow"         -> <<"workflow">>
    [] scope = "ServerPlan"             -> <<"plan">>
    [] scope = "ServerQueue"            -> <<"queue">>
    [] scope = "ServerRepositoryPack"   -> <<"pack">>
    [] scope = "ServerContent"          -> <<"content">>
    [] scope = "ServerTaskStart"        -> <<"plan", "workflow">>
    [] scope = "ServerLand"             -> <<"content", "queue", "workflow">>
    [] scope = "ServerSnapshotCapture"  -> <<"content", "workflow">>
    [] scope = "ServerRemoteSyncCommit" -> <<"content">>

LocksOf(scope) ==
  {LockFileNames(scope)[i] : i \in 1 .. Len(LockFileNames(scope))}

(* The file families a scope may write.  They carry the names of the locks *)
(* that protect them; no family belongs to the "global" lock.              *)
WriteScope(scope) == LocksOf(scope) \ {"global"}

(* The shared locks a reader of a set of families takes: "global" only for *)
(* the ALL read scope.                                                     *)
ReadLocks(families) ==
  families \cup (IF families = LockNames \ {"global"} THEN {"global"} ELSE {})

(* Two scopes conflict when they share a lock.                             *)
ConflictsWith(s, t) == LocksOf(s) \cap LocksOf(t) # {}

(* A general scope is only for offline maintenance: serving writers must   *)
(* name an exact family or composite scope.                                *)
ServingScopes == Scopes \ {"General"}
=============================================================================
