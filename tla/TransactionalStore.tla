-------------------------- MODULE TransactionalStore --------------------------
(***************************************************************************)
(* What Binary DB write transactions promise.  A transaction owns a set of *)
(* files that no other transaction works on, works on a private copy of    *)
(* them, and publishes the whole copy or nothing.  There is one exception: *)
(* a commit may fail when it has nothing left to fall back on.  Its writer *)
(* takes its changes back one by one, and should it not get to the end,    *)
(* what it has not taken back is published.                                *)
(***************************************************************************)
CONSTANTS
  Writers, Files,
  FileSets,    \* the sets of files a transaction may own
  InitFile     \* the contents to begin with

VARIABLES
  db,    \* file -> committed contents
  work,  \* writer -> its private copies, <<>> outside a transaction
  failed \* writers that take the changes of a failed commit back

Idle(w) == work[w] = <<>>

Init == db = InitFile /\ work = [w \in Writers |-> <<>>] /\ failed = {}

Begin(w) == \E F \in FileSets :
  /\ Idle(w) /\ w \notin failed
  /\ \A v \in Writers : F \cap DOMAIN work[v] = {}
  /\ work' = [work EXCEPT ![w] = [f \in F |-> db[f]]]
  /\ UNCHANGED <<db, failed>>

Write(w) ==
  /\ ~Idle(w)
  /\ DOMAIN work'[w] = DOMAIN work[w]
  /\ \A v \in Writers \ {w} : work'[v] = work[v]
  /\ UNCHANGED <<db, failed>>

Publish(w) ==
  /\ db' = [f \in Files |-> IF f \in DOMAIN work[w] THEN work[w][f] ELSE db[f]]
  /\ work' = [work EXCEPT ![w] = <<>>]

Commit(w) ==
  /\ ~Idle(w) /\ w \notin failed
  /\ Publish(w)
  /\ UNCHANGED failed

Discard(w) ==
  /\ work' = [work EXCEPT ![w] = <<>>]
  /\ failed' = failed \ {w}
  /\ UNCHANGED db

FailCommit(w) ==
  /\ w \notin failed
  /\ failed' = failed \cup {w}
  /\ UNCHANGED <<db, work>>

(* The writer of a failed commit does not get to the end of undoing it.    *)
Tear(w) ==
  /\ w \in failed
  /\ Publish(w)
  /\ failed' = failed \ {w}

(* Most steps of an implementation are of this kind.                       *)
Unseen == UNCHANGED <<work, db, failed>>
Next == Unseen \/ \E w \in Writers :
  Write(w) \/ Begin(w) \/ Commit(w) \/ Discard(w) \/ FailCommit(w) \/ Tear(w)

Spec == Init /\ [][Next]_<<db, work, failed>>
=============================================================================
