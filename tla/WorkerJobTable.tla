--------------------------- MODULE WorkerJobTable ---------------------------
(***************************************************************************)
(* The Worker Jobs of a repository as their users see them: a table that   *)
(* every operation of the store changes as a whole or not at all.          *)
(***************************************************************************)
EXTENDS WorkerJobRecords

VARIABLE table

Init == table = <<>>

Enqueue == \E r \in FreshRecords :
  Len(table) < MaxJobs /\ table' = Append(table, r)

Replace == \E j \in DOMAIN table, name \in Replacements :
  Admits(name, table[j]) /\ table' = [table EXCEPT ![j] = Replaced(name, @)]

Finish == \E j \in DOMAIN table :
  Finishable(table[j]) /\ table' = [table EXCEPT ![j] = Bound(@)]

TombstoneAll == table' = Tombstoned(table)

Next == Enqueue \/ Replace \/ Finish \/ TombstoneAll

Spec == Init /\ [][Next]_table
=============================================================================
