------------------------ MODULE MCJournalDurability ------------------------
(***************************************************************************)
(* One file with a record and one that is not there yet, so that undoing   *)
(* has a record to restore, a file to cut and a file to remove.            *)
(***************************************************************************)
EXTENDS JournalDurability

MCInitFile == [f \in {"plan.bin", "task.bin"} |->
  IF f = "plan.bin" THEN [exists |-> TRUE, recs |-> <<1>>] ELSE Absent]
=============================================================================
