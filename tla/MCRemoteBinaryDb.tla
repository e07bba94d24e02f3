--------------------------- MODULE MCRemoteBinaryDb ---------------------------
(* Writers of the Plan family, of the Workflow family and of both, on one   *)
(* record file and one sorted index.                                        *)
EXTENDS RemoteBinaryDb, TLC

CONSTANTS w1, w2

MCWriters == {w1, w2}
Symmetry == Permutations(MCWriters)

MCUsedScopes == {"ServerPlan", "ServerTaskStart"}
MCFiles == {"plan.bin", "task.idx"}
MCIndexFiles == {"task.idx"}
MCFamilyOf == [f \in MCFiles |-> IF f = "plan.bin" THEN "plan" ELSE "workflow"]
MCInitFile == [f \in MCFiles |->
  IF f = "plan.bin" THEN [exists |-> TRUE, recs |-> <<1>>] ELSE Absent]
=============================================================================
