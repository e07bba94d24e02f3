------------------------- MODULE MCPreparedPackages -------------------------
(***************************************************************************)
(* Packages on one base, reviewed by one bot: a summary, a task approval   *)
(* and, as a second decision, an objection.                                *)
(***************************************************************************)
EXTENDS PreparedPackages, TLC

CONSTANTS bot

MCBase == [p \in Packages |-> Trunk]

Review(key, action) == [key |-> key, by |-> bot, action |-> action, blocking |-> FALSE]

MCReviews == {Review(1, "code_review_summary"), Review(2, "task_approve"),
              Review(3, "request_changes")}

MCApprovals == {Review(1, "code_review_summary"), Review(2, "task_approve")}

SamePackages == Permutations(Packages)
=============================================================================
