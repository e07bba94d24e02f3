---------------------------- MODULE MCRuntimeLeases ----------------------------
(* Two runners compete for the jobs of one repository.                       *)
EXTENDS RuntimeLeases

CONSTANTS r1, r2

MCRunners == {r1, r2}
=============================================================================
