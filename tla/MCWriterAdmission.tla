--------------------------- MODULE MCWriterAdmission ---------------------------
(* Three writers whose scopes share a lane, and a ticket space that         *)
(* is exhausted within a behaviour.                                         *)
EXTENDS WriterAdmission

CONSTANTS t1, t2, t3

MCThreads == {t1, t2, t3}
(* A family scope and the composite scope that contains it.                 *)
MCNestedScopes == {"ServerWorkflow", "ServerTaskStart"}
=============================================================================
