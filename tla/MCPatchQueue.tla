---------------------------- MODULE MCPatchQueue ----------------------------
(* Three patches on one client.                                             *)
EXTENDS PatchQueue

CONSTANTS t1, t2, t3, app

MCQueueOf == [t \in Tasks |-> app]
=============================================================================
