------------------------ MODULE MCWorkspaceLifecycle ------------------------
(* Instances of WorkspaceLifecycle for TLC.                                 *)
EXTENDS WorkspaceLifecycle, TLC

CONSTANTS t1, t2, c1, c2, c3
=============================================================================
