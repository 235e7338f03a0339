-------------------------- MODULE MCOpenCodeServer --------------------------
(* Instances of OpenCodeServer for TLC. *)
EXTENDS OpenCodeServer, TLC

CONSTANTS r1, r2, c1, c2, c3
=============================================================================
