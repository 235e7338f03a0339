-------------------------- MODULE MCProcessRuntime --------------------------
(* Instances of ProcessRuntime for TLC. *)
EXTENDS ProcessRuntime, TLC

CONSTANTS h1, h2, h3, h4

\* A start; a write that may wait for the process, or a delete; a call that
\* holds the table's read lock; one of the calls that change table or process.
Mixed == h1 :> {"start"} @@ h2 :> {"write", "delete"} @@ h3 :> {"list"}
         @@ h4 :> {"start", "stop", "kill", "delete", "get"}

\* A start, a write and a kill.
Blocking == h1 :> {"start"} @@ h2 :> {"write"} @@ h3 :> {"kill"}
=============================================================================
