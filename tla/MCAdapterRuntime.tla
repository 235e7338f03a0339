-------------------------- MODULE MCAdapterRuntime --------------------------
(* Instances of AdapterRuntime for TLC. *)
EXTENDS AdapterRuntime

CONSTANTS r1, r2, r3, n1, k1, i1, sse, id1, id2

\* r3 has an id of its own; all the others share one.
MixedIds == [c \in Requests |-> IF c = r3 THEN id2 ELSE id1]

\* Two requests under one id or two; a request beside everything else.
Pairs == {{r1, r2}, {r1, r3}, {n1, k1}} \cup {{r1, x} : x \in {n1, k1, i1, sse, Nobody}}
Closing == {{r1, k1}}
=============================================================================
