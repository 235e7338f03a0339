----------------------------- MODULE ProcessLife -----------------------------
(***************************************************************************)
(* What /v1/processes promises about one process id: it appears, it ends   *)
(* at most once, and it disappears only after its end.                     *)
(***************************************************************************)
CONSTANT Processes

VARIABLE life    \* life[p]: what a client that looks p up is told

LifeInit == life = [p \in Processes |-> "unknown"]

Becomes(p, from, to) ==
    /\ life[p] \in from
    /\ life' = [life EXCEPT ![p] = to]

LifeNext == \E p \in Processes :
    \/ Becomes(p, {"unknown"}, "running")
    \/ Becomes(p, {"unknown", "running"}, "exited")
    \/ Becomes(p, {"exited"}, "deleted")

LifeSpec == LifeInit /\ [][LifeNext]_life
=============================================================================
