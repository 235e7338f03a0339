--------------------------- MODULE MCFoundryTask ---------------------------
(* Instances of FoundryTask for TLC. *)
EXTENDS FoundryTask, TLC

CONSTANTS old, new, ann, bob, m1, m2, m3, r1, r2, r3, r4

J(kind, s, m, u) == [kind |-> kind, session |-> s, model |-> m, user |-> u]
Nothing == J("none", old, m1, ann)

\* What four requests may be; they come in any order and interleave as they can.
Workloads ==
    {r1 :> w[1] @@ r2 :> w[2] @@ r3 :> w[3] @@ r4 :> w[4] :
        w \in {<<J("create", new, m1, ann), J("close", old, m1, ann),
                 J("close", new, m1, ann), J("change", new, m2, ann)>>,
               <<J("send", old, m1, ann), J("change", old, m2, ann),
                 J("change", old, m3, bob), Nothing>>,
               <<J("send", old, m1, ann), J("send", old, m1, bob),
                 J("owner", old, m1, bob), J("stop", old, m1, ann)>>,
               <<J("create_send", new, m1, ann), J("close", old, m1, ann),
                 J("send", old, m1, bob), J("change", old, m2, ann)>>}}
=============================================================================
