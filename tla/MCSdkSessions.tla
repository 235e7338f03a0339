--------------------------- MODULE MCSdkSessions ---------------------------
(* Instances of SdkSessions for TLC. *)
EXTENDS SdkSessions, TLC

CONSTANTS old, new, c1, c2, c3

J(kind, s) == [kind |-> kind, session |-> s]

\* Two calls on a session, or on a stored and a new one, with a dispose() that may
\* come at any moment, or without; and a call beside two dispose() that overlap.
Workloads ==
    {c1 :> w[1] @@ c2 :> w[2] @@ c3 :> w[3] :
        w \in {<<J("prompt", old), J("prompt", old),  J("dispose", old)>>,
               <<J("prompt", old), J("resume", old),  J("none", old)>>,
               <<J("create", new), J("resume", old),  J("dispose", old)>>,
               <<J("create", new), J("prompt", new),  J("none", old)>>,
               <<J("destroy", old), J("prompt", old), J("none", old)>>,
               <<J("prompt", old), J("dispose", old), J("dispose", old)>>}}
=============================================================================
