----------------------------- MODULE MCAcpProxy -----------------------------
(* Instances of AcpProxy for TLC. *)
EXTENDS AcpProxy, TLC

CONSTANTS h1, h2, h3, a1, a2

\* A post, another or a direct install, and a delete.
Mixed == h1 :> {"post"} @@ h2 :> {"post", "install"} @@ h3 :> {"delete"}

\* Which of the two agents the first post names makes no difference.
Naming == h1 :> {a1, None} @@ h2 :> {a1, a2, None} @@ h3 :> {}
=============================================================================
