------------------------ MODULE MCFoundryTaskIndex ------------------------
(* Instances of FoundryTaskIndex for TLC. *)
EXTENDS FoundryTaskIndex, TLC

CONSTANTS c1, c2, v1, main, other

W(kind, b) == [kind |-> kind, branch |-> b]

\* A call on a branch beside one that names it, or beside one that takes any.
Wanted ==
    {c1 :> w[1] @@ c2 :> w[2] :
        w \in {<<W("onBranch", main), W("named", main)>>,
               <<W("onBranch", main), W("any", main)>>}}
=============================================================================
