------------------------------ MODULE Registry ------------------------------
(***************************************************************************)
(* What POST and DELETE /v1/acp/{server_id} promise about server ids: an   *)
(* id is bound to one agent at a time, every post is judged against the    *)
(* binding of one instant of the call, and a bound id changes its agent    *)
(* only through a removal.                                                 *)
(***************************************************************************)
CONSTANTS Calls, Servers, Agents, None

VARIABLES
    bound,      \* bound[s]: the agent of server id s, or None
    server,     \* server[h]: the id call h names, None before the call
    wants,      \* wants[h]: the agent call h asks for, or None
    verdict     \* verdict[h]: how the id of call h was resolved

registryVars == <<bound, server, wants, verdict>>

RegistryInit ==
    /\ bound = [s \in Servers |-> None]
    /\ server = [h \in Calls |-> None]
    /\ wants = [h \in Calls |-> None]
    /\ verdict = [h \in Calls |-> "open"]

Judge(h, result) ==
    /\ verdict[h] = "open"
    /\ server[h] # None
    /\ verdict' = [verdict EXCEPT ![h] = result]
    /\ UNCHANGED <<server, wants>>

Ask(h) ==
    /\ server[h] = None
    /\ verdict[h] = "open"
    /\ \E s \in Servers : server' = [server EXCEPT ![h] = s]
    /\ \E a \in Agents \cup {None} : wants' = [wants EXCEPT ![h] = a]
    /\ UNCHANGED <<bound, verdict>>

Grant(h) ==
    /\ Judge(h, "granted")
    /\ bound[server[h]] # None
    /\ wants[h] \in {None, bound[server[h]]}
    /\ UNCHANGED bound

Bind(h) ==
    /\ Judge(h, "granted")
    /\ bound[server[h]] = None
    /\ wants[h] # None
    /\ bound' = [bound EXCEPT ![server[h]] = wants[h]]

Refuse(h) ==
    /\ Judge(h, "conflict")
    /\ bound[server[h]] # None
    /\ wants[h] \notin {None, bound[server[h]]}
    /\ UNCHANGED bound

Miss(h) ==
    /\ Judge(h, "invalid")
    /\ bound[server[h]] = None
    /\ wants[h] = None
    /\ UNCHANGED bound

\* The agent cannot be installed or started.
Fail(h) == Judge(h, "failed") /\ UNCHANGED bound

\* The client went away.
Leave(h) ==
    /\ verdict[h] \in {"open", "granted"}
    /\ verdict' = [verdict EXCEPT ![h] = "gone"]
    /\ UNCHANGED <<bound, server, wants>>

Unbind(S) ==
    /\ bound' = [s \in Servers |-> IF s \in S THEN None ELSE bound[s]]
    /\ UNCHANGED <<server, wants, verdict>>

RegistryNext ==
    \/ \E h \in Calls : \/ Ask(h) \/ Grant(h) \/ Bind(h) \/ Refuse(h)
                        \/ Miss(h) \/ Fail(h) \/ Leave(h)
    \/ \E S \in SUBSET Servers : Unbind(S)

RegistrySpec == RegistryInit /\ [][RegistryNext]_registryVars
=============================================================================
