---------------------------- MODULE RequestReply ----------------------------
(***************************************************************************)
(* What POST /v1/acp promises its clients: every request ends in at most   *)
(* one way, an answer belongs to a request that was really posted under    *)
(* the same id, and no answer of the agent is handed out twice.            *)
(***************************************************************************)
CONSTANTS Requests, Ids, IdOf, Nobody

VARIABLES
    state,    \* state[c]: how far request c is
    answer    \* answer[c]: the request whose answer c was given, or Nobody

promiseVars == <<state, answer>>

PromiseInit ==
    /\ state = [c \in Requests |-> "new"]
    /\ answer = [c \in Requests |-> Nobody]

Ask(c) ==
    /\ state[c] = "new"
    /\ state' = [state EXCEPT ![c] = "asked"]
    /\ UNCHANGED answer

\* The answer comes from the agent's answer to some request a with c's id.
Answer(c, a) ==
    /\ state[c] = "asked"
    /\ state[a] # "new"
    /\ IdOf[a] = IdOf[c]
    /\ \A d \in Requests : answer[d] # a
    /\ state' = [state EXCEPT ![c] = "answered"]
    /\ answer' = [answer EXCEPT ![c] = a]

\* The end of the agent, a timeout, a failed write, or a client that went away.
Fail(c) ==
    /\ state[c] = "asked"
    /\ state' = [state EXCEPT ![c] = "failed"]
    /\ UNCHANGED answer

PromiseNext == \E c \in Requests :
    \/ Ask(c)
    \/ \E a \in Requests : Answer(c, a)
    \/ Fail(c)

PromiseSpec == PromiseInit /\ [][PromiseNext]_promiseVars
=============================================================================
