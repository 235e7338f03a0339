---------------------------- MODULE SdkSessions ----------------------------
(***************************************************************************)
(* The sessions of the TypeScript SDK: SandboxAgent, LiveAcpConnection and *)
(* the store of session records, of sdks/typescript/src/client.ts and      *)
(* types.ts, for the sessions of one agent.                                *)
(*                                                                         *)
(* A session outlives the connection it was made on: its record names the  *)
(* agent's session and the connection, and a call that finds that pair     *)
(* stale makes a new session at the agent and hands it the history with    *)
(* the next prompt.  Calls interleave at every await.  What happens        *)
(* between two awaits is one step; an envelope is observed (Emit) some     *)
(* microtasks after its request was made, and before the next network      *)
(* event.  The transport is AcpHttpClient, the agent answers or refuses.   *)
(***************************************************************************)
EXTENDS Naturals, Sequences, FiniteSets

CONSTANTS
    Sessions,       \* local session ids
    Calls,          \* calls of the application
    Jobs,           \* what the calls may be: a set of functions on Calls
    Stored,         \* sessions the store knows from an earlier connection
    Listening,      \* sessions with a permission listener
    None,
    MaxConnections, \* bound on connections; later ones are refused
    MaxRemote,      \* sessions the agent makes; it refuses later ones
    MaxAsks,        \* bound on permissions the agent asks for
    MaxBreaks       \* bound on connections that fail

CallKinds == {"create", "prompt", "resume", "destroy", "dispose", "none"}

Record == [agentSessionId : Nat, connection : Nat, destroyed : BOOLEAN]

ASSUME SdkAssumption ==
    /\ Stored \subseteq Sessions /\ Listening \subseteq Sessions
    /\ Jobs \subseteq [Calls -> [kind : CallKinds, session : Sessions]]
    /\ None \notin Sessions /\ None \notin Record
    /\ MaxConnections \in Nat \ {0} /\ MaxRemote \in Nat /\ MaxBreaks \in Nat
    /\ MaxAsks \in Nat

VARIABLES
    job,            \* what each call is; never changes
    store,          \* the records of the persist driver
    call,           \* where each call is
    live,           \* liveConnections: 0 or a connection
    opening,        \* pendingLiveConnections: 0 or a connection
    conn,           \* conn[k]: the k-th connection
    out,            \* session/new requests not yet written
    attributed,     \* the session a call's session/new envelope was logged under
    remote,         \* the agent's sessions, and the prompts each was given
    permission,     \* the permission request of a prompt
    dispose,        \* what each dispose() holds
    breaks,
    alone           \* alone[c]: no call on c's session overlapped c

callVars == <<store, call, remote>>
connVars == <<live, opening, conn, breaks>>
wireVars == <<out, attributed>>
sdkVars == <<job, callVars, connVars, wireVars, permission, dispose, alone>>

CallPlaces == {"idle", "reading", "connecting", "joining", "collecting", "creating",
           "writing", "binding", "sent", "noting", "marking", "settling", "closing",
           "done", "failed"}

Call == [pc : CallPlaces, record : Record \cup {None}, k : Nat, resuming : BOOLEAN]

\* A connection that could not be made: its transport ended, or it is orphaned,
\* with its transport open and nobody who knows of it.
Unmade == {"failed", "orphaned"}

Connection == [state : Unmade \cup {"opening", "open", "broken", "closed"},
               result : Nat, bound : [Sessions -> Nat],
               replay : [Sessions -> BOOLEAN], pendingNew : Seq(Sessions)]

SdkTypeOK ==
    /\ job \in Jobs
    /\ store \in [Sessions -> Record \cup {None}]
    /\ call \in [Calls -> Call]
    /\ conn \in Seq(Connection)
    /\ live \in 0 .. Len(conn) /\ opening \in 0 .. Len(conn)
    /\ out \in Seq(Calls)
    /\ attributed \in [Calls -> Sessions \cup {None}]
    /\ remote \in Seq([local : Sessions, k : Nat, restored : BOOLEAN,
                       prompts : Seq(BOOLEAN)])
    /\ permission \in [Calls -> {"none", "pending", "settled"}]
    /\ dispose \in [Calls -> [taken : SUBSET (1 .. MaxConnections),
                              pending : 0 .. MaxConnections, before : 0 .. MaxConnections]]
    /\ breaks \in 0 .. MaxBreaks
    /\ alone \in [Calls -> BOOLEAN]

S(c)       == job[c].session
Kind(c)    == job[c].kind
At(c, pc)  == call[c].pc = pc
Settled(c) == call[c].pc \in {"done", "failed"}
Active(c)  == ~Settled(c) /\ ~At(c, "idle")
Goto(c, pc) == call' = [call EXCEPT ![c].pc = pc]

\* What a rejected await does to a call: destroySession takes no notice of a
\* cancel that could not be sent, every other call rejects.
Rejected(c) == Goto(c, IF Kind(c) = "destroy" THEN "noting" ELSE "failed")

SdkInit ==
    /\ job \in Jobs
    /\ store = [s \in Sessions |->
                  IF s \in Stored
                  THEN [agentSessionId |-> 0, connection |-> 0, destroyed |-> FALSE]
                  ELSE None]
    /\ call = [c \in Calls |-> [pc |-> "idle", record |-> None, k |-> 0, resuming |-> FALSE]]
    /\ live = 0 /\ opening = 0 /\ conn = <<>>
    /\ out = <<>>
    /\ attributed = [c \in Calls |-> S(c)]
    /\ remote = <<>>
    /\ permission = [c \in Calls |-> "none"]
    /\ dispose = [c \in Calls |-> [taken |-> {}, pending |-> 0, before |-> 0]]
    /\ breaks = 0
    /\ alone = [c \in Calls |-> TRUE]

-----------------------------------------------------------------------------
(* Where a call begins *)

\* The calls on the session of c that are under way.
Others(c) == {d \in Calls \ {c} : S(d) = S(c) /\ Kind(d) # "dispose" /\ Active(d)}

Noticed(c) ==
    alone' = [d \in Calls |-> IF d = c THEN alone[d] /\ Others(c) = {}
                              ELSE alone[d] /\ d \notin Others(c)]

\* cancelPendingPermissionsForSession, and the same loop of dispose.
Cancelled(sessions) ==
    permission' = [c \in Calls |-> IF permission[c] = "pending" /\ S(c) \in sessions
                                   THEN "settled" ELSE permission[c]]

StartCreate(c) ==
    /\ At(c, "idle") /\ Kind(c) = "create" /\ store[S(c)] = None
    /\ Goto(c, "connecting")
    /\ Noticed(c)
    /\ UNCHANGED <<job, store, remote, connVars, wireVars, permission, dispose>>

\* prompt and resumeSession read the record first.
StartSend(c) ==
    /\ At(c, "idle") /\ Kind(c) \in {"prompt", "resume"}
    /\ call' = [call EXCEPT ![c].pc = "reading", ![c].resuming = Kind(c) = "resume"]
    /\ Noticed(c)
    /\ UNCHANGED <<job, store, remote, connVars, wireVars, permission, dispose>>

StartDestroy(c) ==
    /\ At(c, "idle") /\ Kind(c) = "destroy"
    /\ Cancelled({S(c)})
    /\ Goto(c, "reading")
    /\ Noticed(c)
    /\ UNCHANGED <<job, store, remote, connVars, wireVars, dispose>>

\* dispose() empties the maps at once, then waits for the connections that are
\* still being made.
StartDispose(c) ==
    /\ At(c, "idle") /\ Kind(c) = "dispose"
    /\ Cancelled(Sessions)
    /\ dispose' = [dispose EXCEPT ![c] = [taken |-> {live} \ {0}, pending |-> opening,
                                          before |-> Len(conn)]]
    /\ live' = 0 /\ opening' = 0
    /\ Goto(c, "settling")
    /\ UNCHANGED <<job, store, remote, conn, breaks, wireVars, alone>>

-----------------------------------------------------------------------------
(* The connection *)

\* persist.getSession of sendSessionMethodInternal and of resumeSession.
Read(c) ==
    /\ At(c, "reading")
    /\ IF store[S(c)] = None
       THEN Rejected(c)
       ELSE call' = [call EXCEPT ![c].pc = "connecting", ![c].record = store[S(c)]]
    /\ UNCHANGED <<job, store, remote, connVars, wireVars, permission, dispose, alone>>

\* hasBoundSession
HasBound(c, k) ==
    /\ conn[k].bound[S(c)] # 0
    /\ conn[k].bound[S(c)] = call[c].record.agentSessionId

\* The local session is put in front of those that wait.
AskNewFirst(c, k) ==
    /\ call' = [call EXCEPT ![c].pc = "creating", ![c].k = k]
    /\ conn' = [conn EXCEPT ![k].pendingNew = <<S(c)>> \o @]
    /\ out' = Append(out, c)
    /\ UNCHANGED <<remote, permission>>

\* createRemoteSession, up to its request.
AskNew(c, k) ==
    /\ call' = [call EXCEPT ![c].pc = "creating", ![c].k = k]
    /\ conn' = [conn EXCEPT ![k].pendingNew = Append(@, S(c))]
    /\ out' = Append(out, c)
    /\ UNCHANGED <<remote, permission>>

\* The replay is not taken off the queue.
SendMethodKeeping(c, k) ==
    LET a == conn[k].bound[S(c)] IN
    /\ UNCHANGED <<out, conn, permission>>
    /\ IF conn[k].state = "open" /\ Kind(c) = "prompt"
       THEN /\ remote' = [remote EXCEPT ![a].prompts = Append(@, conn[k].replay[S(c)])]
            /\ call' = [call EXCEPT ![c].pc = "sent", ![c].k = k]
       ELSE Rejected(c) /\ UNCHANGED remote

\* sendSessionMethod: a prompt takes the replay with it.
SendMethod(c, k) ==
    LET a == conn[k].bound[S(c)] IN
    /\ UNCHANGED out
    /\ IF conn[k].state # "open"
       THEN Rejected(c) /\ UNCHANGED <<remote, conn, permission>>
       ELSE IF Kind(c) = "prompt"
       THEN /\ remote' = [remote EXCEPT ![a].prompts = Append(@, conn[k].replay[S(c)])]
            /\ conn' = [conn EXCEPT ![k].replay[S(c)] = FALSE]
            /\ call' = [call EXCEPT ![c].pc = "sent", ![c].k = k]
            /\ UNCHANGED permission
       ELSE /\ call' = [call EXCEPT ![c].pc = "noting", ![c].k = k]
            /\ UNCHANGED <<remote, conn, permission>>

\* What a call does once it has the connection k: create; send if the session is
\* bound, else resume; resume if the record is stale, else go on.
Proceed(c, k) ==
    IF Kind(c) = "create" THEN AskNew(c, k)
    ELSE IF call[c].resuming
    THEN /\ IF HasBound(c, k) /\ call[c].record.connection = k
            THEN IF Kind(c) = "resume" THEN Goto(c, "done")
                 ELSE call' = [call EXCEPT ![c].pc = "reading", ![c].resuming = FALSE]
            ELSE call' = [call EXCEPT ![c].pc = "collecting", ![c].k = k]
         /\ UNCHANGED <<conn, out, remote, permission>>
    ELSE IF HasBound(c, k) THEN SendMethod(c, k)
    ELSE /\ call' = [call EXCEPT ![c].pc = "reading", ![c].resuming = TRUE]
         /\ UNCHANGED <<conn, out, remote, permission>>

\* getLiveConnection: the live one, the one being made, or a new one.
GetLiveConnection(c) ==
    /\ At(c, "connecting")
    /\ IF live # 0
       THEN Proceed(c, live) /\ UNCHANGED opening
       ELSE /\ UNCHANGED <<out, remote, permission>>
            /\ IF opening # 0
               THEN /\ call' = [call EXCEPT ![c].pc = "joining", ![c].k = opening]
                    /\ UNCHANGED <<opening, conn>>
               ELSE IF Len(conn) = MaxConnections
               THEN Rejected(c) /\ UNCHANGED <<opening, conn>>
               ELSE /\ conn' = Append(conn, [state |-> "opening", result |-> 0,
                                             bound |-> [s \in Sessions |-> 0],
                                             replay |-> [s \in Sessions |-> FALSE],
                                             pendingNew |-> <<>>])
                    /\ opening' = Len(conn) + 1
                    /\ call' = [call EXCEPT ![c].pc = "joining", ![c].k = Len(conn) + 1]
    /\ UNCHANGED <<job, store, live, breaks, attributed, dispose, alone>>

\* LiveAcpConnection.create returns: another connection may have been set in the
\* meantime, after a dispose() that forgot this one.
ConnectionOpens(k) ==
    /\ conn[k].state = "opening"
    /\ IF live # 0
       THEN /\ conn' = [conn EXCEPT ![k].state = "closed", ![k].result = live]
            /\ UNCHANGED live
       ELSE /\ conn' = [conn EXCEPT ![k].state = "open", ![k].result = k]
            /\ live' = k
    /\ opening' = IF opening = k THEN 0 ELSE opening
    /\ UNCHANGED <<job, callVars, breaks, wireVars, permission, dispose, alone>>

\* initialize rejects: the transport failed, or the agent answered with an error.
\* Then nothing disconnects the AcpHttpClient of create().
ConnectionFails(k) ==
    /\ conn[k].state = "opening"
    /\ breaks < MaxBreaks
    /\ breaks' = breaks + 1
    /\ \E state \in Unmade : conn' = [conn EXCEPT ![k].state = state]
    /\ opening' = IF opening = k THEN 0 ELSE opening
    /\ UNCHANGED <<job, callVars, live, wireVars, permission, dispose, alone>>

Joined(c) ==
    /\ At(c, "joining")
    /\ conn[call[c].k].state # "opening"
    /\ IF conn[call[c].k].state \in Unmade
       THEN Rejected(c) /\ UNCHANGED <<conn, out, remote, permission>>
       ELSE Proceed(c, conn[call[c].k].result)
    /\ UNCHANGED <<job, store, live, opening, breaks, attributed, dispose, alone>>

\* A POST or the stream fails; liveConnections keeps the connection.
ConnectionBreaks(k) ==
    /\ conn[k].state = "open"
    /\ breaks < MaxBreaks
    /\ breaks' = breaks + 1
    /\ conn' = [conn EXCEPT ![k].state = "broken"]
    /\ UNCHANGED <<job, callVars, live, opening, wireVars, permission, dispose, alone>>

-----------------------------------------------------------------------------
(* A new session at the agent *)

\* collectReplayEvents reads the history; then session/new is sent.
CollectReplay(c) ==
    /\ At(c, "collecting")
    /\ AskNew(c, call[c].k)
    /\ UNCHANGED <<job, store, live, opening, breaks, attributed, dispose, alone>>

\* Q without its first s: the splice of createRemoteSession's catch.
Splice(Q, s) ==
    IF \E i \in 1 .. Len(Q) : Q[i] = s
    THEN LET i == CHOOSE i \in 1 .. Len(Q) : Q[i] = s /\ \A j \in 1 .. i - 1 : Q[j] # s
         IN  SubSeq(Q, 1, i - 1) \o SubSeq(Q, i + 1, Len(Q))
    ELSE Q

\* The request is written and observed: resolveSessionId logs it under the first
\* local session that waits for one.  A transport that has closed rejects it.
Emit ==
    /\ out # <<>>
    /\ LET c == Head(out)
           k == call[c].k
           Q == conn[k].pendingNew
       IN  IF conn[k].state = "open"
           THEN /\ attributed' = [attributed EXCEPT ![c] = IF Q = <<>> THEN None ELSE Head(Q)]
                /\ conn' = [conn EXCEPT ![k].pendingNew = IF Q = <<>> THEN Q ELSE Tail(Q)]
                /\ UNCHANGED call
           ELSE /\ conn' = [conn EXCEPT ![k].pendingNew = Splice(Q, S(c))]
                /\ Rejected(c)
                /\ UNCHANGED attributed
    /\ out' = Tail(out)
    /\ UNCHANGED <<job, store, remote, live, opening, breaks, permission, dispose, alone>>

\* The response binds the session it was logged under, then createRemoteSession
\* binds its own.
NewSessionAnswered(c) ==
    LET k == call[c].k
        a == Len(remote) + 1
        s == attributed[c]
        named == IF s = None THEN conn[k].bound ELSE [conn[k].bound EXCEPT ![s] = a]
    IN
    /\ At(c, "creating") /\ out = <<>> /\ conn[k].state = "open"
    /\ Len(remote) < MaxRemote
    /\ remote' = Append(remote, [local |-> S(c), k |-> k, restored |-> Kind(c) # "create",
                                 prompts |-> <<>>])
    /\ conn' = [conn EXCEPT ![k].bound = [named EXCEPT ![S(c)] = a]]
    /\ call' = [call EXCEPT ![c].pc = "writing",
                            ![c].record = [agentSessionId |-> a, connection |-> k,
                                           destroyed |-> FALSE]]
    /\ UNCHANGED <<job, store, live, opening, breaks, wireVars, permission, dispose,
                   alone>>

NewSessionRefused(c) ==
    LET k == call[c].k IN
    /\ At(c, "creating") /\ out = <<>> /\ conn[k].state = "open"
    /\ Len(remote) = MaxRemote
    /\ conn' = [conn EXCEPT ![k].pendingNew = Splice(@, S(c))]
    /\ Rejected(c)
    /\ UNCHANGED <<job, store, remote, live, opening, breaks, wireVars, permission,
                   dispose, alone>>

\* persist.updateSession takes effect before its promise is resumed.
WriteRecord(c) ==
    /\ At(c, "writing")
    /\ store' = [store EXCEPT ![S(c)] = call[c].record]
    /\ Goto(c, "binding")
    /\ UNCHANGED <<job, remote, connVars, wireVars, permission, dispose, alone>>

\* bindSession, and queueReplay of a restored session.
Bind(c) ==
    LET k == call[c].k IN
    /\ At(c, "binding")
    /\ conn' = [conn EXCEPT ![k].bound[S(c)] = call[c].record.agentSessionId,
                            ![k].replay[S(c)] = IF Kind(c) = "create" THEN @ ELSE TRUE]
    /\ IF Kind(c) \in {"create", "resume"}
       THEN Goto(c, "done")
       ELSE call' = [call EXCEPT ![c].pc = "reading", ![c].resuming = FALSE]
    /\ UNCHANGED <<job, store, remote, live, opening, breaks, wireVars, permission,
                   dispose, alone>>

-----------------------------------------------------------------------------
(* What the agent answers *)

\* The request waits for an answer although nobody listens.
PermissionRequestedUnheard(c) ==
    /\ At(c, "sent") /\ out = <<>> /\ conn[call[c].k].state = "open"
    /\ permission[c] = "none"
    /\ Cardinality({d \in Calls : permission[d] # "none"}) < MaxAsks
    /\ permission' = [permission EXCEPT ![c] = "pending"]
    /\ UNCHANGED <<job, callVars, connVars, wireVars, dispose, alone>>

\* handlePermissionRequest and enqueuePermissionRequest: without a listener the
\* request is cancelled at once.
PermissionRequested(c) ==
    /\ At(c, "sent") /\ out = <<>> /\ conn[call[c].k].state = "open"
    /\ permission[c] = "none"
    /\ Cardinality({d \in Calls : permission[d] # "none"}) < MaxAsks
    /\ permission' = [permission EXCEPT ![c] = IF S(c) \in Listening THEN "pending"
                                               ELSE "settled"]
    /\ UNCHANGED <<job, callVars, connVars, wireVars, dispose, alone>>

\* respondPermission of the application.
RespondPermission(c) ==
    /\ permission[c] = "pending" /\ S(c) \in Listening
    /\ permission' = [permission EXCEPT ![c] = "settled"]
    /\ UNCHANGED <<job, callVars, connVars, wireVars, dispose, alone>>

PromptAnswered(c) ==
    /\ At(c, "sent") /\ out = <<>> /\ conn[call[c].k].state = "open"
    /\ permission[c] # "pending"
    /\ Goto(c, "done")
    /\ UNCHANGED <<job, store, remote, connVars, wireVars, permission, dispose, alone>>

\* The ACP connection rejects what was still asked when its stream ended.
ConnectionLost(c) ==
    /\ call[c].pc \in {"creating", "sent"}
    /\ \A i \in 1 .. Len(out) : out[i] # c
    /\ conn[call[c].k].state # "open"
    /\ Rejected(c)
    /\ UNCHANGED <<job, store, remote, connVars, wireVars, permission, dispose, alone>>

-----------------------------------------------------------------------------
(* The ends of destroySession and of dispose *)

\* requireSessionRecord, after the cancel.
ReadToDestroy(c) ==
    /\ At(c, "noting")
    /\ IF store[S(c)] = None
       THEN Goto(c, "failed")
       ELSE call' = [call EXCEPT ![c].pc = "marking",
                                 ![c].record = [store[S(c)] EXCEPT !.destroyed = TRUE]]
    /\ UNCHANGED <<job, store, remote, connVars, wireVars, permission, dispose, alone>>

MarkDestroyed(c) ==
    /\ At(c, "marking")
    /\ store' = [store EXCEPT ![S(c)] = call[c].record]
    /\ Goto(c, "done")
    /\ UNCHANGED <<job, remote, connVars, wireVars, permission, dispose, alone>>

\* Connections that open after dispose() was called are forgotten.
PendingForgotten(c) ==
    /\ At(c, "settling")
    /\ dispose[c].pending # 0 => conn[dispose[c].pending].state # "opening"
    /\ Goto(c, "closing")
    /\ UNCHANGED <<job, store, remote, connVars, wireVars, permission, dispose, alone>>

\* Promise.allSettled of the connections that were being made.
PendingSettled(c) ==
    LET k == dispose[c].pending IN
    /\ At(c, "settling")
    /\ k # 0 => conn[k].state # "opening"
    /\ dispose' = [dispose EXCEPT ![c].taken = IF k # 0 /\ conn[k].state \notin Unmade
                                               THEN @ \cup {conn[k].result} ELSE @]
    /\ Goto(c, "closing")
    /\ UNCHANGED <<job, store, remote, connVars, wireVars, permission, alone>>

CloseConnections(c) ==
    /\ At(c, "closing")
    /\ conn' = [k \in 1 .. Len(conn) |->
                  IF k \in dispose[c].taken /\ conn[k].state = "open"
                  THEN [conn[k] EXCEPT !.state = "closed"] ELSE conn[k]]
    /\ Goto(c, "done")
    /\ UNCHANGED <<job, store, remote, live, opening, breaks, wireVars, permission,
                   dispose, alone>>

-----------------------------------------------------------------------------
Runs(c) ==
    \/ Read(c) \/ GetLiveConnection(c) \/ Joined(c) \/ CollectReplay(c)
    \/ WriteRecord(c) \/ Bind(c) \/ ReadToDestroy(c) \/ MarkDestroyed(c)
    \/ PendingSettled(c) \/ CloseConnections(c)

Answers(c) == NewSessionAnswered(c) \/ NewSessionRefused(c) \/ PromptAnswered(c)

SdkNext ==
    \/ \E c \in Calls :
          \/ StartCreate(c) \/ StartSend(c) \/ StartDestroy(c) \/ StartDispose(c)
          \/ Runs(c) \/ Answers(c)
          \/ PermissionRequested(c) \/ RespondPermission(c) \/ ConnectionLost(c)
    \/ \E k \in 1 .. Len(conn) :
          ConnectionOpens(k) \/ ConnectionFails(k) \/ ConnectionBreaks(k)
    \/ Emit

\* A promise that is settled resumes its caller, the agent answers what it was
\* asked, and an attempt to connect ends.  The application need not answer a
\* permission request, and what a closed connection still owes may never come.
SdkFairness ==
    /\ \A c \in Calls : WF_sdkVars(Runs(c)) /\ WF_sdkVars(Answers(c))
    /\ \A k \in 1 .. MaxConnections :
          WF_sdkVars(k <= Len(conn) /\ (ConnectionOpens(k) \/ ConnectionFails(k)))
    /\ WF_sdkVars(Emit)

SdkSpec == SdkInit /\ [][SdkNext]_sdkVars /\ SdkFairness

-----------------------------------------------------------------------------
(* Properties *)

\* The envelope of a session/new is logged under the session it was sent for, and
\* not under another one that waits for its own, although requests carry no local
\* id and two sessions may be made at once.
LoggedUnderItsSession == \A c \in Calls : attributed[c] = S(c)

\* The first prompt to a session made in place of a lost one carries the history,
\* no later one does, and none to a session that is new; as long as no two calls
\* on the session overlapped.
ReplayFirst ==
    \A i \in 1 .. Len(remote) :
        LET r == remote[i] IN
        (\A c \in Calls : S(c) = r.local => alone[c])
        => \A n \in 1 .. Len(r.prompts) : r.prompts[n] = (r.restored /\ n = 1)

\* When dispose() has returned, and no other dispose() is still at work on what it
\* took first, every connection that was there or was being made when it was called
\* is closed or ended by itself, but for those whose initialize was refused: of these
\* nobody closes the transport (orphaned).
NothingLeftOpen ==
    \A c \in Calls :
        /\ Kind(c) = "dispose" /\ At(c, "done")
        /\ \A d \in Calls : Kind(d) = "dispose" => ~Active(d)
        => \A k \in 1 .. dispose[c].before :
              conn[k].state \in {"closed", "broken"} \cup Unmade

\* A call waits on its own account only for the application, which has been asked
\* for a permission, or for a connection that is gone.
Waits(c) ==
    /\ call[c].pc \in {"creating", "sent"}
    /\ \/ conn[call[c].k].state # "open"
       \/ permission[c] = "pending" /\ S(c) \in Listening

\* Every call ends once no other call on its session is under way, whatever those
\* that overlapped left in the record and the binding.  While others are, it may
\* restore the session against them for ever.
CallsSettle ==
    \A c \in Calls :
        (Active(c) /\ Others(c) = {}) ~> (Settled(c) \/ Waits(c) \/ Others(c) # {})
=============================================================================
