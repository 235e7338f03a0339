--------------------------- MODULE AdapterRuntime ---------------------------
(***************************************************************************)
(* One agent subprocess behind HTTP: AdapterRuntime of                     *)
(* server/packages/acp-http-adapter/src/process.rs.  HTTP handlers post    *)
(* JSON-RPC envelopes, the stdout loop routes responses to the handlers    *)
(* that wait for them and publishes every line on the event stream         *)
(* (EventStream), the exit watcher reports the end of the agent, and       *)
(* shutdown kills it.                                                      *)
(*                                                                         *)
(* The mutexes that order these tasks are explicit: the one around stdin   *)
(* (held across a whole write), the one around pending (held by the stdout *)
(* loop from the removal of an entry to the end of the broadcast) and the  *)
(* one around the child (held by the exit watcher while it waits).         *)
(***************************************************************************)
EXTENDS EventStream

CONSTANTS
    Requests,    \* posts of an envelope with a method and an id
    Notices,     \* posts of an envelope that expects no answer
    Ids,         \* JSON-RPC ids
    IdOf,        \* IdOf[c]: the id of request c, chosen by the client
    Closers,     \* calls of shutdown
    Stdout,      \* the stdout loop, as a publisher
    Watcher,     \* the exit watcher, as a publisher and a lock owner
    Nobody,      \* no owner, no entry
    PipeSize,    \* bound: lines in the stdin pipe, and in the stdout pipe
    MaxNotes,    \* bound: lines the agent prints that answer nothing
    Scenarios    \* bound: the sets of handlers called in one behaviour, of all
                 \* kinds; Nobody stands for lines printed unasked

Posts == Requests \cup Notices

ASSUME NamesAssumption ==
    /\ IdOf \in [Requests -> Ids]
    /\ Requests \cap Notices = {}
    /\ Nobody \notin Posts \cup Closers \cup {Watcher}
    /\ Watcher \notin Posts \cup Closers
    /\ Posts \cap Closers = {}
    /\ {Stdout, Watcher} \cup Injectors = Producers
    /\ Stdout # Watcher
    /\ {Stdout, Watcher} \cap Injectors = {}

VARIABLES
    at,           \* at[c]: the point of post() handler c is at
    outcome,      \* outcome[c]: what post c returns
    channel,      \* channel[c]: the oneshot channel of request c
    reply,        \* reply[c]: the request whose answer went through that channel
    pending,      \* pending[id]: the request whose sender is registered, or Nobody
    routing,      \* the stdout loop holds the pending mutex
    stdin,        \* owner of the stdin mutex
    line,         \* posts whose bytes are on the line not terminated yet
    pipe,         \* the terminated lines the agent has not read
    working,      \* requests the agent has read and not answered
    stdout,       \* lines the agent printed: a request it answers, or Nobody
    notes,        \* lines printed so far that answer nothing
    agent,        \* the subprocess; "killed": SIGKILL sent, not dead yet
    child,        \* owner of the child mutex
    watcher,      \* the exit watcher
    closing,      \* closing[k]: where shutdown call k is
    shuttingDown

postVars  == <<at, outcome, channel, reply, pending>>
pipeVars  == <<stdin, line, pipe>>
agentVars == <<working, stdout, notes, agent>>
childVars == <<child, watcher, closing, shuttingDown>>
vars == <<postVars, pipeVars, agentVars, childVars, routing, streamVars>>

TypeOK ==
    /\ StreamTypeOK
    /\ at \in [Posts -> {"idle", "register", "lock", "body", "newline", "wait",
                         "unregister", "exitinfo", "done", "gone"}]
    /\ outcome \in [Posts -> {"none", "accepted", "response", "write", "timeout", "exited"}]
    /\ channel \in [Requests -> {"none", "open", "sent", "dropped", "closed"}]
    /\ reply \in [Requests -> Requests \cup {Nobody}]
    /\ pending \in [Ids -> Requests \cup {Nobody}]
    /\ routing \in BOOLEAN
    /\ stdin \in Posts \cup {Nobody}
    /\ line \in Seq(Posts)
    /\ pipe \in Seq(Seq(Posts))
    /\ working \subseteq Requests
    /\ stdout \in Seq(Requests \cup {Nobody})
    /\ notes \in Nat
    /\ agent \in {"running", "killed", "exited"}
    /\ child \in {Watcher, Nobody} \cup Closers
    /\ watcher \in {"start", "waiting", "report", "done"}
    /\ closing \in [Closers -> {"idle", "clear", "child", "kill", "done", "skipped", "gone"}]
    /\ shuttingDown \in BOOLEAN

Init ==
    /\ StreamInit
    /\ at = [c \in Posts |-> "idle"]
    /\ outcome = [c \in Posts |-> "none"]
    /\ channel = [c \in Requests |-> "none"]
    /\ reply = [c \in Requests |-> Nobody]
    /\ pending = [i \in Ids |-> Nobody]
    /\ routing = FALSE
    /\ stdin = Nobody
    /\ line = <<>>
    /\ pipe = <<>>
    /\ working = {}
    /\ stdout = <<>>
    /\ notes = 0
    /\ agent = "running"
    /\ child = Nobody
    /\ watcher = "start"
    /\ closing = [k \in Closers |-> "idle"]
    /\ shuttingDown = FALSE

-----------------------------------------------------------------------------
(* post().                                                                  *)

\* Variant: the entries go, the receivers are not told.
DropSendersQuietly(S) ==
    /\ pending' = [i \in Ids |-> IF i \in S THEN Nobody ELSE pending[i]]
    /\ UNCHANGED channel

\* The entries of the ids in S lose their sender: a receiver that still
\* listens learns that its channel is gone.
DropSenders(S) ==
    /\ pending' = [i \in Ids |-> IF i \in S THEN Nobody ELSE pending[i]]
    /\ channel' = [c \in Requests |->
                     IF (\E i \in S : pending[i] = c) /\ channel[c] = "open"
                     THEN "dropped" ELSE channel[c]]

Goto(c, place) == at' = [at EXCEPT ![c] = place]

Return(c, result) ==
    /\ Goto(c, "done")
    /\ outcome' = [outcome EXCEPT ![c] = result]

\* Bound: handler c runs beside those that have been called.
Called ==
    {c \in Posts : at[c] # "idle"} \cup {k \in Closers : closing[k] # "idle"}
    \cup {c \in Subscribers : connects[c] > 0}
    \cup {p \in Injectors : publishing[p].sequence > 0}
    \cup {c \in {Nobody} : notes > 0}

Room(c) == \E S \in Scenarios : Called \cup {c} \subseteq S

PostRequest(c) ==
    /\ at[c] = "idle"
    /\ Room(c)
    /\ Goto(c, "register")
    /\ UNCHANGED <<outcome, channel, reply, pending, pipeVars, agentVars, childVars,
                   routing, streamVars>>

PostNotice(c) ==
    /\ at[c] = "idle"
    /\ Room(c)
    /\ Goto(c, "lock")
    /\ UNCHANGED <<outcome, channel, reply, pending, pipeVars, agentVars, childVars,
                   routing, streamVars>>

\* pending.insert: an entry another request left under the same id is replaced,
\* its sender dropped.
Register(c) ==
    /\ at[c] = "register"
    /\ ~routing
    /\ Goto(c, "lock")
    /\ pending' = [pending EXCEPT ![IdOf[c]] = c]
    /\ channel' = [d \in Requests |->
                     IF d = c THEN "open"
                     ELSE IF d = pending[IdOf[c]] /\ channel[d] = "open" THEN "dropped"
                     ELSE channel[d]]
    /\ UNCHANGED <<outcome, reply, pipeVars, agentVars, childVars, routing, streamVars>>

LockStdin(c) ==
    /\ at[c] = "lock"
    /\ stdin = Nobody
    /\ stdin' = c
    /\ Goto(c, "body")
    /\ UNCHANGED <<outcome, channel, reply, pending, line, pipe, agentVars, childVars,
                   routing, streamVars>>

\* write_all of the serialized envelope blocks while the pipe is full.
WriteBody(c) ==
    /\ at[c] = "body"
    /\ agent # "exited"
    /\ Len(pipe) < PipeSize
    /\ line' = Append(line, c)
    /\ Goto(c, "newline")
    /\ UNCHANGED <<outcome, channel, reply, pending, stdin, pipe, agentVars, childVars,
                   routing, streamVars>>

WriteNewline(c) ==
    /\ at[c] = "newline"
    /\ agent # "exited"
    /\ pipe' = Append(pipe, line)
    /\ line' = <<>>
    /\ stdin' = Nobody
    /\ IF c \in Requests
       THEN Goto(c, "wait") /\ UNCHANGED outcome
       ELSE Return(c, "accepted")
    /\ UNCHANGED <<channel, reply, pending, agentVars, childVars, routing, streamVars>>

\* The agent is gone: the write ends with a broken pipe.
WriteFails(c) ==
    /\ at[c] \in {"body", "newline"}
    /\ agent = "exited"
    /\ stdin' = Nobody
    /\ outcome' = [outcome EXCEPT ![c] = "write"]
    /\ Goto(c, IF c \in Requests THEN "unregister" ELSE "done")
    /\ UNCHANGED <<channel, reply, pending, line, pipe, agentVars, childVars,
                   routing, streamVars>>

\* The three ends of timeout(request_timeout, rx).
ReceiveReply(c) ==
    /\ at[c] = "wait"
    /\ channel[c] = "sent"
    /\ Return(c, "response")
    /\ UNCHANGED <<channel, reply, pending, pipeVars, agentVars, childVars,
                   routing, streamVars>>

\* Variant: a dropped sender taken for a response.
SenderDroppedOk(c) ==
    /\ at[c] = "wait"
    /\ channel[c] = "dropped"
    /\ Return(c, "response")
    /\ UNCHANGED <<channel, reply, pending, pipeVars, agentVars, childVars,
                   routing, streamVars>>

SenderDropped(c) ==
    /\ at[c] = "wait"
    /\ channel[c] = "dropped"
    /\ outcome' = [outcome EXCEPT ![c] = "timeout"]
    /\ Goto(c, "unregister")
    /\ UNCHANGED <<channel, reply, pending, pipeVars, agentVars, childVars,
                   routing, streamVars>>

TimeoutElapsed(c) ==
    /\ at[c] = "wait"
    /\ channel[c] = "open"
    /\ outcome' = [outcome EXCEPT ![c] = "timeout"]
    /\ channel' = [channel EXCEPT ![c] = "closed"]
    /\ Goto(c, "unregister")
    /\ UNCHANGED <<reply, pending, pipeVars, agentVars, childVars, routing, streamVars>>

\* pending.remove(&key): whoever is registered under the id loses its entry.
Unregister(c) ==
    /\ at[c] = "unregister"
    /\ ~routing
    /\ DropSenders({IdOf[c]})
    /\ Goto(c, "exitinfo")
    /\ UNCHANGED <<outcome, reply, pipeVars, agentVars, childVars, routing, streamVars>>

\* try_process_exit_info(): waits for the child mutex, then prefers the exit of
\* the agent to the error at hand.
ExitInfo(c) ==
    /\ at[c] = "exitinfo"
    /\ child = Nobody
    /\ Return(c, IF agent = "exited" THEN "exited" ELSE outcome[c])
    /\ UNCHANGED <<channel, reply, pending, pipeVars, agentVars, childVars,
                   routing, streamVars>>

\* The client goes away and the handler's future is dropped where it stands: its
\* receiver and the stdin mutex go with it, its entry in pending stays.
Cancel(c) ==
    /\ at[c] \notin {"idle", "done", "gone"}
    /\ Goto(c, "gone")
    /\ stdin' = IF stdin = c THEN Nobody ELSE stdin
    /\ channel' = [d \in Requests |-> IF d = c THEN "closed" ELSE channel[d]]
    /\ UNCHANGED <<outcome, reply, pending, line, pipe, agentVars, childVars,
                   routing, streamVars>>

-----------------------------------------------------------------------------
(* The agent, external: it reads lines, answers requests in any order,      *)
(* prints other lines, and may exit.                                        *)

AgentRead ==
    /\ agent = "running"
    /\ pipe # <<>>
    /\ working' = IF Len(Head(pipe)) = 1
                  THEN working \cup ({Head(pipe)[1]} \cap Requests) ELSE working
    /\ pipe' = Tail(pipe)
    /\ UNCHANGED <<postVars, stdin, line, stdout, notes, agent, childVars, routing, streamVars>>

AgentRespond(c) ==
    /\ agent = "running"
    /\ c \in working
    /\ Len(stdout) < PipeSize
    /\ working' = working \ {c}
    /\ stdout' = Append(stdout, c)
    /\ UNCHANGED <<postVars, pipeVars, notes, agent, childVars, routing, streamVars>>

AgentNote ==
    /\ agent = "running"
    /\ notes < MaxNotes /\ Room(Nobody)
    /\ Len(stdout) < PipeSize
    /\ notes' = notes + 1
    /\ stdout' = Append(stdout, Nobody)
    /\ UNCHANGED <<postVars, pipeVars, working, agent, childVars, routing, streamVars>>

AgentExit ==
    /\ agent # "exited"
    /\ agent' = "exited"
    /\ UNCHANGED <<postVars, pipeVars, working, stdout, notes, childVars, routing, streamVars>>

-----------------------------------------------------------------------------
(* The stdout loop.                                                         *)

\* Variant: a response given to whoever waits.
RouteResponseAny(c) ==
    /\ stdout # <<>>
    /\ Head(stdout) = c
    /\ \E i \in Ids :
        /\ pending[i] # Nobody
        /\ channel' = [channel EXCEPT ![pending[i]] = IF @ = "open" THEN "sent" ELSE @]
        /\ reply' = [reply EXCEPT ![pending[i]] = c]
        /\ pending' = [pending EXCEPT ![i] = Nobody]
    /\ stdout' = Tail(stdout)
    /\ FetchAdd(Stdout)
    /\ routing' = TRUE
    /\ UNCHANGED <<at, outcome, pipeVars, working, notes, agent, childVars>>

\* A response with an entry in pending: the waiting handler gets it first, then
\* it is published, the pending mutex held until the broadcast is over.
RouteResponse(c) ==
    /\ stdout # <<>>
    /\ Head(stdout) = c
    /\ pending[IdOf[c]] # Nobody
    /\ LET owner == pending[IdOf[c]]
       IN  IF channel[owner] = "open"
           THEN /\ channel' = [channel EXCEPT ![owner] = "sent"]
                /\ reply' = [reply EXCEPT ![owner] = c]
           ELSE UNCHANGED <<channel, reply>>
    /\ pending' = [pending EXCEPT ![IdOf[c]] = Nobody]
    /\ stdout' = Tail(stdout)
    /\ FetchAdd(Stdout)
    /\ routing' = TRUE
    /\ UNCHANGED <<at, outcome, pipeVars, working, notes, agent, childVars>>

\* Any other line, an orphan response included, is only published.
PublishLine ==
    /\ stdout # <<>>
    /\ Head(stdout) \in Requests => pending[IdOf[Head(stdout)]] = Nobody
    /\ stdout' = Tail(stdout)
    /\ FetchAdd(Stdout)
    /\ UNCHANGED <<postVars, pipeVars, working, notes, agent, childVars, routing>>

\* Variant: sent without having been pushed into the ring.
StdoutSkipsRing ==
    /\ publishing[Stdout].at = "push"
    /\ sender' = Append(sender, Envelope(Stdout))
    /\ publishing' = [publishing EXCEPT ![Stdout].at = "idle"]
    /\ UNCHANGED <<sequence, ring, clientVars, postVars, pipeVars, agentVars, childVars,
                   routing>>

StdoutPush ==
    /\ PushRing(Stdout)
    /\ UNCHANGED <<postVars, pipeVars, agentVars, childVars, routing>>

StdoutBroadcast ==
    /\ Broadcast(Stdout)
    /\ routing' = FALSE
    /\ UNCHANGED <<postVars, pipeVars, agentVars, childVars>>

StdoutLoop ==
    \/ \E c \in Requests : RouteResponse(c)
    \/ PublishLine
    \/ StdoutPush
    \/ StdoutBroadcast

-----------------------------------------------------------------------------
(* The exit watcher.                                                        *)

WatchChild ==
    /\ watcher = "start"
    /\ child = Nobody
    /\ child' = Watcher
    /\ watcher' = "waiting"
    /\ UNCHANGED <<postVars, pipeVars, agentVars, closing, shuttingDown, routing, streamVars>>

\* Variant: the child mutex is never released.
ReapChildLocked ==
    /\ watcher = "waiting"
    /\ agent = "exited"
    /\ watcher' = "report"
    /\ UNCHANGED <<postVars, pipeVars, agentVars, child, closing, shuttingDown, routing,
                   streamVars>>

ReapChild ==
    /\ watcher = "waiting"
    /\ agent = "exited"
    /\ child' = Nobody
    /\ watcher' = "report"
    /\ UNCHANGED <<postVars, pipeVars, agentVars, closing, shuttingDown, routing, streamVars>>

\* Reads the number of pending requests for the log, then publishes.
ReportExit ==
    /\ watcher = "report"
    /\ ~routing
    /\ watcher' = "done"
    /\ FetchAdd(Watcher)
    /\ UNCHANGED <<postVars, pipeVars, agentVars, child, closing, shuttingDown, routing>>

WatcherPublish ==
    /\ PushRing(Watcher) \/ Broadcast(Watcher)
    /\ UNCHANGED <<postVars, pipeVars, agentVars, childVars, routing>>

ExitWatcher == WatchChild \/ ReapChild \/ ReportExit \/ WatcherPublish

-----------------------------------------------------------------------------
(* shutdown().                                                              *)

\* Only the first call goes on.
BeginShutdown(k) ==
    /\ closing[k] = "idle"
    /\ Room(k)
    /\ closing' = [closing EXCEPT ![k] = IF shuttingDown THEN "skipped" ELSE "clear"]
    /\ shuttingDown' = TRUE
    /\ UNCHANGED <<postVars, pipeVars, agentVars, child, watcher, routing, streamVars>>

ClearPending(k) ==
    /\ closing[k] = "clear"
    /\ ~routing
    /\ DropSenders(Ids)
    /\ closing' = [closing EXCEPT ![k] = "child"]
    /\ UNCHANGED <<at, outcome, reply, pipeVars, agentVars, child, watcher, shuttingDown,
                   routing, streamVars>>

\* try_wait under the child mutex; a running agent is killed and waited for under it.
KillChild(k) ==
    /\ closing[k] = "child"
    /\ child = Nobody
    /\ IF agent = "exited"
       THEN closing' = [closing EXCEPT ![k] = "done"] /\ UNCHANGED <<child, agent>>
       ELSE closing' = [closing EXCEPT ![k] = "kill"] /\ child' = k /\ agent' = "killed"
    /\ UNCHANGED <<postVars, pipeVars, working, stdout, notes, watcher, shuttingDown,
                   routing, streamVars>>

WaitKilled(k) ==
    /\ closing[k] = "kill"
    /\ agent = "exited"
    /\ child' = Nobody
    /\ closing' = [closing EXCEPT ![k] = "done"]
    /\ UNCHANGED <<postVars, pipeVars, agentVars, watcher, shuttingDown, routing, streamVars>>

\* The handler that runs shutdown is dropped with its client.
CancelShutdown(k) ==
    /\ closing[k] \in {"clear", "child", "kill"}
    /\ closing' = [closing EXCEPT ![k] = "gone"]
    /\ child' = IF child = k THEN Nobody ELSE child
    /\ UNCHANGED <<postVars, pipeVars, agentVars, watcher, shuttingDown, routing, streamVars>>

Shutdown(k) == ClearPending(k) \/ KillChild(k) \/ WaitKilled(k)

-----------------------------------------------------------------------------

\* inject_notification and the SSE clients touch the stream only.
StreamOnly ==
    /\ \/ \E p \in Injectors : Publish(p) /\ Room(p)
       \/ \E c \in Subscribers : Client(c) /\ Room(c)
    /\ UNCHANGED <<postVars, pipeVars, agentVars, childVars, routing>>

\* What post() does by itself once it is called.
Handler(c) ==
    \/ LockStdin(c)
    \/ WriteBody(c)
    \/ WriteNewline(c)
    \/ WriteFails(c)

Waiter(c) ==
    \/ Register(c)
    \/ ReceiveReply(c)
    \/ SenderDropped(c)
    \/ TimeoutElapsed(c)
    \/ Unregister(c)
    \/ ExitInfo(c)

Agent == AgentRead \/ (\E c \in Requests : AgentRespond(c)) \/ AgentNote \/ AgentExit

Next ==
    \/ \E c \in Requests : PostRequest(c) \/ Waiter(c)
    \/ \E c \in Notices : PostNotice(c)
    \/ \E c \in Posts : Handler(c) \/ Cancel(c)
    \/ \E k \in Closers : BeginShutdown(k) \/ Shutdown(k) \/ CancelShutdown(k)
    \/ Agent
    \/ StdoutLoop
    \/ ExitWatcher
    \/ StreamOnly

Spec == Init /\ [][Next]_vars

\* The tokio runtime polls every task that can go on; the timer of a post fires.
\* Nothing is assumed of the clients or of the agent.
Fairness ==
    /\ \A c \in Requests : WF_vars(Handler(c) \/ Waiter(c))
    /\ \A c \in Notices : WF_vars(Handler(c))
    /\ \A k \in Closers : WF_vars(Shutdown(k))
    /\ WF_vars(StdoutLoop)
    /\ WF_vars(ExitWatcher)

FairSpec == Spec /\ Fairness

\* An agent that ends some day, by itself or because it was killed.
MortalSpec == FairSpec /\ WF_vars(AgentExit)

-----------------------------------------------------------------------------
(* Properties.                                                              *)

Answered(c) == at[c] = "done" /\ outcome[c] = "response"

\* A post returns an answer to a request with its own id; with ids unique among
\* the posts of an instance that is the answer to itself.
OwnReply == \A c \in Requests :
    Answered(c) => reply[c] \in Requests /\ IdOf[reply[c]] = IdOf[c]

\* No lost wakeup: a post that still listens is the one the next response with
\* its id is routed to, whatever was registered, timed out, cancelled or cleared
\* in between.
WaiterReachable == \A c \in Requests :
    at[c] = "wait" /\ channel[c] = "open" => pending[IdOf[c]] = c

\* Every post comes back: its answer, its timeout, or the end of the agent.
PostReturns == \A c \in Requests : at[c] = "register" ~> at[c] \in {"done", "gone"}

\* A shutdown that took effect comes back.
ShutdownReturns == \A k \in Closers : closing[k] = "clear" ~> closing[k] \in {"done", "gone"}

-----------------------------------------------------------------------------
(* Refinement.                                                              *)

StateOf(c) ==
    CASE at[c] = "idle" -> "new"
      [] Answered(c) -> "answered"
      [] at[c] = "gone" \/ (at[c] = "done" /\ outcome[c] # "response") -> "failed"
      [] OTHER -> "asked"

Promise == INSTANCE RequestReply WITH
    state  <- [c \in Requests |-> StateOf(c)],
    answer <- [c \in Requests |-> IF Answered(c) THEN reply[c] ELSE Nobody]

\* The adapter keeps the promise of RequestReply: one end per request, answers
\* only to posted requests and never the same answer twice.
KeepsPromise == Promise!PromiseSpec

\* Seen from the stream, the adapter is one of the behaviours of EventStream.
KeepsStream == StreamSpec
=============================================================================
