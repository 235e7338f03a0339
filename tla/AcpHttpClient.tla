--------------------------- MODULE AcpHttpClient ---------------------------
(***************************************************************************)
(* The transport of the TypeScript client, StreamableHttpAcpTransport of   *)
(* sdks/acp-http-client/src/index.ts, and the server it talks to.  The     *)
(* transport makes one duplex stream out of POSTs, whose replies may carry *)
(* the response, and of a server-sent event stream that carries everything *)
(* the agent says, the responses once more included.  Each message is a    *)
(* POST of its own and nobody waits for the one before.                    *)
(*                                                                         *)
(* The server is one instance of server/packages: its events are           *)
(* EventStream, with the stdout loop, the exit watcher and the handlers of *)
(* slash commands as publishers and this client as the one subscriber; of  *)
(* AcpProxy and AdapterRuntime it has what a client meets: that only a     *)
(* POST with the bootstrap query makes an instance, that a POST which is   *)
(* not answered in time, and a DELETE, wait for the agent's exit.          *)
(***************************************************************************)
EXTENDS Naturals, Sequences, FiniteSets

CONSTANTS
    Requests,       \* requests of the connection
    Asking,         \* requests whose agent asks the client something first
    Slash,          \* requests the proxy answers itself: the prompt /usage
    Window,         \* response ids remembered (2048)
    RingSize,       \* events the server replays
    ChannelSize,    \* events the server keeps for a slow stream
    MaxSequence,    \* bound on events
    MaxConnects,    \* bound on streams that are opened
    Watchers,       \* bound: {"exit"}, or {} where the exit's event is left out
    MaxNotes,       \* bound on notifications of the agent
    MaxFailures     \* bound on failures

ASSUME ClientAssumption ==
    /\ Asking \subseteq Requests /\ Slash \subseteq Requests \ Asking
    /\ {"stdout", "exit", "none"} \cap Requests = {}
    /\ Watchers \subseteq {"exit"}
    /\ IsFiniteSet(Requests)
    /\ Window \in Nat \ {0} /\ RingSize \in Nat \ {0} /\ ChannelSize \in Nat \ {0}
    /\ MaxSequence \in Nat /\ MaxConnects \in Nat
    /\ MaxNotes \in Nat /\ MaxFailures \in Nat

VARIABLES
    post,           \* post[r]: where the POST of request r is
    bootstrap,      \* bootstrap[r]: it carries the bootstrap query
    question,       \* question[r]: the question the agent asks for r
    informed,       \* the requests whose question the agent got an answer to
    postedOnce,
    closed,
    closing,        \* close(): not called, waiting for its DELETE, returned
    readable,       \* the readable side, as the connection sees it
    inbox,          \* what the readable side was given
    seen,           \* seenResponseIdOrder
    sse,            \* the SSE loop
    lastEventId,    \* 0 before the first event
    wire,           \* events on their way
    registered,     \* the proxy has the instance
    agent,          \* its process
    delete,         \* the DELETE request
    overtaken,      \* the instance was started after the DELETE arrived
    sequence, ring, sender, publishing,     \* EventStream
    subscription, delivered, connects,
    log,            \* what each event says, by its id
    contended,      \* ids that were not yet sent when a later one was drawn
    lost,           \* ids the server leaves out of a stream
    failures

postVars   == <<post, bootstrap, question, informed, postedOnce>>
endVars    == <<closed, closing, readable>>
inboxVars  == <<inbox, seen>>
loopVars   == <<sse, lastEventId, wire>>
agentVars  == <<registered, agent>>
deleteVars == <<delete, overtaken>>
streamVars == <<sequence, ring, sender, publishing, subscription, delivered, connects>>
eventVars  == <<streamVars, log, contended, lost>>
vars == <<postVars, endVars, inboxVars, loopVars, agentVars, deleteVars, eventVars, failures>>

Me == "client"
Publishers == {"stdout"} \cup Watchers \cup Slash

Stream == INSTANCE EventStream WITH
    Producers <- Publishers, Injectors <- Slash, Subscribers <- {Me},
    conn <- subscription, cursor <- delivered

Kinds  == {"note", "question", "response", "exit"}
Said   == [kind : Kinds \ {"exit"}, req : Requests] \cup [kind : {"exit"}, req : {"none"}]
Entry  == [kind : Kinds, req : Requests \cup {"none"}, id : Nat]
Places == {"unsent", "sent", "served", "stranded", "replied", "refused", "over"}

TypeOK ==
    /\ post \in [Requests -> Places]
    /\ bootstrap \in [Requests -> BOOLEAN]
    /\ question \in [Requests -> {"none", "asked", "heard", "sent", "over"}]
    /\ informed \subseteq Requests
    /\ postedOnce \in BOOLEAN
    /\ closed \in BOOLEAN
    /\ closing \in {"no", "deleting", "done"}
    /\ readable \in {"open", "closed", "errored"}
    /\ inbox \in Seq(Entry)
    /\ seen \in Seq(Requests) /\ Len(seen) <= Window
    /\ sse \in {"none", "connecting", "open", "waiting"}
    /\ lastEventId \in Nat
    /\ wire \in Seq(Nat)
    /\ registered \in BOOLEAN
    /\ agent \in {"none", "runs", "exited"}
    /\ delete \in {"none", "sent", "stopping", "served", "lost"}
    /\ overtaken \in BOOLEAN
    /\ Stream!StreamTypeOK
    /\ log \in Seq(Said) /\ Len(log) = sequence
    /\ contended \subseteq 1 .. sequence
    /\ lost \subseteq 1 .. sequence
    /\ failures \in 0 .. MaxFailures

Init ==
    /\ post = [r \in Requests |-> "unsent"]
    /\ bootstrap = [r \in Requests |-> FALSE]
    /\ question = [r \in Requests |-> "none"]
    /\ informed = {}
    /\ postedOnce = FALSE
    /\ closed = FALSE
    /\ closing = "no"
    /\ readable = "open"
    /\ inbox = <<>>
    /\ seen = <<>>
    /\ sse = "none"
    /\ lastEventId = 0
    /\ wire = <<>>
    /\ registered = FALSE
    /\ agent = "none"
    /\ delete = "none"
    /\ overtaken = FALSE
    /\ Stream!StreamInit
    /\ log = <<>>
    /\ contended = {}
    /\ lost = {}
    /\ failures = 0

-----------------------------------------------------------------------------
(* The end of a stream, both ways in, and the end.                          *)

Fail == failures < MaxFailures /\ failures' = failures + 1

\* Variant: the id sent on with the next GET is the last the server wrote.
HangUpAhead(next) ==
    /\ sse' = next
    /\ lastEventId' = delivered[Me]
    /\ wire' = <<>>
    /\ subscription' = [subscription EXCEPT ![Me] = Stream!Closed]
    /\ UNCHANGED <<delivered, sequence, ring, sender, publishing, connects, log, contended, lost>>

\* The stream is gone with what was on its way; the next one will ask for what
\* follows the last event that was processed.
HangUp(next) ==
    /\ sse' = next
    /\ wire' = <<>>
    /\ subscription' = [subscription EXCEPT ![Me] = Stream!Closed]
    /\ delivered' = [delivered EXCEPT ![Me] = lastEventId]
    /\ UNCHANGED <<lastEventId, sequence, ring, sender, publishing, connects, log, contended, lost>>

\* Variant: the oldest id is forgotten one too early.
RememberShort(r) ==
    LET longer == Append(seen, r)
    IN  seen' = IF Len(longer) >= Window THEN Tail(longer) ELSE longer

\* The window of seenResponseIds.
Remember(r) ==
    LET longer == Append(seen, r)
    IN  seen' = IF Len(longer) > Window THEN Tail(longer) ELSE longer

Remembered(r) == \E i \in 1 .. Len(seen) : seen[i] = r

\* pushInbound(): a response is passed on once, everything else as it comes.
PushInbound(kind, r, id) ==
    \/ /\ closed \/ (kind = "response" /\ Remembered(r))
       /\ UNCHANGED inboxVars
    \/ /\ ~closed
       /\ kind = "response"
       /\ ~Remembered(r)
       /\ Remember(r)
       /\ inbox' = Append(inbox, [kind |-> kind, req |-> r, id |-> 0])
    \/ /\ ~closed
       /\ kind # "response"
       /\ inbox' = Append(inbox, [kind |-> kind, req |-> r, id |-> id])
       /\ UNCHANGED seen

\* Variant: the error of a POST is only logged.
FailReadableNever == UNCHANGED <<endVars, loopVars, eventVars>>

\* failReadable(): the stream ends with an error, and later close() will find
\* the transport closed.
FailReadable ==
    IF closed
    THEN UNCHANGED <<endVars, loopVars, eventVars>>
    ELSE /\ closed' = TRUE
         /\ readable' = "errored"
         /\ HangUp("none")
         /\ UNCHANGED closing

-----------------------------------------------------------------------------
(* POST.                                                                    *)

\* ensureSseLoop()
EnsureSseLoop ==
    /\ sse' = IF sse = "none" THEN "connecting" ELSE sse
    /\ UNCHANGED <<lastEventId, wire>>

\* Variant: the flag is set by the first reply.
WriteMessageLate(r) ==
    /\ ~closed
    /\ post[r] = "unsent"
    /\ post' = [post EXCEPT ![r] = "sent"]
    /\ bootstrap' = [bootstrap EXCEPT ![r] = ~postedOnce]
    /\ postedOnce' = \E x \in Requests : post[x] \in {"replied", "over"}
    /\ EnsureSseLoop
    /\ UNCHANGED <<question, informed, endVars, inboxVars, agentVars, deleteVars, eventVars, failures>>

\* writeMessage() of a request; the first message takes the bootstrap query.
WriteMessage(r) ==
    /\ ~closed
    /\ post[r] = "unsent"
    /\ post' = [post EXCEPT ![r] = "sent"]
    /\ bootstrap' = [bootstrap EXCEPT ![r] = ~postedOnce]
    /\ postedOnce' = TRUE
    /\ EnsureSseLoop
    /\ UNCHANGED <<question, informed, endVars, inboxVars, agentVars, deleteVars, eventVars, failures>>

\* writeMessage() of the answer to a question the agent asked.
WriteAnswer(r) ==
    /\ ~closed
    /\ question[r] = "heard"
    /\ question' = [question EXCEPT ![r] = "sent"]
    /\ EnsureSseLoop
    /\ UNCHANGED <<post, bootstrap, informed, postedOnce, endVars, inboxVars, agentVars, deleteVars,
                   eventVars, failures>>

\* postMessage() gets the reply with the response in its body.
PostReplied(r) ==
    /\ post[r] = "replied"
    /\ post' = [post EXCEPT ![r] = "over"]
    /\ PushInbound("response", r, 0)
    /\ UNCHANGED <<bootstrap, question, informed, postedOnce, endVars, loopVars, agentVars,
                   deleteVars, eventVars, failures>>

\* The server answered with an error.
PostRefused(r) ==
    /\ post[r] = "refused"
    /\ post' = [post EXCEPT ![r] = "over"]
    /\ FailReadable
    /\ UNCHANGED <<bootstrap, question, informed, postedOnce, inboxVars, agentVars, deleteVars,
                   failures>>

\* The request, or its reply, is lost on the way.
PostFails(r) ==
    /\ post[r] \in {"sent", "served", "stranded", "replied"}
    /\ Fail
    /\ post' = [post EXCEPT ![r] = "over"]
    /\ FailReadable
    /\ UNCHANGED <<bootstrap, question, informed, postedOnce, inboxVars, agentVars, deleteVars>>

\* The POST of an answer is lost, or refused as there is nobody to give it to.
AnswerFails(r) ==
    /\ question[r] = "sent"
    /\ \/ (~registered \/ agent # "runs") /\ UNCHANGED failures
       \/ Fail
    /\ question' = [question EXCEPT ![r] = "over"]
    /\ FailReadable
    /\ UNCHANGED <<post, bootstrap, informed, postedOnce, inboxVars, agentVars, deleteVars>>

-----------------------------------------------------------------------------
(* The event stream.                                                        *)

\* The GET arrives and subscribe() copies the ring.
SseArrives ==
    /\ sse = "connecting"
    /\ registered
    /\ Stream!SnapshotRing(Me)
    /\ UNCHANGED <<postVars, endVars, inboxVars, loopVars, agentVars, deleteVars, log, contended,
                   lost, failures>>

\* The GET overtakes the POST that makes the instance: 404, and the loop ends.
SseRefused ==
    /\ sse = "connecting"
    /\ ~registered
    /\ subscription[Me].at = "closed"
    /\ sse' = "none"
    /\ UNCHANGED <<postVars, endVars, inboxVars, lastEventId, wire, agentVars, deleteVars,
                   eventVars, failures>>

IdsOf(messages) == {messages[k].sequence : k \in DOMAIN messages}

\* Drawn, and not yet sent.
Unsent == {publishing[p].sequence : p \in {q \in Publishers : publishing[q].at # "idle"}}

\* The receiver is registered.  This stream will not carry what is neither in
\* the copy nor still to be sent: what had left the ring when it was copied, and
\* what was sent since.
SseOpens ==
    /\ Stream!OpenReceiver(Me)
    /\ sse' = "open"
    /\ lost' = {i \in 1 .. sequence :
                  IF i <= lastEventId THEN i \in lost
                  ELSE i \notin IdsOf(subscription[Me].replay) \cup Unsent}
    /\ UNCHANGED <<postVars, endVars, inboxVars, lastEventId, wire, agentVars, deleteVars, log,
                   contended, failures>>

\* The server writes the next event to the response.
SseSend ==
    /\ Stream!DeliverReplay(Me) \/ Stream!DeliverLive(Me)
    /\ wire' = Append(wire, delivered'[Me])
    /\ UNCHANGED <<postVars, endVars, inboxVars, sse, lastEventId, agentVars, deleteVars, log,
                   contended, lost, failures>>

\* The stream fell behind the channel, and goes on with what it still has.
SseLags ==
    /\ Stream!SkipLagged(Me)
    /\ lost' = lost \cup {sender[n].sequence : n \in subscription[Me].next .. Stream!Oldest - 1}
    /\ UNCHANGED <<postVars, endVars, inboxVars, loopVars, agentVars, deleteVars, log, contended,
                   failures>>

\* A question reaches the client's handler, each time it comes.
Heard(i) ==
    question' = IF log[i].kind # "question" \/ question[log[i].req] = "sent" THEN question
                ELSE [question EXCEPT ![log[i].req] = "heard"]

\* consumeSse() and processSseEvent(): the id is remembered, then the event is
\* passed on.
ProcessSseEvent ==
    /\ sse = "open"
    /\ wire # <<>>
    /\ wire' = Tail(wire)
    /\ lastEventId' = Head(wire)
    /\ PushInbound(log[Head(wire)].kind, log[Head(wire)].req, Head(wire))
    /\ Heard(Head(wire))
    /\ UNCHANGED <<post, bootstrap, informed, postedOnce, endVars, sse, agentVars, deleteVars,
                   eventVars, failures>>

\* The response ends: runSseLoop waits 150 ms and connects again.
SseEnds ==
    /\ sse = "open"
    /\ Fail
    /\ HangUp("waiting")
    /\ UNCHANGED <<postVars, endVars, inboxVars, agentVars, deleteVars>>

SseAgain ==
    /\ sse = "waiting"
    /\ sse' = "connecting"
    /\ UNCHANGED <<postVars, endVars, inboxVars, lastEventId, wire, agentVars, deleteVars, eventVars,
                   failures>>

\* The request or the stream fails: the loop ends until the next POST.
SseFails ==
    /\ sse \in {"connecting", "open"}
    /\ Fail
    /\ HangUp("none")
    /\ UNCHANGED <<postVars, endVars, inboxVars, agentVars, deleteVars>>

-----------------------------------------------------------------------------
(* close().                                                                 *)

\* closeImpl() up to the DELETE; after a failure there is none.
Close ==
    /\ closing = "no"
    /\ closed' = TRUE
    /\ IF closed
       THEN closing' = "done" /\ UNCHANGED <<readable, delete, loopVars, eventVars>>
       ELSE /\ HangUp("none")
            /\ IF postedOnce
               THEN closing' = "deleting" /\ delete' = "sent" /\ UNCHANGED readable
               ELSE closing' = "done" /\ readable' = "closed" /\ UNCHANGED delete
    /\ UNCHANGED <<postVars, inboxVars, agentVars, overtaken, failures>>

\* The DELETE is answered, or has failed, or two seconds are over; its request
\* may reach the server all the same.
CloseReturns ==
    /\ closing = "deleting"
    /\ \/ UNCHANGED <<delete, failures>>
       \/ delete = "sent" /\ Fail /\ delete' = "lost"
    /\ closing' = "done"
    /\ readable' = "closed"
    /\ UNCHANGED <<postVars, closed, inboxVars, loopVars, agentVars, overtaken, eventVars>>

-----------------------------------------------------------------------------
(* The proxy's handlers.                                                    *)

PostIs(r, place) == post' = [post EXCEPT ![r] = place]

\* A POST reaches the instance and, if the proxy does not answer it itself, the
\* agent's input.
PostServed(r) ==
    /\ post[r] = "sent"
    /\ registered
    /\ r \in Slash \/ agent = "runs"
    /\ PostIs(r, "served")
    /\ UNCHANGED <<agentVars, overtaken, failures>>

\* It makes the instance.
PostStarts(r) ==
    /\ post[r] = "sent"
    /\ ~registered /\ bootstrap[r]
    /\ PostIs(r, "served")
    /\ registered' = TRUE
    /\ agent' = "runs"
    /\ overtaken' = (delete # "none" /\ delete # "sent")
    /\ UNCHANGED failures

\* There is no instance and none can be made, or its agent has exited.
PostTurnedAway(r) ==
    /\ post[r] = "sent"
    /\ \/ ~registered /\ ~bootstrap[r] /\ UNCHANGED failures
       \/ ~registered /\ bootstrap[r] /\ Fail
       \/ registered /\ r \notin Slash /\ agent # "runs" /\ UNCHANGED failures
    /\ PostIs(r, "refused")
    /\ UNCHANGED <<agentVars, overtaken>>

PostArrives(r) ==
    /\ PostServed(r) \/ PostStarts(r) \/ PostTurnedAway(r)
    /\ UNCHANGED <<bootstrap, question, informed, postedOnce, endVars, inboxVars, loopVars, delete,
                   eventVars>>

\* The answer to a question reaches the agent.
AnswerArrives(r) ==
    /\ question[r] = "sent"
    /\ registered /\ agent = "runs"
    /\ question' = [question EXCEPT ![r] = "over"]
    /\ informed' = informed \cup {r}
    /\ UNCHANGED <<post, bootstrap, postedOnce, endVars, inboxVars, loopVars, agentVars, deleteVars,
                   eventVars, failures>>

\* The request timeout: the handler goes for the child's mutex, which the exit
\* watcher holds.
RequestTimesOut(r) ==
    /\ post[r] = "served"
    /\ r \notin Slash
    /\ PostIs(r, "stranded")
    /\ UNCHANGED <<bootstrap, question, informed, postedOnce, endVars, inboxVars, loopVars, agentVars,
                   deleteVars, eventVars, failures>>

\* The mutex is free when the agent has exited.
StrandedReturns(r) ==
    /\ post[r] = "stranded"
    /\ agent # "runs"
    /\ PostIs(r, "refused")
    /\ UNCHANGED <<bootstrap, question, informed, postedOnce, endVars, inboxVars, loopVars, agentVars,
                   deleteVars, eventVars, failures>>

\* delete() takes the instance out of the map; shutdown() drops the pending
\* responses and goes for the child's mutex.
DeleteArrives ==
    /\ delete = "sent"
    /\ delete' = IF registered THEN "stopping" ELSE "served"
    /\ registered' = FALSE
    /\ post' = [r \in Requests |->
                  IF registered /\ post[r] = "served" /\ r \notin Slash THEN "stranded" ELSE post[r]]
    /\ UNCHANGED <<bootstrap, question, informed, postedOnce, endVars, inboxVars, loopVars, agent,
                   overtaken, eventVars, failures>>

\* It gets the mutex once the agent has exited by itself.
DeleteAnswered ==
    /\ delete = "stopping"
    /\ agent # "runs"
    /\ delete' = "served"
    /\ UNCHANGED <<postVars, endVars, inboxVars, loopVars, agentVars, overtaken, eventVars, failures>>

-----------------------------------------------------------------------------
(* The agent, and what publishes its events.                                *)

\* An event gets its number; it is pushed and sent in steps of their own.  What
\* comes when the transport is closed is left out: it drops everything.
Publish(p, kind, r) ==
    /\ ~closed
    /\ Stream!FetchAdd(p)
    /\ log' = Append(log, [kind |-> kind, req |-> r])
    /\ contended' = contended \cup Unsent
    /\ UNCHANGED lost

PublishGoesOn(p) ==
    /\ ~closed
    /\ Stream!PushRing(p) \/ Stream!Broadcast(p)
    /\ UNCHANGED <<postVars, endVars, inboxVars, loopVars, agentVars, deleteVars, log, contended,
                   lost, failures>>

SaidOf(kind, r) == \E i \in 1 .. Len(log) : log[i] = [kind |-> kind, req |-> r]
Notes == Cardinality({i \in 1 .. Len(log) : log[i].kind = "note" /\ log[i].req \notin Slash})

\* What the agent printed is read while it runs, and the rest after its exit.
Printing == agent # "none"
Reached(r) == r \notin Slash /\ post[r] \in {"served", "stranded"}

AgentNotifies(r) ==
    /\ Printing /\ Reached(r)
    /\ Notes < MaxNotes
    /\ Publish("stdout", "note", r)
    /\ UNCHANGED <<postVars, endVars, inboxVars, loopVars, agentVars, deleteVars, failures>>

AgentAsks(r) ==
    /\ Printing /\ Reached(r)
    /\ r \in Asking
    /\ question[r] = "none"
    /\ question' = [question EXCEPT ![r] = "asked"]
    /\ Publish("stdout", "question", r)
    /\ UNCHANGED <<post, bootstrap, informed, postedOnce, endVars, inboxVars, loopVars, agentVars,
                   deleteVars, failures>>

\* The response is the body of the reply, and an event as well; when nobody
\* waits for it any more, only an event.
AgentAnswers(r) ==
    /\ Printing /\ Reached(r)
    /\ r \in Asking => r \in informed
    /\ ~SaidOf("response", r)
    /\ post' = IF post[r] = "served" THEN [post EXCEPT ![r] = "replied"] ELSE post
    /\ Publish("stdout", "response", r)
    /\ UNCHANGED <<bootstrap, question, informed, postedOnce, endVars, inboxVars, loopVars, agentVars,
                   deleteVars, failures>>

\* handle_slash_command(): the text is injected as a notification, and when it
\* is sent the turn ends.
InjectNotification(r) ==
    /\ r \in Slash
    /\ post[r] = "served"
    /\ ~SaidOf("note", r)
    /\ Publish(r, "note", r)
    /\ UNCHANGED <<postVars, endVars, inboxVars, loopVars, agentVars, deleteVars, failures>>

SlashReplies(r) ==
    /\ r \in Slash
    /\ post[r] = "served"
    /\ SaidOf("note", r)
    /\ publishing[r].at = "idle"
    /\ PostIs(r, "replied")
    /\ UNCHANGED <<bootstrap, question, informed, postedOnce, endVars, inboxVars, loopVars, agentVars,
                   deleteVars, eventVars, failures>>

\* Its client has gone: the number it drew is never sent.
InjectDropped(r) ==
    /\ post[r] = "over"
    /\ Stream!AbandonInject(r)
    /\ lost' = lost \cup {publishing[r].sequence}
    /\ UNCHANGED <<postVars, endVars, inboxVars, loopVars, agentVars, deleteVars, log, contended,
                   failures>>

AgentExits ==
    /\ agent = "runs"
    /\ agent' = "exited"
    /\ UNCHANGED <<postVars, endVars, inboxVars, loopVars, registered, deleteVars, eventVars, failures>>

\* The exit watcher tells of the exit.
ExitPublished ==
    /\ "exit" \in Watchers
    /\ agent = "exited"
    /\ ~SaidOf("exit", "none")
    /\ Publish("exit", "exit", "none")
    /\ UNCHANGED <<postVars, endVars, inboxVars, loopVars, agentVars, deleteVars, failures>>

Next ==
    \/ \E r \in Requests :
          \/ WriteMessage(r) \/ WriteAnswer(r)
          \/ PostReplied(r) \/ PostRefused(r) \/ PostFails(r) \/ AnswerFails(r)
          \/ PostArrives(r) \/ AnswerArrives(r) \/ RequestTimesOut(r) \/ StrandedReturns(r)
          \/ AgentNotifies(r) \/ AgentAsks(r) \/ AgentAnswers(r)
          \/ InjectNotification(r) \/ SlashReplies(r) \/ InjectDropped(r)
    \/ \E p \in Publishers : PublishGoesOn(p)
    \/ SseArrives \/ SseRefused \/ SseOpens \/ SseSend \/ SseLags \/ ProcessSseEvent
    \/ SseEnds \/ SseAgain \/ SseFails
    \/ Close \/ CloseReturns \/ DeleteArrives \/ DeleteAnswered
    \/ AgentExits \/ ExitPublished

\* What is sent arrives or fails, the server's tasks run, the agent answers a
\* request once it has what it asked for, and the client handles what it
\* received.  Nobody has to write, to close or to exit.
Fairness ==
    /\ \A r \in Requests :
          /\ WF_vars(PostArrives(r)) /\ WF_vars(AgentAsks(r))
          /\ WF_vars(agent = "runs" /\ AgentAnswers(r))
          /\ WF_vars(RequestTimesOut(r)) /\ WF_vars(StrandedReturns(r))
          /\ WF_vars(InjectNotification(r)) /\ WF_vars(SlashReplies(r))
          /\ WF_vars(PostReplied(r)) /\ WF_vars(PostRefused(r))
          /\ WF_vars(WriteAnswer(r)) /\ WF_vars(AnswerArrives(r) \/ AnswerFails(r))
    /\ \A p \in Publishers : WF_vars(PublishGoesOn(p))
    /\ WF_vars(SseArrives \/ SseRefused) /\ WF_vars(SseOpens) /\ WF_vars(SseAgain)
    /\ WF_vars(SseSend \/ SseLags) /\ WF_vars(ProcessSseEvent)
    /\ WF_vars(DeleteArrives) /\ WF_vars(DeleteAnswered) /\ WF_vars(CloseReturns)

Spec == Init /\ [][Next]_vars /\ Fairness

\* In addition every agent exits some day.
MortalSpec == Spec /\ WF_vars(AgentExits)

-----------------------------------------------------------------------------
(* Properties.                                                              *)

Answered(r) == \E i \in 1 .. Len(inbox) : inbox[i].kind = "response" /\ inbox[i].req = r

\* A response that comes by both ways, and again after a reconnection, is passed
\* on once; a second time only when more than Window others came in between.
AnsweredOnce ==
    \A i, j \in 1 .. Len(inbox) :
        (i < j /\ inbox[i].kind = "response" /\ inbox[j].kind = "response"
               /\ inbox[i].req = inbox[j].req) =>
        Cardinality({k \in i + 1 .. j - 1 : inbox[k].kind = "response"}) >= Window

\* However often the stream breaks, the connection gets what is no response in
\* the order of its ids, and up to the last event it processed it misses only
\* what the server left out of a stream; of this an id is excepted that another
\* publisher overtook, and the order of what follows a step back to such an id.
EventsInOrder ==
    /\ \A i, j \in 1 .. Len(inbox) :
          (i < j /\ inbox[i].kind # "response" /\ inbox[j].kind # "response"
                 /\ inbox[i].id > inbox[j].id)
          => \E c \in contended : c <= inbox[j].id
    /\ \A i \in 1 .. lastEventId \ (lost \cup contended) :
          \/ log[i].kind = "response"
          \/ \E k \in 1 .. Len(inbox) :
                inbox[k] = [kind |-> log[i].kind, req |-> log[i].req, id |-> i]

\* After a close() whose DELETE was answered, however late, and after one that
\* sent none, the proxy has no instance and no agent runs, unless the DELETE
\* overtook the POST that starts it.
ClosedBehind ==
    (closing = "done" /\ readable = "closed" /\ delete \in {"none", "served"} /\ ~overtaken)
    => ~registered /\ agent # "runs"

\* When agents exit some day, every request the client sent is answered, or the
\* stream ends: no POST waits on a mutex, an agent or a question for ever.
RequestSettles ==
    \A r \in Requests : (post[r] = "sent") ~> (Answered(r) \/ closed)
=============================================================================
