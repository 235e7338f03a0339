---------------------------- MODULE FoundryTask ----------------------------
(***************************************************************************)
(* The sessions of a Foundry task: the task actor of                       *)
(* foundry/packages/backend/src/actors/task (workspace.ts and workflow/)   *)
(* and the sandbox actor it works with.                                    *)
(*                                                                         *)
(* Commands go through the actor's queue, and its workflow loop runs one   *)
(* handler at a time; changeModel is a direct action and runs beside them. *)
(* Every handler awaits the organization, the user and the sandbox actor,  *)
(* and what happens between two such awaits is one step.  The sandbox      *)
(* actor has a queue of its own, for creating and destroying the agent's   *)
(* sessions: a caller waits ten seconds and gives up, its command stays.   *)
(* A loop step that takes ten minutes is given up too, while its handler   *)
(* runs on: only a prompt takes that long.                                 *)
(*                                                                         *)
(* Of git's set-up in the sandbox, `author' is what injectGitCredentials    *)
(* wrote last: user.name, user.email and the token file, so whose name     *)
(* commits bear.  The helper that reads the token is left out: every       *)
(* repository fetch replaces it, so that nothing holds of who pushes.      *)
(*                                                                         *)
(* A row's sandboxSessionId is always the session's own id, so `box' only  *)
(* says whether it is set, and the two pending statuses are one.           *)
(***************************************************************************)
EXTENDS Naturals, Sequences, FiniteSets

CONSTANTS
    Sessions, Users, Models,
    Requests,       \* what the organization actor asks of the task
    Jobs,           \* what the requests may be: a set of functions on Requests
    Existing,       \* sessions made earlier, ready and not yet used
    First,          \* the model of those
    None

Kinds == {"create", "create_send", "send", "stop", "close", "owner", "change", "none"}

ASSUME TaskAssumption ==
    /\ Existing \subseteq Sessions /\ First \in Models
    /\ Jobs \subseteq [Requests -> [kind : Kinds, session : Sessions, model : Models,
                                    user : Users]]
    /\ Requests \cap Sessions = {}
    /\ None \notin Sessions \cup Requests \cup Users \cup Models

VARIABLES
    job,            \* what each request is; never changes
    queue,          \* the task's queue: requests, and sessions to be ensured
    busy,           \* what the workflow loop runs, or None
    at,             \* where the handler of each request and of each ensure is
    row,            \* taskWorkspaceSessions
    seen,           \* the model an ensure read
    owner,          \* the user taskOwner names, if it names one
    author,         \* whose git identity was injected last
    prepared,       \* sandboxRepoPrepared
    agent,          \* the agent's sessions in the sandbox
    orders,         \* the sandbox actor's queue
    \* Auxiliary: sessions left behind by a failing user or organization actor,
    \* sessions whose model may not have reached the agent, and why a user's
    \* identity may be missing.
    lost, unsure, unbacked

loopVars  == <<queue, busy>>
ownerVars == <<owner, author, prepared, unbacked>>
boxVars   == <<agent, orders>>
vars == <<job, loopVars, at, row, seen, ownerVars, boxVars, lost, unsure>>

Row == [status : {"pending", "ready", "error"}, box : BOOLEAN, model : Models,
        created : BOOLEAN, closed : BOOLEAN, thinking : BOOLEAN, transcript : BOOLEAN]

ASSUME RowAssumption == None \notin Row

Places == {"idle", "queued", "start", "enqueueing", "checking", "preparing", "claiming",
           "installing", "swapping", "injecting", "marking", "noting", "prompting", "creating", "created", "failing",
           "destroying", "ending", "changing", "setting", "remaking", "resetting", "done"}

Handlers == Requests \cup Sessions

TypeOK ==
    /\ job \in Jobs
    /\ queue \in Seq(Handlers) /\ busy \in Handlers \cup {None}
    /\ at \in [Handlers -> Places]
    /\ row \in [Sessions -> Row \cup {None}]
    /\ seen \in [Sessions -> Models]
    /\ owner \in Users \cup {None} /\ author \in Users \cup {None}
    /\ prepared \in BOOLEAN
    /\ agent \in [Sessions -> [live : BOOLEAN, model : Models \cup {None}]]
    /\ orders \in Seq([from : Handlers, model : Models, heard : BOOLEAN])
    /\ lost \subseteq Sessions /\ unsure \subseteq Sessions
    /\ unbacked \in [Users -> {"no", "unresolved", "refused"}]

Kind(h)   == IF h \in Sessions THEN "ensure" ELSE job[h].kind
S(h)      == IF h \in Sessions THEN h ELSE job[h].session
At(h, p)  == at[h] = p
Active(h) == at[h] \notin {"idle", "queued", "done"}
Open      == {s \in Sessions : row[s] # None /\ ~row[s].closed}
Ready(s)  == row[s] # None /\ row[s].status = "ready" /\ row[s].box

NewRow(status, box, model) ==
    [status |-> status, box |-> box, model |-> model, created |-> FALSE,
     closed |-> FALSE, thinking |-> FALSE, transcript |-> FALSE]

Init ==
    /\ job \in Jobs
    /\ queue = <<>> /\ busy = None
    /\ at = [h \in Handlers |-> "idle"]
    /\ row = [s \in Sessions |-> IF s \in Existing THEN NewRow("ready", TRUE, First) ELSE None]
    /\ seen = [s \in Sessions |-> First]
    /\ owner = None /\ author = None /\ prepared = FALSE
    /\ unbacked = [u \in Users |-> "no"]
    /\ agent = [s \in Sessions |-> IF s \in Existing THEN [live |-> TRUE, model |-> First]
                                   ELSE [live |-> FALSE, model |-> None]]
    /\ orders = <<>>
    /\ lost = {} /\ unsure = {}

-----------------------------------------------------------------------------
(* The queue and the workflow loop *)

Goto(h, p) == at' = [at EXCEPT ![h] = p]

\* A handler goes on; the loop still runs what it ran.
Continue(h, p) == Goto(h, p) /\ UNCHANGED busy

\* A handler ends, and with it the loop's step unless that was given up before.
Finish(h) == Goto(h, "done") /\ busy' = IF busy = h THEN None ELSE busy

\* updateSessionMeta
Update(s, new) == row' = [row EXCEPT ![s] = new]

\* enqueueWorkspaceEnsureSession
EnqueueEnsure(s) == queue' = Append(queue, s)

\* A request arrives: changeModel is called at once, the others are queued.
Ask(r) ==
    /\ At(r, "idle") /\ Kind(r) # "none"
    /\ IF Kind(r) = "change"
       THEN Goto(r, "start") /\ UNCHANGED queue
       ELSE Goto(r, "queued") /\ queue' = Append(queue, r)
    /\ UNCHANGED <<job, busy, row, seen, ownerVars, boxVars, lost, unsure>>

Take ==
    /\ busy = None /\ queue # <<>>
    /\ busy' = Head(queue) /\ queue' = Tail(queue)
    /\ Goto(Head(queue), "start")
    /\ UNCHANGED <<job, row, seen, ownerVars, boxVars, lost, unsure>>

\* loopCtx.step gives up after ten minutes; the handler is not stopped.
StepTimesOut(r) ==
    /\ busy = r /\ At(r, "prompting")
    /\ busy' = None
    /\ UNCHANGED <<job, queue, at, row, seen, ownerVars, boxVars, lost, unsure>>

-----------------------------------------------------------------------------
(* create_session, create_session_and_send *)

CreateSession(r) ==
    /\ At(r, "start") /\ Kind(r) \in {"create", "create_send"} /\ row[S(r)] = None
    /\ row' = [row EXCEPT ![S(r)] = NewRow("pending", FALSE, job[r].model)]
    /\ Continue(r, "enqueueing")
    /\ UNCHANGED <<job, queue, seen, ownerVars, boxVars, lost, unsure>>

\* After the user's state was written and the update broadcast.
EnqueueCreated(r) ==
    /\ At(r, "enqueueing") /\ Kind(r) \in {"create", "create_send"}
    /\ EnqueueEnsure(S(r))
    /\ IF Kind(r) = "create_send" THEN Continue(r, "checking") ELSE Finish(r)
    /\ UNCHANGED <<job, row, seen, ownerVars, boxVars, lost, unsure>>

\* The user or the organization actor fails: nobody ensures the new session, or
\* nobody ends the thinking of the marked one.
PeerFails(r) ==
    /\ \/ At(r, "enqueueing") /\ Kind(r) \in {"create", "create_send"}
       \/ At(r, "noting")
    /\ lost' = lost \cup {S(r)}
    /\ Finish(r)
    /\ UNCHANGED <<job, queue, row, seen, ownerVars, boxVars, unsure>>

-----------------------------------------------------------------------------
(* ensure_session *)

\* An open session that is not ready is to be made; its model is read now.
ReadToEnsure(s) ==
    /\ At(s, "start")
    /\ IF s \notin Open \/ Ready(s)
       THEN Finish(s) /\ UNCHANGED seen
       ELSE Continue(s, "marking") /\ seen' = [seen EXCEPT ![s] = row[s].model]
    /\ UNCHANGED <<job, queue, row, ownerVars, boxVars, lost, unsure>>

MarkPending(s) ==
    /\ At(s, "marking")
    /\ Update(s, [row[s] EXCEPT !.box = TRUE, !.status = "pending"])
    /\ Continue(s, "preparing")
    /\ UNCHANGED <<job, queue, seen, ownerVars, boxVars, lost, unsure>>

\* A command to the sandbox actor, which the handler waits for.
Order(h, model) == orders' = Append(orders, [from |-> h, model |-> model, heard |-> TRUE])

\* getTaskSandboxRuntime and ensureSandboxRepo may fail; then the session is made.
PrepareSession(s) ==
    /\ At(s, "preparing")
    /\ \/ Order(s, seen[s]) /\ Continue(s, "creating") /\ prepared' = TRUE
       \/ Continue(s, "failing") /\ UNCHANGED <<orders, prepared>>
    /\ UNCHANGED <<job, queue, row, seen, owner, author, unbacked, agent, lost, unsure>>

\* refreshDerived, publishing, and the other tasks of the process, whose flag it is,
\* prepare a repository too.
PrepareElsewhere ==
    /\ ~prepared
    /\ prepared' = TRUE
    /\ UNCHANGED <<job, loopVars, at, row, seen, owner, author, unbacked, boxVars, lost, unsure>>

MarkReady(s) ==
    /\ At(s, "created")
    /\ Update(s, [row[s] EXCEPT !.box = TRUE, !.status = "ready"])
    /\ Finish(s)
    /\ UNCHANGED <<job, queue, seen, ownerVars, boxVars, lost, unsure>>

EnsureFails(s) ==
    /\ At(s, "failing")
    /\ Update(s, [row[s] EXCEPT !.status = "error"])
    /\ Finish(s)
    /\ UNCHANGED <<job, queue, seen, ownerVars, boxVars, lost, unsure>>

-----------------------------------------------------------------------------
(* send_message *)

\* requireSendableSessionMeta, which lets a closed session pass.
CheckSendable(r) ==
    /\ At(r, "checking") \/ (At(r, "start") /\ Kind(r) = "send")
    /\ IF Ready(S(r)) THEN Continue(r, "preparing") ELSE Finish(r)
    /\ UNCHANGED <<job, queue, row, seen, ownerVars, boxVars, lost, unsure>>

\* The first message of the process looks at the owner in ensureSandboxRepo, too.
PrepareMessage(r) ==
    /\ At(r, "preparing")
    /\ Continue(r, IF prepared THEN "swapping" ELSE "claiming") \/ Finish(r)
    /\ UNCHANGED <<job, queue, row, seen, ownerVars, boxVars, lost, unsure>>

\* maybeSwapTaskOwner has returned.
Swapped(r) ==
    IF at[r] \in {"claiming", "installing"}
    THEN Continue(r, "swapping") /\ prepared' = TRUE
    ELSE Continue(r, "marking") /\ UNCHANGED prepared

\* The message fails.
Dropped(r) == Finish(r) /\ UNCHANGED prepared

\* maybeSwapTaskOwner: a sender who is the owner, or who has no GitHub account, is
\* passed over; asking for their session may fail.
SwapOwner(r) ==
    LET u == job[r].user IN
    /\ at[r] \in {"claiming", "swapping"}
    /\ \/ owner = u /\ Swapped(r) /\ UNCHANGED <<owner, unbacked>>
       \/ /\ owner # u /\ owner' = u
          /\ Continue(r, IF At(r, "claiming") THEN "installing" ELSE "injecting")
          /\ UNCHANGED <<prepared, unbacked>>
       \/ /\ Swapped(r)
          /\ unbacked' = [unbacked EXCEPT ![u] = "unresolved"]
          /\ UNCHANGED owner
       \/ Dropped(r) /\ UNCHANGED <<owner, unbacked>>
    /\ UNCHANGED <<job, queue, row, seen, author, boxVars, lost, unsure>>

\* injectGitCredentials, whose script may stop half way, or not be heard of any more:
\* a warning, or the end of the message.  A swap after ensureSandboxRepo is
\* broadcast, which may fail.
InjectCredentials(r) ==
    LET u == job[r].user IN
    /\ at[r] \in {"installing", "injecting"}
    /\ \/ /\ author' = u /\ unbacked' = [unbacked EXCEPT ![u] = "no"]
          /\ Swapped(r) \/ (At(r, "injecting") /\ Dropped(r))
       \/ /\ author' \in {author, u} /\ unbacked' = [unbacked EXCEPT ![u] = "refused"]
          /\ Swapped(r) \/ Dropped(r)
    /\ UNCHANGED <<job, queue, row, seen, owner, boxVars, lost, unsure>>

MarkThinking(r) ==
    /\ At(r, "marking")
    /\ Update(S(r), [row[S(r)] EXCEPT !.created = TRUE, !.thinking = TRUE])
    /\ Goto(r, "noting")
    /\ UNCHANGED <<job, loopVars, seen, ownerVars, boxVars, lost, unsure>>

\* The user's state is written, syncWorkspaceSessionStatus says running, and the
\* sandbox is asked: sendPrompt is a direct action there, and resumes the session.
Prompt(r) ==
    /\ At(r, "noting")
    /\ Update(S(r), [row[S(r)] EXCEPT !.thinking = TRUE])
    /\ agent' = [agent EXCEPT ![S(r)].live = TRUE]
    /\ Goto(r, "prompting")
    /\ UNCHANGED <<job, loopVars, seen, ownerVars, orders, lost, unsure>>

\* The row is looked up by its sandboxSessionId alone.
SyncByBox(s, status) ==
    Update(s, [row[s] EXCEPT !.thinking = IF row[s].box THEN FALSE ELSE @, !.status = status])

\* syncWorkspaceSessionStatus with idle or error, after what its caller writes.
SyncEnded(s, status) ==
    Update(s, [row[s] EXCEPT !.thinking = FALSE, !.status = status])

\* The agent answers, or fails, or is not heard of for ten minutes.  The update of
\* a closed session cannot be broadcast, which counts as a failed prompt.
PromptEnds(r) ==
    LET s == S(r) IN
    /\ At(r, "prompting")
    /\ \E failed \in BOOLEAN :
         SyncEnded(s, IF failed \/ (row[s].closed /\ row[s].thinking)
                      THEN "error" ELSE row[s].status)
    /\ Finish(r)
    /\ UNCHANGED <<job, queue, seen, ownerVars, boxVars, lost, unsure>>

-----------------------------------------------------------------------------
(* stop_session, close_session, change_owner *)

AskDestroy(h) == Order(h, First) /\ Continue(h, "destroying")

Stop(r) ==
    /\ At(r, "start") /\ Kind(r) = "stop"
    /\ IF Ready(S(r)) THEN AskDestroy(r) ELSE Finish(r) /\ UNCHANGED orders
    /\ UNCHANGED <<job, queue, row, seen, ownerVars, agent, lost, unsure>>

\* Sessions that were closed before count, too.
CloseAmongAll(r) ==
    /\ At(r, "start") /\ Kind(r) = "close"
    /\ IF Cardinality({s \in Sessions : row[s] # None}) <= 1 \/ row[S(r)] = None
       THEN Finish(r) /\ UNCHANGED orders
       ELSE IF row[S(r)].box THEN AskDestroy(r)
       ELSE Continue(r, "ending") /\ UNCHANGED orders
    /\ UNCHANGED <<job, queue, row, seen, ownerVars, agent, lost, unsure>>

\* The last open session stays.
Close(r) ==
    /\ At(r, "start") /\ Kind(r) = "close"
    /\ IF Cardinality(Open) <= 1 \/ row[S(r)] = None
       THEN Finish(r) /\ UNCHANGED orders
       ELSE IF row[S(r)].box THEN AskDestroy(r)
       ELSE Continue(r, "ending") /\ UNCHANGED orders
    /\ UNCHANGED <<job, queue, row, seen, ownerVars, agent, lost, unsure>>

\* What stop and close write in the end.
EndSession(r) ==
    /\ At(r, "ending")
    /\ Update(S(r), [row[S(r)] EXCEPT !.thinking = FALSE, !.closed = @ \/ Kind(r) = "close"])
    /\ Finish(r)
    /\ UNCHANGED <<job, queue, seen, ownerVars, boxVars, lost, unsure>>

\* As if members of the organization, whom the owner is chosen from, were known by
\* the ids of the senders.
ChangeOwnerToUser(r) ==
    /\ At(r, "start") /\ Kind(r) = "owner"
    /\ owner' = job[r].user
    /\ Finish(r)
    /\ UNCHANGED <<job, queue, row, seen, author, prepared, unbacked, boxVars, lost, unsure>>

\* changeTaskOwnerManually injects nothing.  It writes the GitHub id of a member,
\* and no sender's id is one: the next sender is not taken for the owner.
ChangeOwner(r) ==
    /\ At(r, "start") /\ Kind(r) = "owner"
    /\ owner' = None
    /\ Finish(r)
    /\ UNCHANGED <<job, queue, row, seen, author, prepared, unbacked, boxVars, lost, unsure>>

-----------------------------------------------------------------------------
(* changeModel, beside the loop *)

ReadToChange(r) ==
    /\ At(r, "start") /\ Kind(r) = "change"
    /\ Goto(r, IF S(r) \notin Open \/ row[S(r)].model = job[r].model THEN "done"
               ELSE "changing")
    /\ UNCHANGED <<job, loopVars, row, seen, ownerVars, boxVars, lost, unsure>>

\* Others that work on the session with a model they read before.
Overlaps(r) == \/ Active(S(r))
               \/ \E q \in Requests \ {r} : Kind(q) = "change" /\ S(q) = S(r) /\ Active(q)

\* shouldRecreateSessionForModelChange
Unused(s) == ~row[s].created /\ ~row[s].transcript

\* The row gets the model, and what it holds then decides: an unused ready session
\* is made anew, a used one is told, one that is not ready is ensured again.
WriteModel(r) ==
    LET s == S(r) IN
    /\ At(r, "changing")
    /\ Update(s, [row[s] EXCEPT !.model = job[r].model])
    /\ unsure' = IF Overlaps(r) THEN unsure \cup {s} ELSE unsure
    /\ IF Ready(s) /\ Unused(s)
       THEN AskDestroy(r)
       ELSE /\ Continue(r, IF Ready(s) THEN "setting"
                           ELSE IF row[s].status # "ready" THEN "resetting" ELSE "done")
            /\ UNCHANGED orders
    /\ UNCHANGED <<job, queue, seen, ownerVars, agent, lost>>

\* session/set_config_option: an agent that refuses is not asked again.
SetModel(r) ==
    /\ At(r, "setting")
    /\ \/ /\ agent' = [agent EXCEPT ![S(r)] = [live |-> TRUE, model |-> job[r].model]]
          /\ UNCHANGED unsure
       \/ unsure' = unsure \cup {S(r)} /\ UNCHANGED agent
    /\ Goto(r, "done")
    /\ UNCHANGED <<job, loopVars, row, seen, ownerVars, orders, lost>>

\* The status of the session that was destroyed stays.
ResetKeepingStatus(r) ==
    /\ \/ At(r, "resetting") /\ Update(S(r), [row[S(r)] EXCEPT !.status = "pending"])
       \/ /\ At(r, "remaking")
          /\ Update(S(r), [row[S(r)] EXCEPT !.transcript = FALSE, !.thinking = FALSE])
    /\ Goto(r, "enqueueing")
    /\ UNCHANGED <<job, loopVars, seen, ownerVars, boxVars, lost, unsure>>

\* The session is pending again; one that was destroyed is forgotten.
Reset(r) ==
    /\ \/ At(r, "resetting") /\ Update(S(r), [row[S(r)] EXCEPT !.status = "pending"])
       \/ /\ At(r, "remaking")
          /\ Update(S(r), [row[S(r)] EXCEPT !.status = "pending", !.box = FALSE,
                                            !.transcript = FALSE, !.thinking = FALSE])
    /\ Goto(r, "enqueueing")
    /\ UNCHANGED <<job, loopVars, seen, ownerVars, boxVars, lost, unsure>>

\* Only a session that has one in the sandbox is ensured.
EnqueueKnown(r) ==
    /\ At(r, "enqueueing") /\ Kind(r) = "change"
    /\ IF row[S(r)].box THEN EnqueueEnsure(S(r)) ELSE UNCHANGED queue
    /\ Goto(r, "done")
    /\ UNCHANGED <<job, busy, row, seen, ownerVars, boxVars, lost, unsure>>

EnqueueChanged(r) ==
    /\ At(r, "enqueueing") /\ Kind(r) = "change"
    /\ EnqueueEnsure(S(r))
    /\ Goto(r, "done")
    /\ UNCHANGED <<job, busy, row, seen, ownerVars, boxVars, lost, unsure>>

-----------------------------------------------------------------------------
(* The sandbox actor, and reads of the transcript *)

\* Where a handler goes on when its order was carried out, or was not.
Carried(h) == IF Kind(h) = "ensure" THEN "created"
              ELSE IF Kind(h) = "change" THEN "remaking" ELSE "ending"

NotCarried(h) ==
    /\ IF Kind(h) = "ensure" THEN Continue(h, "failing") ELSE Finish(h)
    /\ unsure' = IF Kind(h) = "change" THEN unsure \cup {S(h)} ELSE unsure

\* createSessionMutation and destroySessionMutation, one at a time.
SandboxServes ==
    LET o == Head(orders) IN
    /\ orders # <<>>
    /\ orders' = Tail(orders)
    /\ agent' = [agent EXCEPT ![S(o.from)] =
                   IF Kind(o.from) = "ensure" THEN [live |-> TRUE, model |-> o.model]
                   ELSE [@ EXCEPT !.live = FALSE]]
    /\ IF o.heard THEN Goto(o.from, Carried(o.from)) ELSE UNCHANGED at
    /\ UNCHANGED <<job, loopVars, row, seen, ownerVars, lost, unsure>>

SandboxFails ==
    LET o == Head(orders) IN
    /\ orders # <<>>
    /\ orders' = Tail(orders)
    /\ IF o.heard THEN NotCarried(o.from) ELSE UNCHANGED <<at, busy, unsure>>
    /\ UNCHANGED <<job, queue, row, seen, ownerVars, agent, lost>>

\* expectQueueResponse throws after ten seconds; the order stays in the queue.
OrderTimesOut(i) ==
    /\ orders[i].heard
    /\ orders' = [orders EXCEPT ![i].heard = FALSE]
    /\ NotCarried(orders[i].from)
    /\ UNCHANGED <<job, queue, row, seen, ownerVars, agent, lost>>

\* readSessionTranscript and writeSessionTranscript, after an ensure, with a
\* broadcast or when somebody looks.
RefreshTranscript(s) ==
    /\ s \in Open /\ Ready(s) /\ ~row[s].transcript
    /\ Update(s, [row[s] EXCEPT !.transcript = TRUE])
    /\ UNCHANGED <<job, loopVars, at, seen, ownerVars, boxVars, lost, unsure>>

Command(r) ==
    \/ CreateSession(r) \/ EnqueueCreated(r) \/ PeerFails(r)
    \/ CheckSendable(r) \/ PrepareMessage(r) \/ SwapOwner(r) \/ InjectCredentials(r)
    \/ MarkThinking(r) \/ Prompt(r) \/ PromptEnds(r)
    \/ Stop(r) \/ Close(r) \/ EndSession(r) \/ ChangeOwner(r)

Change(r) ==
    ReadToChange(r) \/ WriteModel(r) \/ SetModel(r) \/ Reset(r) \/ EnqueueChanged(r)

Ensure(s) ==
    \/ ReadToEnsure(s) \/ MarkPending(s) \/ PrepareSession(s)
    \/ MarkReady(s) \/ EnsureFails(s)

Handle(h) == IF h \in Sessions THEN Ensure(h) ELSE Command(h) \/ Change(h)

Next ==
    \/ \E r \in Requests : Ask(r) \/ StepTimesOut(r)
    \/ Take
    \/ \E r \in Requests : Command(r) \/ Change(r)
    \/ \E s \in Sessions : Ensure(s) \/ RefreshTranscript(s)
    \/ PrepareElsewhere \/ SandboxServes \/ SandboxFails
    \/ \E i \in 1 .. Len(orders) : OrderTimesOut(i)

\* The loops and the handlers go on; a prompt ends, at the latest when the sandbox
\* actor's own action times out.  Nobody has to ask, to look, or to be late.
Fairness ==
    /\ WF_vars(Take) /\ WF_vars(SandboxServes)
    /\ \A h \in Handlers : WF_vars(Handle(h))

Spec == Init /\ [][Next]_vars /\ Fairness

-----------------------------------------------------------------------------
(* Properties *)

Quiet == queue = <<>> /\ orders = <<>> /\ \A h \in Handlers : ~Active(h)

\* A pending session becomes ready or fails, or is closed, whatever its model was
\* changed to in the meantime: nobody is left with a session that only prepares.
SessionsSettle ==
    \A s \in Sessions :
        (s \in Open /\ row[s].status = "pending")
            ~> (s \notin Open \/ row[s].status # "pending" \/ s \in lost)

\* A session is shown as running only while a prompt is on its way, however the
\* prompt ends and whatever happens to the session beneath it.
ThinkingEnds ==
    \A s \in Sessions :
        row[s] # None /\ row[s].thinking /\ s \notin lost
            => \E r \in Requests : S(r) = s /\ at[r] \in {"noting", "prompting"}

\* A task that has a session keeps an open one, however its sessions are closed.
KeepsASession == (\E s \in Sessions : row[s] # None) => Open # {}

\* When everything has come to rest, the agent uses the model the row names, unless
\* the change met another one or an ensure under way, or the sandbox refused it.
ModelInForce ==
    Quiet => \A s \in Open \ unsure : Ready(s) => agent[s].model = row[s].model

\* The loop sends a prompt while git in the sandbox bears its sender's name, however
\* the owner was changed before, unless the sender could not be identified, or the
\* last attempt to inject their credentials failed.
SenderAttributed ==
    \A r \in Requests :
        busy = r /\ at[r] \in {"noting", "prompting"}
            => author = job[r].user \/ unbacked[job[r].user] # "no"
=============================================================================
