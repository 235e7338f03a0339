------------------------- MODULE FoundryTask_proofs -------------------------
(***************************************************************************)
(* What holds of FoundryTask for any sessions, users and models and for    *)
(* any requests, in any order: a session is shown as running only while a  *)
(* prompt is on its way, a task keeps an open session, the agent uses the  *)
(* model the row names, and a prompt is sent while git in the sandbox      *)
(* bears its sender's name.                                                *)
(*                                                                         *)
(* All of it rests on where the handlers can be (Control): every handler   *)
(* but changeModel and a prompt that outlived its step is the one the loop *)
(* runs, a queued request is queued once, and an order the sandbox actor   *)
(* still answers has a handler that waits for it.                          *)
(***************************************************************************)
EXTENDS FoundryTask, FiniteSetTheorems, SequenceTheorems, TLAPS

-----------------------------------------------------------------------------
(* Where the handlers are.                                                  *)

EnsurePlaces == {"idle", "start", "marking", "preparing", "creating", "created", "failing", "done"}
ChangePlaces == {"idle", "start", "changing", "setting", "remaking", "resetting", "destroying",
                 "enqueueing", "done"}
SendPlaces == {"preparing", "claiming", "installing", "swapping", "injecting", "marking",
               "noting", "prompting", "done"}

PlacesOf(h) ==
    CASE Kind(h) = "ensure" -> EnsurePlaces
      [] Kind(h) = "change" -> ChangePlaces
      [] Kind(h) = "create" -> {"idle", "queued", "start", "enqueueing", "done"}
      [] Kind(h) = "create_send" ->
            {"idle", "queued", "start", "enqueueing", "checking"} \cup SendPlaces
      [] Kind(h) = "send" -> {"idle", "queued", "start"} \cup SendPlaces
      [] Kind(h) \in {"stop", "close"} ->
            {"idle", "queued", "start", "destroying", "ending", "done"}
      [] Kind(h) = "owner" -> {"idle", "queued", "start", "done"}
      [] Kind(h) = "none" -> {"idle"}

\* Each handler is at one of its own places.
InPlace == \A h \in Handlers : at[h] \in PlacesOf(h)

\* The loop runs one handler; changeModel runs beside it, and a prompt runs on.
OneRuns ==
    \A h \in Handlers :
        Active(h) /\ Kind(h) # "change" /\ at[h] # "prompting" => busy = h

\* A request is taken from the queue once.
QueuedOnce ==
    /\ \A i \in 1 .. Len(queue) : queue[i] \in Requests => at[queue[i]] = "queued"
    /\ \A i, j \in 1 .. Len(queue) : i < j /\ queue[i] = queue[j] => queue[i] \in Sessions

\* Who waits for the sandbox actor waits for one order.
OrdersAwaited ==
    /\ \A i \in 1 .. Len(orders) : orders[i].heard =>
          at[orders[i].from] = IF Kind(orders[i].from) = "ensure" THEN "creating" ELSE "destroying"
    /\ \A i, j \in 1 .. Len(orders) :
          i < j /\ orders[i].heard /\ orders[j].heard => orders[i].from # orders[j].from

\* A handler that has looked at its session found it.
RowsThere == \A h \in Handlers : Active(h) /\ at[h] # "start" => row[S(h)] # None

Control == InPlace /\ OneRuns /\ QueuedOnce /\ OrdersAwaited /\ RowsThere

-----------------------------------------------------------------------------
(* What the properties rest on besides.                                     *)

\* A session that is being closed is not the last open one.
OtherOpen ==
    \A r \in Requests :
        Kind(r) = "close" /\ at[r] \in {"destroying", "ending"} => \E s \in Open : s # S(r)

\* Git in the sandbox bears a user's name, or there is a reason why it does not.
Backed(u) == author = u \/ unbacked[u] # "no"

Injecting(r) == at[r] \in {"installing", "injecting"}

\* The owner the row names is backed, or is about to be, and so is who sends.
OwnerBacked ==
    /\ owner # None =>
          \/ Backed(owner)
          \/ \E r \in Requests : Injecting(r) /\ job[r].user = owner
    /\ \A r \in Requests : Injecting(r) => owner = job[r].user
    /\ \A r \in Requests :
          (at[r] \in {"marking", "noting"} \/ (at[r] = "prompting" /\ busy = r))
          => Backed(job[r].user)

\* The sandbox actor has still to make the session.
Ordered(s) == \E i \in 1 .. Len(orders) : orders[i].from = s

\* An order that is waited for is for the model that was read, and is the last.
OrdersMade ==
    \A s \in Sessions : \A i \in 1 .. Len(orders) :
        orders[i].from = s /\ orders[i].heard =>
            /\ orders[i].model = seen[s]
            /\ \A j \in 1 .. Len(orders) : i < j => orders[j].from # s

\* A session is not ready while it is made, and what is made is what its row says.
Making ==
    /\ OrdersMade
    /\ \A s \in Sessions :
          /\ at[s] \in {"marking", "preparing", "creating", "created", "failing"} => ~Ready(s)
          /\ at[s] \in {"marking", "preparing", "creating", "created"} /\ s \notin unsure
                => seen[s] = row[s].model
          /\ at[s] = "created" /\ s \notin unsure => agent[s].model = row[s].model
          /\ Ordered(s) => ~Ready(s) /\ at[s] # "created"

\* changeModel is still at it.
Changing(s) ==
    \E r \in Requests :
        Kind(r) = "change" /\ S(r) = s /\ at[r] \in {"setting", "destroying", "remaking"}

ModelTold ==
    /\ \A r \in Requests : at[r] = "setting" /\ S(r) \notin unsure
          => job[r].model = row[S(r)].model
    /\ \A s \in Sessions \ unsure :
          Ready(s) => agent[s].model = row[s].model \/ Changing(s)

IInv ==
    /\ TypeOK /\ Control
    /\ ThinkingEnds
    /\ OtherOpen /\ KeepsASession
    /\ OwnerBacked
    /\ Making /\ ModelTold

-----------------------------------------------------------------------------
(* What is known of a handler.                                              *)

\* The handler of an ensure has the session's own name.
LEMMA SessionFacts ==
    ASSUME NEW s \in Sessions
    PROVE  s \in Handlers /\ s \notin Requests /\ Kind(s) = "ensure" /\ S(s) = s
BY TaskAssumption DEF Handlers, Kind, S

\* What a request is follows from the jobs there can be.
LEMMA RequestFacts ==
    ASSUME TypeOK, NEW r \in Requests
    PROVE  /\ r \in Handlers /\ r \notin Sessions /\ r # None
           /\ Kind(r) = job[r].kind /\ Kind(r) \in Kinds /\ Kind(r) # "ensure"
           /\ S(r) = job[r].session /\ S(r) \in Sessions
           /\ job[r].model \in Models /\ job[r].user \in Users
<1>1. job[r] \in [kind : Kinds, session : Sessions, model : Models, user : Users]
    BY TaskAssumption DEF TypeOK
<1> QED BY <1>1, TaskAssumption DEF Handlers, Kind, S, Kinds

\* Every handler works on a session.
LEMMA HandlerFacts ==
    ASSUME TypeOK, NEW h \in Handlers
    PROVE  S(h) \in Sessions /\ h # None /\ (Kind(h) = "ensure" <=> h \in Sessions)
BY SessionFacts, RequestFacts, TaskAssumption DEF Handlers

\* Every order has the handler it came from.
LEMMA OrderFacts ==
    ASSUME TypeOK
    PROVE  /\ Len(orders) \in Nat
           /\ \A i \in 1 .. Len(orders) :
                 orders[i].from \in Handlers /\ orders[i].model \in Models
                 /\ orders[i].heard \in BOOLEAN
<1>1. orders \in Seq([from : Handlers, model : Models, heard : BOOLEAN])  BY DEF TypeOK
<1>2. \A i \in 1 .. Len(orders) : orders[i] \in [from : Handlers, model : Models, heard : BOOLEAN]
    BY <1>1, ElementOfSeq
<1> QED BY <1>1, <1>2, LenProperties

\* A job never changes.
LEMMA JobFixed ==
    ASSUME job' = job
    PROVE  \A h : Kind(h)' = Kind(h) /\ S(h)' = S(h) /\ PlacesOf(h)' = PlacesOf(h)
BY DEF Kind, S, PlacesOf

\* No step changes what the requests are.
LEMMA JobKept == [Next]_vars => job' = job
BY DEF Next, vars, Ask, StepTimesOut, Take, Command, Change, Ensure, RefreshTranscript,
       PrepareElsewhere, SandboxServes, SandboxFails, OrderTimesOut, CreateSession, EnqueueCreated, PeerFails,
       CheckSendable, PrepareMessage, SwapOwner, InjectCredentials, MarkThinking, Prompt,
       PromptEnds, Stop, Close, EndSession, ChangeOwner, ReadToChange, WriteModel, SetModel,
       Reset, EnqueueChanged, ReadToEnsure, MarkPending, PrepareSession, MarkReady, EnsureFails

-----------------------------------------------------------------------------
(* Control: a handler that takes a step of its own keeps to its places.     *)

Waiting(h) == IF Kind(h) = "ensure" THEN "creating" ELSE "destroying"

Moves(h, p) ==
    /\ job' = job
    /\ Active(h) /\ at[h] \notin {"creating", "destroying"}
    /\ p \in PlacesOf(h) \ {"idle", "queued", "start"}
    /\ at[h] = "prompting" => p = "done"
    /\ at' = [at EXCEPT ![h] = p]
    /\ busy' = busy \/ (p = "done" /\ busy = h /\ busy' = None)
    /\ queue' = queue \/ \E s \in Sessions : queue' = Append(queue, s)
    /\ \/ orders' = orders
       \/ p = Waiting(h) /\ \E m \in Models :
             orders' = Append(orders, [from |-> h, model |-> m, heard |-> TRUE])
    /\ \A s \in Sessions : row[s] # None => row'[s] # None
    /\ p # "done" => row'[S(h)] # None

\* A step of one handler that moves it as Moves says keeps Control.
LEMMA MoveKeeps ==
    ASSUME TypeOK, Control, NEW h \in Handlers, NEW p \in Places, Moves(h, p)
    PROVE  Control'
<1> USE DEF Moves
<1>1. \A g : Kind(g)' = Kind(g) /\ S(g)' = S(g) /\ PlacesOf(g)' = PlacesOf(g)
    BY JobFixed
<1>2. at \in [Handlers -> Places] /\ \A g \in Handlers : at'[g] = IF g = h THEN p ELSE at[g]
    BY DEF TypeOK
<1>3. InPlace'  BY <1>1, <1>2 DEF Control, InPlace
<1>4. OneRuns'
    <2> SUFFICES ASSUME NEW g \in Handlers,
                        at'[g] \notin {"idle", "queued", "done"}, Kind(g) # "change",
                        at'[g] # "prompting"
                 PROVE  busy' = g
        BY <1>1 DEF OneRuns, Active
    <2>1. CASE g = h
        <3>1. p # "done"  BY <1>2, <2>1
        <3>2. at[h] # "prompting"  BY <3>1
        <3> QED BY <2>1, <3>1, <3>2 DEF Control, OneRuns
    <2>2. CASE g # h  BY <1>2, <2>2 DEF Control, OneRuns, Active
    <2> QED BY <2>1, <2>2
<1>5. QueuedOnce'
    <2>1. h \in Requests => \A i \in 1 .. Len(queue) : queue[i] # h
        BY DEF Control, QueuedOnce, Active
    <2>2. \A i \in 1 .. Len(queue) : queue[i] \in Handlers  BY DEF TypeOK
    <2>3. CASE queue' = queue
        BY <1>2, <2>1, <2>2, <2>3 DEF Control, QueuedOnce
    <2>4. ASSUME NEW s \in Sessions, queue' = Append(queue, s)
          PROVE  QueuedOnce'
        <3>1. /\ Len(queue) \in Nat /\ Len(queue') = Len(queue) + 1
              /\ \A i \in 1 .. Len(queue) : queue'[i] = queue[i]
              /\ queue'[Len(queue) + 1] = s
            BY <2>4, AppendProperties, LenProperties DEF TypeOK, Handlers
        <3>2. \A i \in 1 .. Len(queue') : i \in 1 .. Len(queue) \/ (i = Len(queue) + 1)
            BY <3>1
        <3>3. s \notin Requests  BY SessionFacts
        <3>4. \A i \in 1 .. Len(queue') : queue'[i] \in Requests => at'[queue'[i]] = "queued"
            BY <1>2, <2>1, <2>2, <3>1, <3>2, <3>3 DEF Control, QueuedOnce
        <3>5. \A i, j \in 1 .. Len(queue') :
                  i < j /\ queue'[i] = queue'[j] => queue'[i] \in Sessions
            BY <3>1, <3>2 DEF Control, QueuedOnce
        <3> QED BY <3>4, <3>5 DEF QueuedOnce
    <2> QED BY <2>3, <2>4
<1>6. OrdersAwaited'
    <2>1. \A i \in 1 .. Len(orders) : orders[i].from \in Handlers
        BY OrderFacts
    <2>2. \A i \in 1 .. Len(orders) : orders[i].heard => orders[i].from # h
        BY DEF Control, OrdersAwaited
    <2>3. CASE orders' = orders
        BY <1>1, <1>2, <2>1, <2>2, <2>3 DEF Control, OrdersAwaited
    <2>4. ASSUME NEW m \in Models, p = Waiting(h),
                 orders' = Append(orders, [from |-> h, model |-> m, heard |-> TRUE])
          PROVE  OrdersAwaited'
        <3> DEFINE o == [from |-> h, model |-> m, heard |-> TRUE]
        <3>1. /\ Len(orders) \in Nat /\ Len(orders') = Len(orders) + 1
              /\ \A i \in 1 .. Len(orders) : orders'[i] = orders[i]
              /\ orders'[Len(orders) + 1] = o
            BY <2>4, AppendProperties, LenProperties DEF TypeOK
        <3>2. \A i \in 1 .. Len(orders') : i \in 1 .. Len(orders) \/ i = Len(orders) + 1
            BY <3>1
        <3>3. at'[h] = Waiting(h)  BY <1>2, <2>4
        <3>4. \A i \in 1 .. Len(orders') : orders'[i].heard =>
                  at'[orders'[i].from] = Waiting(orders'[i].from)
            BY <1>2, <2>1, <2>2, <3>1, <3>2, <3>3 DEF Control, OrdersAwaited, Waiting
        <3>5. \A i, j \in 1 .. Len(orders') :
                  i < j /\ orders'[i].heard /\ orders'[j].heard => orders'[i].from # orders'[j].from
            BY <2>2, <3>1, <3>2 DEF Control, OrdersAwaited
        <3> QED BY <1>1, <3>4, <3>5 DEF OrdersAwaited, Waiting
    <2> QED BY <2>3, <2>4
<1>7. RowsThere'
    <2> SUFFICES ASSUME NEW g \in Handlers,
                        at'[g] \notin {"idle", "queued", "done", "start"}
                 PROVE  row'[S(g)] # None
        BY <1>1 DEF RowsThere, Active
    <2>1. CASE g = h  BY <1>2, <2>1
    <2>2. CASE g # h
        <3>1. row[S(g)] # None /\ S(g) \in Sessions
            BY <1>2, <2>2, HandlerFacts DEF Control, RowsThere, Active
        <3> QED BY <3>1
    <2> QED BY <2>1, <2>2
<1> QED BY <1>3, <1>4, <1>5, <1>6, <1>7 DEF Control

-----------------------------------------------------------------------------
(* Types.                                                                   *)

\* What the sandbox actor's queue holds.
AnOrder == [from : Handlers, model : Models, heard : BOOLEAN]

\* A handler that goes on keeps the types of what it moves.
LEMMA GotoType ==
    ASSUME TypeOK, NEW h \in Handlers, NEW p \in Places, Goto(h, p)
    PROVE  at' \in [Handlers -> Places]
BY DEF Goto, TypeOK

\* So does one that ends.
LEMMA FinishType ==
    ASSUME TypeOK, NEW h \in Handlers, Finish(h)
    PROVE  at' \in [Handlers -> Places] /\ busy' \in Handlers \cup {None}
BY DEF Finish, Goto, TypeOK, Places

\* A row that is there, and what updateSessionMeta makes of it.
LEMMA RowType ==
    ASSUME TypeOK, NEW s \in Sessions, row[s] # None
    PROVE  /\ row[s] \in Row
           /\ row[s].status \in {"pending", "ready", "error"} /\ row[s].box \in BOOLEAN
           /\ row[s].model \in Models /\ row[s].created \in BOOLEAN
           /\ row[s].closed \in BOOLEAN /\ row[s].thinking \in BOOLEAN
           /\ row[s].transcript \in BOOLEAN
<1>1. row[s] \in Row  BY DEF TypeOK
<1> QED BY <1>1 DEF Row

\* An update that writes a row leaves rows.
LEMMA UpdateType ==
    ASSUME TypeOK, NEW s \in Sessions, NEW new \in Row, Update(s, new)
    PROVE  row' \in [Sessions -> Row \cup {None}]
BY DEF Update, TypeOK

\* An order is appended to orders.
LEMMA OrderType ==
    ASSUME TypeOK, NEW h \in Handlers, NEW m \in Models, Order(h, m)
    PROVE  orders' \in Seq(AnOrder)
<1>1. [from |-> h, model |-> m, heard |-> TRUE] \in AnOrder  BY DEF AnOrder
<1>2. orders \in Seq(AnOrder)  BY DEF TypeOK, AnOrder
<1> QED BY <1>1, <1>2, AppendProperties DEF Order

\* The models that are ordered.
LEMMA ModelKnown ==
    ASSUME TypeOK, NEW r \in Requests
    PROVE  First \in Models /\ job[r].model \in Models /\ \A s \in Sessions : seen[s] \in Models
BY RequestFacts, TaskAssumption DEF TypeOK

\* Which handlers can be at a place.
LEMMA KindsAt ==
    ASSUME TypeOK, Control, NEW r \in Requests
    PROVE  /\ at[r] \in {"checking", "preparing", "claiming", "installing", "swapping",
                         "injecting", "marking", "noting", "prompting"}
                 => Kind(r) \in {"send", "create_send"}
           /\ at[r] \in {"destroying", "ending"} => Kind(r) \in {"stop", "close", "change"}
           /\ at[r] = "ending" => Kind(r) # "change"
           /\ at[r] \in {"changing", "setting", "remaking", "resetting"} => Kind(r) = "change"
           /\ at[r] = "queued" => Kind(r) \notin {"change", "none"}
           /\ at[r] \notin {"creating", "created", "failing"}
<1>1. at[r] \in PlacesOf(r) /\ Kind(r) \in Kinds /\ Kind(r) # "ensure"
    BY RequestFacts DEF Control, InPlace
<1> QED BY <1>1 DEF PlacesOf, EnsurePlaces, ChangePlaces, SendPlaces, Kinds

\* Where a handler of each kind may be.
LEMMA PlacesKnown ==
    ASSUME TypeOK, NEW r \in Requests
    PROVE  /\ Kind(r) \in {"send", "create_send"} => SendPlaces \subseteq PlacesOf(r)
           /\ Kind(r) = "create_send" => "checking" \in PlacesOf(r)
           /\ Kind(r) \in {"create", "create_send"} => "enqueueing" \in PlacesOf(r)
           /\ Kind(r) \in {"stop", "close"} => {"destroying", "ending"} \subseteq PlacesOf(r)
           /\ Kind(r) = "change" => ChangePlaces \subseteq PlacesOf(r)
           /\ Kind(r) # "none" => "done" \in PlacesOf(r)
           /\ Kind(r) \notin {"none", "change"} => {"queued", "start"} \subseteq PlacesOf(r)
<1>1. Kind(r) \in Kinds /\ Kind(r) # "ensure"  BY RequestFacts
<1> QED BY <1>1 DEF PlacesOf, ChangePlaces, SendPlaces, Kinds

\* A row that is there is still there after an update.
LEMMA RowStays ==
    ASSUME TypeOK, NEW s \in Sessions, NEW new \in Row, Update(s, new)
    PROVE  \A x \in Sessions : row[x] # None \/ x = s => row'[x] # None
BY RowAssumption DEF Update, TypeOK

\* Everything updateSessionMeta is called with leaves a row a row.
LEMMA RowUpdates ==
    ASSUME TypeOK, NEW s \in Sessions, row[s] # None
    PROVE  /\ [row[s] EXCEPT !.created = TRUE, !.thinking = TRUE] \in Row
           /\ [row[s] EXCEPT !.thinking = TRUE] \in Row
           /\ \A status \in {"error", row[s].status} :
                 [row[s] EXCEPT !.thinking = FALSE, !.status = status] \in Row
           /\ \A b \in BOOLEAN : [row[s] EXCEPT !.thinking = FALSE, !.closed = @ \/ b] \in Row
           /\ \A m \in Models : [row[s] EXCEPT !.model = m] \in Row
           /\ [row[s] EXCEPT !.status = "pending"] \in Row
           /\ [row[s] EXCEPT !.status = "pending", !.box = FALSE, !.transcript = FALSE,
                             !.thinking = FALSE] \in Row
           /\ [row[s] EXCEPT !.box = TRUE, !.status = "pending"] \in Row
           /\ [row[s] EXCEPT !.box = TRUE, !.status = "ready"] \in Row
           /\ [row[s] EXCEPT !.status = "error"] \in Row
           /\ [row[s] EXCEPT !.transcript = TRUE] \in Row
<1>1. /\ row[s] \in Row
      /\ row[s].status \in {"pending", "ready", "error"} /\ row[s].box \in BOOLEAN
      /\ row[s].model \in Models /\ row[s].created \in BOOLEAN
      /\ row[s].closed \in BOOLEAN /\ row[s].thinking \in BOOLEAN
      /\ row[s].transcript \in BOOLEAN
    BY RowType
<1>2. /\ [row[s] EXCEPT !.created = TRUE, !.thinking = TRUE] \in Row
      /\ [row[s] EXCEPT !.thinking = TRUE] \in Row
    BY <1>1 DEF Row
<1>3. \A status \in {"error", row[s].status} :
          [row[s] EXCEPT !.thinking = FALSE, !.status = status] \in Row
    BY <1>1 DEF Row
<1>4. \A b \in BOOLEAN : [row[s] EXCEPT !.thinking = FALSE, !.closed = @ \/ b] \in Row
    BY <1>1 DEF Row
<1>5. \A m \in Models : [row[s] EXCEPT !.model = m] \in Row
    BY <1>1 DEF Row
<1>6. /\ [row[s] EXCEPT !.status = "pending"] \in Row
      /\ [row[s] EXCEPT !.status = "error"] \in Row
      /\ [row[s] EXCEPT !.transcript = TRUE] \in Row
    BY <1>1 DEF Row
<1>7. [row[s] EXCEPT !.status = "pending", !.box = FALSE, !.transcript = FALSE,
                     !.thinking = FALSE] \in Row
    BY <1>1 DEF Row
<1>8. /\ [row[s] EXCEPT !.box = TRUE, !.status = "pending"] \in Row
      /\ [row[s] EXCEPT !.box = TRUE, !.status = "ready"] \in Row
    BY <1>1 DEF Row
<1> QED BY <1>2, <1>3, <1>4, <1>5, <1>6, <1>7, <1>8

\* What becomes of an agent's session.
LEMMA AgentType ==
    ASSUME TypeOK, NEW s \in Sessions, NEW b \in BOOLEAN, NEW m \in Models
    PROVE  LET T == [Sessions -> [live : BOOLEAN, model : Models \cup {None}]] IN
           /\ [agent EXCEPT ![s].live = b] \in T
           /\ [agent EXCEPT ![s] = [live |-> b, model |-> m]] \in T
<1> DEFINE A == [live : BOOLEAN, model : Models \cup {None}]
<1>1. agent \in [Sessions -> A]  BY DEF TypeOK
<1>2. [agent[s] EXCEPT !.live = b] \in A  BY <1>1
<1>3. [live |-> b, model |-> m] \in A  OBVIOUS
<1> HIDE DEF A
<1>4. [agent EXCEPT ![s] = [agent[s] EXCEPT !.live = b]] \in [Sessions -> A]  BY <1>1, <1>2
<1>5. [agent EXCEPT ![s] = [live |-> b, model |-> m]] \in [Sessions -> A]  BY <1>1, <1>3
<1> QED BY <1>4, <1>5 DEF A

\* Where maybeSwapTaskOwner leaves a message, and one that fails.
LEMMA SwappedMoves ==
    ASSUME TypeOK, NEW r \in Requests, Swapped(r)
    PROVE  /\ at' = [at EXCEPT ![r] = at'[r]] /\ at'[r] \in {"swapping", "marking"}
           /\ busy' = busy /\ prepared' \in BOOLEAN
<1>1. r \in Handlers /\ at \in [Handlers -> Places]  BY RequestFacts DEF TypeOK
<1>2. prepared' \in BOOLEAN  BY DEF Swapped, TypeOK
<1>3. \E p \in {"swapping", "marking"} : at' = [at EXCEPT ![r] = p] /\ busy' = busy
    BY DEF Swapped, Continue, Goto
<1> QED BY <1>1, <1>2, <1>3

LEMMA DroppedMoves ==
    ASSUME TypeOK, NEW r \in Requests, Dropped(r)
    PROVE  /\ at' = [at EXCEPT ![r] = at'[r]] /\ at'[r] = "done"
           /\ busy' = (IF busy = r THEN None ELSE busy) /\ prepared' \in BOOLEAN
<1>1. r \in Handlers /\ at \in [Handlers -> Places]  BY RequestFacts DEF TypeOK
<1>2. prepared' \in BOOLEAN  BY DEF Dropped, TypeOK
<1> QED BY <1>1, <1>2 DEF Dropped, Finish, Goto

\* What a step of maybeSwapTaskOwner or injectGitCredentials moves.
LEMMA SwapMoves ==
    ASSUME TypeOK, Control, NEW r \in Requests, SwapOwner(r) \/ InjectCredentials(r)
    PROVE  /\ at' = [at EXCEPT ![r] = at'[r]]
           /\ at[r] \in {"claiming", "installing", "swapping", "injecting"} /\ busy = r
           /\ \/ at'[r] \in {"swapping", "marking", "installing", "injecting"} /\ busy' = busy
              \/ at'[r] = "done" /\ busy' = None
           /\ prepared' \in BOOLEAN
<1>1. r \in Handlers /\ at \in [Handlers -> Places]  BY RequestFacts DEF TypeOK
<1>2. at[r] \in {"claiming", "installing", "swapping", "injecting"}
    BY DEF SwapOwner, InjectCredentials
<1>3. Kind(r) # "change"  BY <1>2, KindsAt
<1>4. busy = r  BY <1>1, <1>2, <1>3 DEF Control, OneRuns, Active
<1>5. \/ Swapped(r) \/ Dropped(r)
      \/ \E p \in {"installing", "injecting"} : Continue(r, p) /\ prepared' = prepared
    BY DEF SwapOwner, InjectCredentials, At
<1>6. CASE \E p \in {"installing", "injecting"} : Continue(r, p) /\ prepared' = prepared
    BY <1>1, <1>2, <1>4, <1>6 DEF Continue, Goto, TypeOK
<1> QED BY <1>2, <1>4, <1>5, <1>6, SwappedMoves, DroppedMoves

\* The types after a step of a queued request, action by action.
LEMMA CommandType ==
    ASSUME TypeOK, Control, NEW r \in Requests, Command(r)
    PROVE  TypeOK'
<1> USE RequestFacts DEF loopVars, ownerVars, boxVars
<1>1. CASE CreateSession(r)
    <2>1. NewRow("pending", FALSE, job[r].model) \in Row  BY DEF NewRow, Row
    <2>2. row' \in [Sessions -> Row \cup {None}]  BY <1>1, <2>1 DEF CreateSession, TypeOK
    <2>3. at' \in [Handlers -> Places]
        BY <1>1, GotoType DEF CreateSession, Continue, Places
    <2> QED BY <1>1, <2>2, <2>3 DEF CreateSession, Continue, TypeOK
<1>2. CASE EnqueueCreated(r)
    <2>1. queue' \in Seq(Handlers)
        BY <1>2, AppendProperties DEF EnqueueCreated, EnqueueEnsure, TypeOK, Handlers
    <2>2. at' \in [Handlers -> Places] /\ busy' \in Handlers \cup {None}
        BY <1>2, GotoType, FinishType DEF EnqueueCreated, Continue, Places, TypeOK
    <2> QED BY <1>2, <2>1, <2>2 DEF EnqueueCreated, TypeOK
<1>3. CASE PeerFails(r)
    BY <1>3, FinishType DEF PeerFails, TypeOK
<1>4. CASE CheckSendable(r)
    <2>1. at' \in [Handlers -> Places] /\ busy' \in Handlers \cup {None}
        BY <1>4, GotoType, FinishType DEF CheckSendable, Continue, Places, TypeOK
    <2> QED BY <1>4, <2>1 DEF CheckSendable, TypeOK
<1>5. CASE PrepareMessage(r)
    <2>1. at' \in [Handlers -> Places] /\ busy' \in Handlers \cup {None}
        BY <1>5, GotoType, FinishType DEF PrepareMessage, Continue, Places, TypeOK
    <2> QED BY <1>5, <2>1 DEF PrepareMessage, TypeOK
<1>6. CASE SwapOwner(r)
    <2>1. at' \in [Handlers -> Places] /\ busy' \in Handlers \cup {None} /\ prepared' \in BOOLEAN
        BY <1>6, SwapMoves DEF TypeOK, Places
    <2>2. owner' \in Users \cup {None}
          /\ unbacked' \in [Users -> {"no", "unresolved", "refused"}]
        <3>1. /\ owner' \in {owner, job[r].user}
              /\ unbacked' \in {unbacked, [unbacked EXCEPT ![job[r].user] = "unresolved"]}
            BY <1>6 DEF SwapOwner
        <3>2. r \in Requests => job[r].user \in Users
            BY DEF TypeOK
        <3> QED BY <3>1, <3>2 DEF TypeOK
    <2> QED BY <1>6, <2>1, <2>2 DEF SwapOwner, TypeOK
<1>7. CASE InjectCredentials(r)
    <2>1. at' \in [Handlers -> Places] /\ busy' \in Handlers \cup {None} /\ prepared' \in BOOLEAN
        BY <1>7, SwapMoves DEF TypeOK, Places
    <2>2. author' \in Users \cup {None}  BY <1>7 DEF InjectCredentials, TypeOK
    <2>3. unbacked' \in [Users -> {"no", "unresolved", "refused"}]
        <3>1. \A x \in {"no", "refused"} :
                  [unbacked EXCEPT ![job[r].user] = x]
                     \in [Users -> {"no", "unresolved", "refused"}]
            BY DEF TypeOK
        <3> QED BY <1>7, <3>1 DEF InjectCredentials
    <2> QED BY <1>7, <2>1, <2>2, <2>3 DEF InjectCredentials, TypeOK
<1>8. CASE MarkThinking(r)
    <2>1. at' \in [Handlers -> Places]  BY <1>8, GotoType DEF MarkThinking, Places
    <2>2. row[S(r)] # None  BY <1>8 DEF MarkThinking, At, Control, RowsThere, Active
    <2>3. [row[S(r)] EXCEPT !.created = TRUE, !.thinking = TRUE] \in Row
        BY <2>2, RowUpdates
    <2>4. row' \in [Sessions -> Row \cup {None}]
        BY <1>8, <2>3, UpdateType DEF MarkThinking
    <2> QED BY <1>8, <2>1, <2>4 DEF MarkThinking, TypeOK
<1>9. CASE Prompt(r)
    <2>1. at' \in [Handlers -> Places]  BY <1>9, GotoType DEF Prompt, Places
    <2>2. row[S(r)] # None  BY <1>9 DEF Prompt, At, Control, RowsThere, Active
    <2>3. [row[S(r)] EXCEPT !.thinking = TRUE] \in Row  BY <2>2, RowUpdates
    <2>4. row' \in [Sessions -> Row \cup {None}]  BY <1>9, <2>3, UpdateType DEF Prompt
    <2>5. agent' \in [Sessions -> [live : BOOLEAN, model : Models \cup {None}]]
        BY <1>9, AgentType DEF Prompt
    <2> QED BY <1>9, <2>1, <2>4, <2>5 DEF Prompt, TypeOK
<1>10. CASE PromptEnds(r)
    <2>1. at' \in [Handlers -> Places] /\ busy' \in Handlers \cup {None}
        BY <1>10, FinishType DEF PromptEnds
    <2>2. row[S(r)] # None  BY <1>10 DEF PromptEnds, At, Control, RowsThere, Active
    <2>3. \A status \in {"error", row[S(r)].status} :
              [row[S(r)] EXCEPT !.thinking = FALSE, !.status = status] \in Row
        BY <2>2, RowUpdates
    <2>4. row' \in [Sessions -> Row \cup {None}]
        BY <1>10, <2>3, UpdateType DEF PromptEnds, SyncEnded
    <2> QED BY <1>10, <2>1, <2>4 DEF PromptEnds, TypeOK
<1>11. CASE Stop(r)
    <2>1. at' \in [Handlers -> Places] /\ busy' \in Handlers \cup {None}
        BY <1>11, GotoType, FinishType DEF Stop, AskDestroy, Continue, Places, TypeOK
    <2>2. orders' \in Seq(AnOrder)
        BY <1>11, ModelKnown, OrderType DEF Stop, AskDestroy, TypeOK, AnOrder
    <2> QED BY <1>11, <2>1, <2>2 DEF Stop, TypeOK, AnOrder
<1>12. CASE Close(r)
    <2>1. at' \in [Handlers -> Places] /\ busy' \in Handlers \cup {None}
        BY <1>12, GotoType, FinishType DEF Close, AskDestroy, Continue, Places, TypeOK
    <2>2. orders' \in Seq(AnOrder)
        BY <1>12, ModelKnown, OrderType DEF Close, AskDestroy, TypeOK, AnOrder
    <2> QED BY <1>12, <2>1, <2>2 DEF Close, TypeOK, AnOrder
<1>13. CASE EndSession(r)
    <2>1. at' \in [Handlers -> Places] /\ busy' \in Handlers \cup {None}
        BY <1>13, FinishType DEF EndSession
    <2>2. row[S(r)] # None  BY <1>13 DEF EndSession, At, Control, RowsThere, Active
    <2>3. [row[S(r)] EXCEPT !.thinking = FALSE, !.closed = @ \/ Kind(r) = "close"] \in Row
        BY <2>2, RowUpdates
    <2>4. row' \in [Sessions -> Row \cup {None}]
        BY <1>13, <2>3, UpdateType DEF EndSession
    <2> QED BY <1>13, <2>1, <2>4 DEF EndSession, TypeOK
<1>14. CASE ChangeOwner(r)
    <2>1. at' \in [Handlers -> Places] /\ busy' \in Handlers \cup {None}
        BY <1>14, FinishType DEF ChangeOwner
    <2> QED BY <1>14, <2>1 DEF ChangeOwner, TypeOK
<1> QED BY <1>1, <1>2, <1>3, <1>4, <1>5, <1>6, <1>7, <1>8, <1>9, <1>10, <1>11, <1>12, <1>13,
           <1>14 DEF Command

\* The types after a step of changeModel.
LEMMA ChangeType ==
    ASSUME TypeOK, Control, NEW r \in Requests, Change(r)
    PROVE  TypeOK'
<1> USE RequestFacts DEF loopVars, ownerVars, boxVars
<1>1. CASE ReadToChange(r)
    <2>1. at' \in [Handlers -> Places]  BY <1>1, GotoType DEF ReadToChange, Places
    <2> QED BY <1>1, <2>1 DEF ReadToChange, TypeOK
<1>2. CASE WriteModel(r)
    <2>1. at' \in [Handlers -> Places]
        BY <1>2, GotoType DEF WriteModel, AskDestroy, Continue, Places
    <2>2. row[S(r)] # None  BY <1>2 DEF WriteModel, At, Control, RowsThere, Active
    <2>3. [row[S(r)] EXCEPT !.model = job[r].model] \in Row
        BY <2>2, RowUpdates
    <2>4. row' \in [Sessions -> Row \cup {None}]
        BY <1>2, <2>3, UpdateType DEF WriteModel
    <2>5. orders' \in Seq(AnOrder)
        BY <1>2, ModelKnown, OrderType DEF WriteModel, AskDestroy, TypeOK, AnOrder
    <2>6. unsure' \subseteq Sessions  BY <1>2 DEF WriteModel, TypeOK
    <2>7. busy' = busy  BY <1>2 DEF WriteModel, AskDestroy, Continue
    <2> QED BY <1>2, <2>1, <2>4, <2>5, <2>6, <2>7 DEF WriteModel, TypeOK, AnOrder
<1>3. CASE SetModel(r)
    <2>1. at' \in [Handlers -> Places]  BY <1>3, GotoType DEF SetModel, Places
    <2>2. agent' \in [Sessions -> [live : BOOLEAN, model : Models \cup {None}]]
        <3>1. [agent EXCEPT ![S(r)] = [live |-> TRUE, model |-> job[r].model]]
                 \in [Sessions -> [live : BOOLEAN, model : Models \cup {None}]]
            BY AgentType
        <3> QED BY <1>3, <3>1 DEF SetModel, TypeOK
    <2>3. unsure' \subseteq Sessions  BY <1>3 DEF SetModel, TypeOK
    <2> QED BY <1>3, <2>1, <2>2, <2>3 DEF SetModel, TypeOK
<1>4. CASE Reset(r)
    <2>1. at' \in [Handlers -> Places]  BY <1>4, GotoType DEF Reset, Places
    <2>2. row[S(r)] # None  BY <1>4 DEF Reset, At, Control, RowsThere, Active
    <2>3. /\ [row[S(r)] EXCEPT !.status = "pending"] \in Row
          /\ [row[S(r)] EXCEPT !.status = "pending", !.box = FALSE,
                               !.transcript = FALSE, !.thinking = FALSE] \in Row
        BY <2>2, RowUpdates
    <2>4. row' \in [Sessions -> Row \cup {None}]
        BY <1>4, <2>3, UpdateType DEF Reset
    <2> QED BY <1>4, <2>1, <2>4 DEF Reset, TypeOK
<1>5. CASE EnqueueChanged(r)
    <2>1. at' \in [Handlers -> Places]  BY <1>5, GotoType DEF EnqueueChanged, Places
    <2>2. queue' \in Seq(Handlers)
        BY <1>5, AppendProperties DEF EnqueueChanged, EnqueueEnsure, TypeOK, Handlers
    <2> QED BY <1>5, <2>1, <2>2 DEF EnqueueChanged, TypeOK
<1> QED BY <1>1, <1>2, <1>3, <1>4, <1>5 DEF Change

\* The types after a step of an ensure.
LEMMA EnsureType ==
    ASSUME TypeOK, Control, NEW s \in Sessions, Ensure(s)
    PROVE  TypeOK'
<1> USE SessionFacts DEF loopVars, ownerVars, boxVars
<1>1. CASE ReadToEnsure(s)
    <2>1. at' \in [Handlers -> Places] /\ busy' \in Handlers \cup {None}
        BY <1>1, GotoType, FinishType DEF ReadToEnsure, Continue, Places, TypeOK
    <2>2. seen' \in [Sessions -> Models]
        <3>1. s \in Open => row[s].model \in Models  BY RowType DEF Open
        <3> QED BY <1>1, <3>1 DEF ReadToEnsure, TypeOK
    <2> QED BY <1>1, <2>1, <2>2 DEF ReadToEnsure, TypeOK
<1>2. CASE MarkPending(s)
    <2>1. at' \in [Handlers -> Places]  BY <1>2, GotoType DEF MarkPending, Continue, Places
    <2>2. row[s] # None  BY <1>2 DEF MarkPending, At, Control, RowsThere, Active
    <2>3. [row[s] EXCEPT !.box = TRUE, !.status = "pending"] \in Row  BY <2>2, RowUpdates
    <2>4. row' \in [Sessions -> Row \cup {None}]  BY <1>2, <2>3, UpdateType DEF MarkPending
    <2> QED BY <1>2, <2>1, <2>4 DEF MarkPending, Continue, TypeOK
<1>3. CASE PrepareSession(s)
    <2>1. at' \in [Handlers -> Places]
        BY <1>3, GotoType DEF PrepareSession, Continue, Places
    <2>2. seen[s] \in Models  BY DEF TypeOK
    <2>3. orders' \in Seq(AnOrder)
        BY <1>3, <2>2, OrderType DEF PrepareSession, TypeOK, AnOrder
    <2>4. busy' = busy /\ prepared' \in BOOLEAN  BY <1>3 DEF PrepareSession, Continue, TypeOK
    <2> QED BY <1>3, <2>1, <2>3, <2>4 DEF PrepareSession, TypeOK, AnOrder
<1>4. CASE MarkReady(s)
    <2>1. at' \in [Handlers -> Places] /\ busy' \in Handlers \cup {None}
        BY <1>4, FinishType DEF MarkReady
    <2>2. row[s] # None  BY <1>4 DEF MarkReady, At, Control, RowsThere, Active
    <2>3. [row[s] EXCEPT !.box = TRUE, !.status = "ready"] \in Row  BY <2>2, RowUpdates
    <2>4. row' \in [Sessions -> Row \cup {None}]  BY <1>4, <2>3, UpdateType DEF MarkReady
    <2> QED BY <1>4, <2>1, <2>4 DEF MarkReady, TypeOK
<1>5. CASE EnsureFails(s)
    <2>1. at' \in [Handlers -> Places] /\ busy' \in Handlers \cup {None}
        BY <1>5, FinishType DEF EnsureFails
    <2>2. row[s] # None  BY <1>5 DEF EnsureFails, At, Control, RowsThere, Active
    <2>3. [row[s] EXCEPT !.status = "error"] \in Row  BY <2>2, RowUpdates
    <2>4. row' \in [Sessions -> Row \cup {None}]  BY <1>5, <2>3, UpdateType DEF EnsureFails
    <2> QED BY <1>5, <2>1, <2>4 DEF EnsureFails, TypeOK
<1> QED BY <1>1, <1>2, <1>3, <1>4, <1>5 DEF Ensure

\* What the sandbox actor takes from its queue, or what is no longer waited for.
LEMMA NotCarriedType ==
    ASSUME TypeOK, NEW h \in Handlers, NotCarried(h)
    PROVE  /\ at' \in [Handlers -> Places] /\ busy' \in Handlers \cup {None}
           /\ unsure' \subseteq Sessions
<1>1. at' \in [Handlers -> Places] /\ busy' \in Handlers \cup {None}
    BY GotoType, FinishType DEF NotCarried, Continue, Places, TypeOK
<1>2. unsure' \subseteq Sessions  BY HandlerFacts DEF NotCarried, TypeOK
<1> QED BY <1>1, <1>2

\* The orders after the first, and where they were before.
LEMMA OrdersTaken ==
    ASSUME TypeOK, orders # <<>>
    PROVE  /\ 1 \in 1 .. Len(orders) /\ Head(orders) = orders[1]
           /\ Tail(orders) \in Seq(AnOrder) /\ Len(Tail(orders)) = Len(orders) - 1
           /\ \A i \in 1 .. Len(Tail(orders)) :
                 i + 1 \in 1 .. Len(orders) /\ Tail(orders)[i] = orders[i + 1]
<1>1. orders \in Seq(AnOrder) /\ Len(orders) \in Nat  BY LenProperties DEF TypeOK, AnOrder
<1>2. Len(orders) # 0  BY <1>1, EmptySeq
<1>3. /\ Tail(orders) \in Seq(AnOrder) /\ Len(Tail(orders)) = Len(orders) - 1
      /\ \A i \in 1 .. Len(Tail(orders)) : Tail(orders)[i] = orders[i + 1]
    BY <1>1, HeadTailProperties
<1>4. \A i \in 1 .. Len(orders) - 1 : i + 1 \in 1 .. Len(orders)  BY <1>1
<1>5. 1 \in 1 .. Len(orders) /\ Head(orders) = orders[1]  BY <1>1, <1>2
<1> QED BY <1>3, <1>4, <1>5

\* The types after the sandbox actor's steps and a wait that is given up.
LEMMA SandboxType ==
    ASSUME TypeOK, Control,
           SandboxServes \/ SandboxFails \/ \E i \in 1 .. Len(orders) : OrderTimesOut(i)
    PROVE  TypeOK'
<1> USE DEF loopVars, ownerVars, boxVars
<1>1. CASE SandboxServes
    <2> DEFINE o == Head(orders)
    <2>1. /\ o.from \in Handlers /\ o.model \in Models /\ o.heard \in BOOLEAN
          /\ orders' \in Seq(AnOrder)
        BY <1>1, OrderFacts, OrdersTaken DEF SandboxServes
    <2>2. S(o.from) \in Sessions  BY <2>1, HandlerFacts
    <2>3. Carried(o.from) \in Places  BY DEF Carried, Places
    <2>4. at' \in [Handlers -> Places]
        BY <1>1, <2>1, <2>3, GotoType DEF SandboxServes, TypeOK
    <2>5. agent' \in [Sessions -> [live : BOOLEAN, model : Models \cup {None}]]
        <3>1. CASE Kind(o.from) = "ensure"
            BY <1>1, <2>1, <2>2, <3>1, AgentType DEF SandboxServes
        <3>2. CASE Kind(o.from) # "ensure"
            <4>1. agent' = [agent EXCEPT ![S(o.from)].live = FALSE]
                BY <1>1, <3>2 DEF SandboxServes
            <4>2. First \in Models  BY TaskAssumption
            <4> QED BY <2>2, <4>1, <4>2, AgentType
        <3> QED BY <3>1, <3>2
    <2> HIDE DEF o
    <2> QED BY <1>1, <2>1, <2>4, <2>5 DEF SandboxServes, TypeOK, AnOrder
<1>2. CASE SandboxFails
    <2>1. Head(orders).from \in Handlers /\ orders' \in Seq(AnOrder)
        BY <1>2, OrderFacts, OrdersTaken DEF SandboxFails
    <2>2. /\ at' \in [Handlers -> Places] /\ busy' \in Handlers \cup {None}
          /\ unsure' \subseteq Sessions
        BY <1>2, <2>1, NotCarriedType DEF SandboxFails, TypeOK
    <2> QED BY <1>2, <2>1, <2>2 DEF SandboxFails, TypeOK, AnOrder
<1>3. ASSUME NEW i \in 1 .. Len(orders), OrderTimesOut(i) PROVE TypeOK'
    <2>1. orders[i].from \in Handlers  BY OrderFacts
    <2>2. /\ at' \in [Handlers -> Places] /\ busy' \in Handlers \cup {None}
          /\ unsure' \subseteq Sessions
        BY <1>3, <2>1, NotCarriedType DEF OrderTimesOut
    <2>3. orders' \in Seq(AnOrder)
        <3>1. orders \in Seq(AnOrder)  BY DEF TypeOK, AnOrder
        <3>2. orders[i] \in AnOrder  BY <3>1, ElementOfSeq
        <3>3. [orders[i] EXCEPT !.heard = FALSE] \in AnOrder  BY <3>2 DEF AnOrder
        <3>4. orders' = [orders EXCEPT ![i] = [orders[i] EXCEPT !.heard = FALSE]]
            BY <1>3 DEF OrderTimesOut
        <3> QED BY <3>1, <3>3, <3>4, ExceptSeq
    <2> QED BY <1>3, <2>2, <2>3 DEF OrderTimesOut, TypeOK, AnOrder
<1> QED BY <1>1, <1>2, <1>3

\* Every step keeps the types.
LEMMA NextType == TypeOK /\ Control /\ [Next]_vars => TypeOK'
<1> SUFFICES ASSUME TypeOK, Control, [Next]_vars PROVE TypeOK'
    OBVIOUS
<1> USE DEF loopVars, ownerVars, boxVars
<1>1. ASSUME NEW r \in Requests, Ask(r) PROVE TypeOK'
    <2>1. at' \in [Handlers -> Places]
        BY <1>1, RequestFacts, GotoType DEF Ask, Places
    <2>2. queue' \in Seq(Handlers)
        <3>1. queue \in Seq(Handlers) /\ r \in Handlers  BY RequestFacts DEF TypeOK
        <3>2. Append(queue, r) \in Seq(Handlers)  BY <3>1, AppendProperties
        <3> QED BY <1>1, <3>1, <3>2 DEF Ask
    <2> QED BY <1>1, <2>1, <2>2 DEF Ask, TypeOK
<1>2. CASE Take
    <2>1. queue \in Seq(Handlers) /\ queue # <<>>  BY <1>2 DEF Take, TypeOK
    <2>2. Head(queue) \in Handlers /\ Tail(queue) \in Seq(Handlers)
        BY <2>1, HeadTailProperties
    <2>3. at' \in [Handlers -> Places]  BY <1>2, <2>2, GotoType DEF Take, Places
    <2> QED BY <1>2, <2>2, <2>3 DEF Take, TypeOK
<1>3. ASSUME NEW r \in Requests, StepTimesOut(r) PROVE TypeOK'
    BY <1>3 DEF StepTimesOut, TypeOK
<1>4. ASSUME NEW s \in Sessions, RefreshTranscript(s) PROVE TypeOK'
    <2>1. row[s] # None  BY <1>4 DEF RefreshTranscript, Open
    <2>2. [row[s] EXCEPT !.transcript = TRUE] \in Row  BY <2>1, RowUpdates
    <2>3. row' \in [Sessions -> Row \cup {None}]
        BY <1>4, <2>2, UpdateType DEF RefreshTranscript
    <2> QED BY <1>4, <2>3 DEF RefreshTranscript, TypeOK
<1>5. CASE UNCHANGED vars  BY <1>5 DEF vars, TypeOK
<1>6. CASE PrepareElsewhere  BY <1>6 DEF PrepareElsewhere, TypeOK
<1> QED BY <1>1, <1>2, <1>3, <1>4, <1>5, <1>6, CommandType, ChangeType, EnsureType, SandboxType
        DEF Next

\* What a handler may do next: the facts of MoveKeeps, action by action.
LEMMA CommandMoves ==
    ASSUME TypeOK, Control, NEW r \in Requests, Command(r)
    PROVE  Moves(r, at'[r]) /\ at'[r] \in Places
<1> USE RequestFacts, KindsAt, PlacesKnown DEF loopVars, ownerVars, boxVars, SendPlaces, At, Active
<1>0. /\ at \in [Handlers -> Places] /\ at'[r] \in Places
    <2>1. TypeOK'  BY CommandType
    <2> QED BY <2>1 DEF TypeOK
<1>20. at[r] \notin {"idle", "queued", "done", "start"} => row[S(r)] # None
    BY DEF Control, RowsThere
<1>1. CASE CreateSession(r)
    <2>1. NewRow("pending", FALSE, job[r].model) # None
        <3>1. NewRow("pending", FALSE, job[r].model) \in Row  BY DEF NewRow, Row
        <3> QED BY <3>1, RowAssumption
    <2>2. \A s \in Sessions : row'[s] # None \/ row'[s] = row[s]
        BY <1>1, <2>1 DEF CreateSession, TypeOK
    <2>3. row'[S(r)] # None  BY <1>1, <2>1 DEF CreateSession, TypeOK
    <2> QED BY <1>0, <1>1, <2>2, <2>3 DEF CreateSession, Continue, Goto, Moves
<1>2. CASE EnqueueCreated(r)
    BY <1>0, <1>20, <1>2 DEF EnqueueCreated, EnqueueEnsure, Continue, Finish, Goto, Moves
<1>3. CASE PeerFails(r)
    BY <1>0, <1>20, <1>3 DEF PeerFails, Finish, Goto, Moves
<1>4. CASE CheckSendable(r)
    <2>1. Ready(S(r)) => row[S(r)] # None  BY DEF Ready
    <2> QED BY <1>0, <2>1, <1>4 DEF CheckSendable, Continue, Finish, Goto, Moves
<1>5. CASE PrepareMessage(r)
    BY <1>0, <1>20, <1>5 DEF PrepareMessage, Continue, Finish, Goto, Moves
<1>6. CASE SwapOwner(r)
    BY <1>0, <1>20, <1>6, SwapMoves DEF SwapOwner, Moves
<1>7. CASE InjectCredentials(r)
    BY <1>0, <1>20, <1>7, SwapMoves DEF InjectCredentials, Moves
<1>8. CASE MarkThinking(r)
    <2>1. \A s \in Sessions : row[s] # None \/ s = S(r) => row'[s] # None
        BY <1>20, <1>8, RowUpdates, RowStays DEF MarkThinking
    <2> QED BY <1>0, <1>8, <2>1 DEF MarkThinking, Goto, Moves
<1>9. CASE Prompt(r)
    <2>1. \A s \in Sessions : row[s] # None \/ s = S(r) => row'[s] # None
        BY <1>20, <1>9, RowUpdates, RowStays DEF Prompt
    <2> QED BY <1>0, <1>9, <2>1 DEF Prompt, Goto, Moves
<1>10. CASE PromptEnds(r)
    <2>1. \A s \in Sessions : row[s] # None \/ s = S(r) => row'[s] # None
        BY <1>20, <1>10, RowUpdates, RowStays DEF PromptEnds, SyncEnded
    <2> QED BY <1>0, <1>10, <2>1 DEF PromptEnds, Finish, Goto, Moves
<1>11. CASE Stop(r)
    <2>1. Ready(S(r)) => row[S(r)] # None  BY DEF Ready
    <2> QED BY <1>0, <1>11, <2>1, ModelKnown
            DEF Stop, AskDestroy, Order, Continue, Finish, Goto, Moves, Waiting
<1>12. CASE Close(r)
    BY <1>0, <1>12, ModelKnown
       DEF Close, AskDestroy, Order, Continue, Finish, Goto, Moves, Waiting
<1>13. CASE EndSession(r)
    <2>1. \A s \in Sessions : row[s] # None \/ s = S(r) => row'[s] # None
        BY <1>20, <1>13, RowUpdates, RowStays DEF EndSession
    <2> QED BY <1>0, <1>13, <2>1 DEF EndSession, Finish, Goto, Moves
<1>14. CASE ChangeOwner(r)
    BY <1>0, <1>14 DEF ChangeOwner, Finish, Goto, Moves
<1> QED BY <1>1, <1>2, <1>3, <1>4, <1>5, <1>6, <1>7, <1>8, <1>9, <1>10, <1>11, <1>12, <1>13,
           <1>14 DEF Command

\* What changeModel may do next.
LEMMA ChangeMoves ==
    ASSUME TypeOK, Control, NEW r \in Requests, Change(r)
    PROVE  Moves(r, at'[r]) /\ at'[r] \in Places
<1> USE RequestFacts, KindsAt, PlacesKnown
        DEF loopVars, ownerVars, boxVars, ChangePlaces, At, Active
<1>0. at \in [Handlers -> Places] /\ at'[r] \in Places
    <2>1. TypeOK'  BY ChangeType
    <2> QED BY <2>1 DEF TypeOK
<1>20. at[r] \notin {"idle", "queued", "done", "start"} => row[S(r)] # None
    BY DEF Control, RowsThere
<1>1. CASE ReadToChange(r)
    <2>1. S(r) \in Open => row[S(r)] # None  BY DEF Open
    <2> QED BY <1>0, <1>1, <2>1 DEF ReadToChange, Goto, Moves
<1>2. CASE WriteModel(r)
    <2>1. \A s \in Sessions : row[s] # None \/ s = S(r) => row'[s] # None
        BY <1>20, <1>2, RowUpdates, RowStays DEF WriteModel
    <2> QED BY <1>0, <1>2, <2>1, ModelKnown
            DEF WriteModel, AskDestroy, Order, Continue, Goto, Moves, Waiting
<1>3. CASE SetModel(r)
    BY <1>0, <1>20, <1>3 DEF SetModel, Goto, Moves
<1>4. CASE Reset(r)
    <2>1. \A s \in Sessions : row[s] # None \/ s = S(r) => row'[s] # None
        BY <1>20, <1>4, RowUpdates, RowStays DEF Reset
    <2> QED BY <1>0, <1>4, <2>1 DEF Reset, Goto, Moves
<1>5. CASE EnqueueChanged(r)
    BY <1>0, <1>20, <1>5 DEF EnqueueChanged, EnqueueEnsure, Goto, Moves
<1> QED BY <1>1, <1>2, <1>3, <1>4, <1>5 DEF Change

\* What an ensure may do next.
LEMMA EnsureMoves ==
    ASSUME TypeOK, Control, NEW s \in Sessions, Ensure(s)
    PROVE  Moves(s, at'[s]) /\ at'[s] \in Places
<1> USE SessionFacts DEF loopVars, ownerVars, boxVars, At, Active
<1>0. /\ at \in [Handlers -> Places] /\ at'[s] \in Places
      /\ PlacesOf(s) = EnsurePlaces
    <2>1. TypeOK'  BY EnsureType
    <2>2. PlacesOf(s) = EnsurePlaces  BY DEF PlacesOf
    <2> QED BY <2>1, <2>2 DEF TypeOK
<1>20. at[s] \notin {"idle", "queued", "done", "start"} => row[s] # None
    BY DEF Control, RowsThere
<1>1. CASE ReadToEnsure(s)
    <2>1. s \in Open => row[s] # None  BY DEF Open
    <2> QED BY <1>0, <1>1, <2>1 DEF ReadToEnsure, Continue, Finish, Goto, Moves, EnsurePlaces
<1>2. CASE MarkPending(s)
    <2>1. \A x \in Sessions : row[x] # None \/ x = s => row'[x] # None
        BY <1>20, <1>2, RowUpdates, RowStays DEF MarkPending
    <2> QED BY <1>0, <1>2, <2>1 DEF MarkPending, Continue, Goto, Moves, EnsurePlaces
<1>3. CASE PrepareSession(s)
    <2>1. seen[s] \in Models  BY DEF TypeOK
    <2> QED BY <1>0, <1>20, <1>3, <2>1
            DEF PrepareSession, Order, Continue, Goto, Moves, EnsurePlaces, Waiting
<1>4. CASE MarkReady(s)
    <2>1. \A x \in Sessions : row[x] # None \/ x = s => row'[x] # None
        BY <1>20, <1>4, RowUpdates, RowStays DEF MarkReady
    <2> QED BY <1>0, <1>4, <2>1 DEF MarkReady, Finish, Goto, Moves, EnsurePlaces
<1>5. CASE EnsureFails(s)
    <2>1. \A x \in Sessions : row[x] # None \/ x = s => row'[x] # None
        BY <1>20, <1>5, RowUpdates, RowStays DEF EnsureFails
    <2> QED BY <1>0, <1>5, <2>1 DEF EnsureFails, Finish, Goto, Moves, EnsurePlaces
<1> QED BY <1>1, <1>2, <1>3, <1>4, <1>5 DEF Ensure

\* An order is carried out, or not, or not in time: its handler goes on.
LEMMA AnsweredKeeps ==
    ASSUME TypeOK, Control, job' = job, UNCHANGED <<queue, row>>,
           NEW h \in Handlers, NEW p \in PlacesOf(h),
           p \notin {"idle", "queued", "start", "creating", "destroying", "prompting"},
           at[h] = Waiting(h), at' = [at EXCEPT ![h] = p],
           busy' = busy \/ (p = "done" /\ busy = h /\ busy' = None),
           \A i \in 1 .. Len(orders') : orders'[i].heard =>
              /\ orders'[i].from \in Handlers \ {h}
              /\ at[orders'[i].from] = Waiting(orders'[i].from),
           \A i, j \in 1 .. Len(orders') :
              i < j /\ orders'[i].heard /\ orders'[j].heard => orders'[i].from # orders'[j].from
    PROVE  Control'
<1>1. \A g : Kind(g)' = Kind(g) /\ S(g)' = S(g) /\ PlacesOf(g)' = PlacesOf(g)
    BY JobFixed
<1>2. at \in [Handlers -> Places] /\ \A g \in Handlers : at'[g] = IF g = h THEN p ELSE at[g]
    BY DEF TypeOK
<1>3. at[h] \in {"creating", "destroying"}  BY DEF Waiting
<1>4. InPlace'  BY <1>1, <1>2 DEF Control, InPlace
<1>5. OneRuns'
    <2> SUFFICES ASSUME NEW g \in Handlers,
                        at'[g] \notin {"idle", "queued", "done"}, Kind(g) # "change",
                        at'[g] # "prompting"
                 PROVE  busy' = g
        BY <1>1 DEF OneRuns, Active
    <2>1. at[g] \notin {"idle", "queued", "done", "prompting"}  BY <1>2, <1>3
    <2>2. busy = g  BY <2>1 DEF Control, OneRuns, Active
    <2>3. CASE busy' = busy  BY <2>2, <2>3
    <2>4. CASE p = "done" /\ busy = h /\ busy' = None
        BY <1>2, <2>2, <2>4
    <2> QED BY <2>3, <2>4
<1>6. QueuedOnce'
    <2>1. \A i \in 1 .. Len(queue) : queue[i] \in Handlers  BY DEF TypeOK
    <2>2. \A i \in 1 .. Len(queue) : queue[i] \in Requests => queue[i] # h
        BY <1>3 DEF Control, QueuedOnce
    <2> QED BY <1>2, <2>1, <2>2 DEF Control, QueuedOnce
<1>7. OrdersAwaited'
    BY <1>1, <1>2 DEF OrdersAwaited, Waiting
<1>8. RowsThere'
    <2> SUFFICES ASSUME NEW g \in Handlers,
                        at'[g] \notin {"idle", "queued", "done", "start"}
                 PROVE  row[S(g)] # None
        BY <1>1 DEF RowsThere, Active
    <2>1. at[g] \notin {"idle", "queued", "done", "start"}  BY <1>2, <1>3
    <2> QED BY <2>1 DEF Control, RowsThere, Active
<1> QED BY <1>4, <1>5, <1>6, <1>7, <1>8 DEF Control

\* Where a handler that waits for an order goes on is a place of its own.
LEMMA CarriedPlace ==
    ASSUME TypeOK, Control, NEW h \in Handlers, at[h] = Waiting(h)
    PROVE  /\ Carried(h) \in PlacesOf(h)
           /\ Carried(h) \in {"created", "remaking", "ending"}
           /\ "done" \in PlacesOf(h)
           /\ Kind(h) = "ensure" => "failing" \in PlacesOf(h)
<1>1. CASE h \in Sessions
    BY <1>1, SessionFacts DEF Carried, PlacesOf, EnsurePlaces
<1>2. CASE h \in Requests
    <2>1. Kind(h) \in {"stop", "close", "change"}
        BY <1>2, KindsAt, RequestFacts DEF Waiting
    <2> QED BY <2>1 DEF Carried, PlacesOf, ChangePlaces
<1> QED BY <1>1, <1>2 DEF Handlers

\* A handler whose order was not carried out fails or ends.
LEMMA NotCarriedMoves ==
    ASSUME TypeOK, Control, NEW h \in Handlers, at[h] = Waiting(h), NotCarried(h)
    PROVE  \E p \in PlacesOf(h) :
              /\ p \in {"failing", "done"}
              /\ at' = [at EXCEPT ![h] = p]
              /\ busy' = busy \/ (p = "done" /\ busy = h /\ busy' = None)
BY CarriedPlace DEF NotCarried, Continue, Finish, Goto

\* The order that is no longer waited for.
LEMMA OrderUnheard ==
    ASSUME TypeOK, NEW i \in 1 .. Len(orders), OrderTimesOut(i)
    PROVE  /\ Len(orders') = Len(orders) /\ Len(orders) \in Nat
           /\ \A j \in 1 .. Len(orders) :
                 orders'[j] = IF j = i THEN [orders[i] EXCEPT !.heard = FALSE] ELSE orders[j]
           /\ [orders[i] EXCEPT !.heard = FALSE].heard = FALSE
<1>1. orders \in Seq(AnOrder)  BY DEF TypeOK, AnOrder
<1>2. orders[i] \in AnOrder  BY <1>1, ElementOfSeq
<1>3. [orders[i] EXCEPT !.heard = FALSE] \in AnOrder
      /\ [orders[i] EXCEPT !.heard = FALSE].heard = FALSE
    BY <1>2 DEF AnOrder
<1>4. orders' = [orders EXCEPT ![i] = [orders[i] EXCEPT !.heard = FALSE]]
    BY DEF OrderTimesOut
<1> QED BY <1>1, <1>3, <1>4, ExceptSeq, LenProperties

\* Who is answered, or waits no longer, is the one that waited.
LEMMA SandboxControl ==
    ASSUME TypeOK, Control,
           SandboxServes \/ SandboxFails \/ \E i \in 1 .. Len(orders) : OrderTimesOut(i)
    PROVE  Control'
<1> USE DEF loopVars, ownerVars, boxVars
<1>1. \A i \in 1 .. Len(orders) : orders[i].heard =>
          at[orders[i].from] = Waiting(orders[i].from)
    BY DEF Control, OrdersAwaited, Waiting
<1>2. ASSUME orders # <<>>, orders' = Tail(orders), UNCHANGED <<job, queue, row>>
      PROVE  LET h == Head(orders).from IN
             /\ h \in Handlers
             /\ Head(orders).heard =>
                   /\ at[h] = Waiting(h)
                   /\ \A i \in 1 .. Len(orders') : orders'[i].heard =>
                         orders'[i].from \in Handlers \ {h}
             /\ \A i \in 1 .. Len(orders') : orders'[i].heard =>
                   /\ orders'[i].from \in Handlers
                   /\ at[orders'[i].from] = Waiting(orders'[i].from)
             /\ \A i, j \in 1 .. Len(orders') :
                   i < j /\ orders'[i].heard /\ orders'[j].heard
                   => orders'[i].from # orders'[j].from
    <2>1. /\ 1 \in 1 .. Len(orders) /\ Head(orders) = orders[1]
          /\ \A i \in 1 .. Len(orders') :
                i + 1 \in 1 .. Len(orders) /\ orders'[i] = orders[i + 1]
        BY <1>2, OrdersTaken
    <2>2. \A i \in 1 .. Len(orders') : 1 < i + 1
        BY <1>2, OrdersTaken
    <2>3. \A i, j \in 1 .. Len(orders') : i < j => i + 1 < j + 1
        BY <1>2, OrdersTaken
    <2>4. \A i \in 1 .. Len(orders) : orders[i].from \in Handlers  BY OrderFacts
    <2>5. \A i, j \in 1 .. Len(orders) :
              i < j /\ orders[i].heard /\ orders[j].heard => orders[i].from # orders[j].from
        BY DEF Control, OrdersAwaited
    <2>6. Head(orders).heard => \A i \in 1 .. Len(orders') :
              orders'[i].heard => orders'[i].from # Head(orders).from
        BY <2>1, <2>2, <2>5
    <2>7. \A i, j \in 1 .. Len(orders') :
              i < j /\ orders'[i].heard /\ orders'[j].heard => orders'[i].from # orders'[j].from
        <3> SUFFICES ASSUME NEW i \in 1 .. Len(orders'), NEW j \in 1 .. Len(orders'),
                            i < j, orders'[i].heard, orders'[j].heard
                     PROVE  orders'[i].from # orders'[j].from
            OBVIOUS
        <3>1. i + 1 \in 1 .. Len(orders) /\ orders'[i] = orders[i + 1]  BY <2>1
        <3>2. j + 1 \in 1 .. Len(orders) /\ orders'[j] = orders[j + 1]  BY <2>1
        <3>3. i + 1 < j + 1  BY <2>3
        <3>4. orders[i + 1].heard /\ orders[j + 1].heard  BY <3>1, <3>2
        <3>5. orders[i + 1].from # orders[j + 1].from  BY <2>5, <3>1, <3>2, <3>3, <3>4
        <3> QED BY <3>1, <3>2, <3>5
    <2> QED BY <1>1, <2>1, <2>4, <2>6, <2>7
<1>3. ASSUME UNCHANGED <<job, queue, row, at, busy>>,
             \A i \in 1 .. Len(orders') : orders'[i].heard =>
                /\ orders'[i].from \in Handlers
                /\ at[orders'[i].from] = Waiting(orders'[i].from),
             \A i, j \in 1 .. Len(orders') :
                i < j /\ orders'[i].heard /\ orders'[j].heard => orders'[i].from # orders'[j].from
      PROVE  Control'
    <2>1. \A g : Kind(g)' = Kind(g) /\ S(g)' = S(g) /\ PlacesOf(g)' = PlacesOf(g)
        BY <1>3, JobFixed
    <2>2. OrdersAwaited'  BY <1>3, <2>1 DEF OrdersAwaited, Waiting
    <2>3. InPlace' /\ OneRuns' /\ QueuedOnce' /\ RowsThere'
        BY <1>3, <2>1 DEF Control, InPlace, OneRuns, QueuedOnce, RowsThere, Active
    <2> QED BY <2>2, <2>3 DEF Control
<1>4. CASE SandboxServes
    <2> DEFINE h == Head(orders).from
    <2>1. orders # <<>> /\ orders' = Tail(orders) /\ UNCHANGED <<job, queue, row, busy>>
        BY <1>4 DEF SandboxServes
    <2>2. CASE Head(orders).heard
        <3>1. at[h] = Waiting(h) /\ h \in Handlers  BY <1>2, <2>1, <2>2
        <3>2. at' = [at EXCEPT ![h] = Carried(h)]  BY <1>4, <2>2 DEF SandboxServes, Goto
        <3>3. Carried(h) \in PlacesOf(h) /\ Carried(h) \in {"created", "remaking", "ending"}
            BY <3>1, CarriedPlace
        <3> QED BY <1>2, <2>1, <2>2, <3>1, <3>2, <3>3, AnsweredKeeps
    <2>3. CASE ~Head(orders).heard
        <3>1. at' = at  BY <1>4, <2>3 DEF SandboxServes
        <3> QED BY <1>2, <1>3, <2>1, <3>1
    <2> QED BY <2>2, <2>3
<1>5. CASE SandboxFails
    <2> DEFINE h == Head(orders).from
    <2>1. orders # <<>> /\ orders' = Tail(orders) /\ UNCHANGED <<job, queue, row>>
        BY <1>5 DEF SandboxFails
    <2>2. CASE Head(orders).heard
        <3>1. at[h] = Waiting(h) /\ h \in Handlers  BY <1>2, <2>1, <2>2
        <3>2. NotCarried(h)  BY <1>5, <2>2 DEF SandboxFails
        <3>3. PICK p \in PlacesOf(h) :
                  /\ p \in {"failing", "done"}
                  /\ at' = [at EXCEPT ![h] = p]
                  /\ busy' = busy \/ (p = "done" /\ busy = h /\ busy' = None)
            BY <3>1, <3>2, NotCarriedMoves
        <3> QED BY <1>2, <2>1, <2>2, <3>1, <3>3, AnsweredKeeps
    <2>3. CASE ~Head(orders).heard
        <3>1. at' = at /\ busy' = busy  BY <1>5, <2>3 DEF SandboxFails
        <3> QED BY <1>2, <1>3, <2>1, <3>1
    <2> QED BY <2>2, <2>3
<1>6. ASSUME NEW i \in 1 .. Len(orders), OrderTimesOut(i) PROVE Control'
    <2> DEFINE h == orders[i].from
    <2>1. h \in Handlers /\ at[h] = Waiting(h) /\ orders[i].heard /\ NotCarried(h)
        BY <1>1, <1>6, OrderFacts DEF OrderTimesOut
    <2>2. PICK p \in PlacesOf(h) :
              /\ p \in {"failing", "done"}
              /\ at' = [at EXCEPT ![h] = p]
              /\ busy' = busy \/ (p = "done" /\ busy = h /\ busy' = None)
        BY <2>1, NotCarriedMoves
    <2>3. /\ Len(orders') = Len(orders) /\ Len(orders) \in Nat
          /\ \A j \in 1 .. Len(orders) :
                orders'[j] = IF j = i THEN [orders[i] EXCEPT !.heard = FALSE] ELSE orders[j]
        BY <1>6, OrderUnheard
    <2>4. \A j \in 1 .. Len(orders) : orders'[j].heard =>
              j # i /\ orders'[j] = orders[j] /\ orders[j].heard
        <3>1. [orders[i] EXCEPT !.heard = FALSE].heard = FALSE
            BY OrderUnheard, <1>6
        <3> QED BY <2>3, <3>1
    <2>5. \A j, k \in 1 .. Len(orders) :
              j < k /\ orders[j].heard /\ orders[k].heard => orders[j].from # orders[k].from
        BY DEF Control, OrdersAwaited
    <2>6. \A j \in 1 .. Len(orders) : j < i \/ j = i \/ i < j  BY <2>3
    <2>7. \A j \in 1 .. Len(orders') : orders'[j].heard =>
              /\ orders'[j].from \in Handlers \ {h}
              /\ at[orders'[j].from] = Waiting(orders'[j].from)
        BY <1>1, <2>1, <2>3, <2>4, <2>5, <2>6, OrderFacts
    <2>8. \A j, k \in 1 .. Len(orders') :
              j < k /\ orders'[j].heard /\ orders'[k].heard => orders'[j].from # orders'[k].from
        BY <2>3, <2>4, <2>5
    <2>9. UNCHANGED <<job, queue, row>>  BY <1>6 DEF OrderTimesOut
    <2> HIDE DEF h
    <2> QED BY <2>1, <2>2, <2>7, <2>8, <2>9, AnsweredKeeps
<1> QED BY <1>4, <1>5, <1>6

\* A request is asked once, and taken from the queue once.
LEMMA AskControl ==
    ASSUME TypeOK, Control, NEW r \in Requests, Ask(r)
    PROVE  Control'
<1> USE DEF loopVars, ownerVars, boxVars
<1>1. \A g : Kind(g)' = Kind(g) /\ S(g)' = S(g) /\ PlacesOf(g)' = PlacesOf(g)
    BY JobFixed DEF Ask
<1>2. /\ r \in Handlers /\ r \notin Sessions /\ Kind(r) # "none" /\ at[r] = "idle"
      /\ at \in [Handlers -> Places] /\ queue \in Seq(Handlers)
      /\ UNCHANGED <<busy, row, orders>>
    BY RequestFacts DEF Ask, At, TypeOK
<1>3. at' = [at EXCEPT ![r] = IF Kind(r) = "change" THEN "start" ELSE "queued"]
    BY DEF Ask, Goto
<1>4. \A g \in Handlers : at'[g] = IF g # r THEN at[g]
                                   ELSE IF Kind(r) = "change" THEN "start" ELSE "queued"
    BY <1>2, <1>3
<1>5. InPlace'
    <2>1. at'[r] \in PlacesOf(r)  BY <1>2, <1>4, PlacesKnown DEF ChangePlaces
    <2> QED BY <1>1, <1>4, <2>1 DEF Control, InPlace
<1>6. OneRuns'  BY <1>1, <1>2, <1>4 DEF Control, OneRuns, Active
<1>7. QueuedOnce'
    <2>1. \A i \in 1 .. Len(queue) : queue[i] # r /\ queue[i] \in Handlers
        BY <1>2 DEF Control, QueuedOnce
    <2>2. CASE Kind(r) = "change"
        BY <1>4, <2>1, <2>2 DEF Ask, Control, QueuedOnce
    <2>3. CASE Kind(r) # "change"
        <3>1. queue' = Append(queue, r)  BY <2>3 DEF Ask
        <3>2. /\ Len(queue) \in Nat /\ Len(queue') = Len(queue) + 1
              /\ \A i \in 1 .. Len(queue) : queue'[i] = queue[i]
              /\ queue'[Len(queue) + 1] = r
            BY <1>2, <3>1, AppendProperties, LenProperties
        <3>3. \A i \in 1 .. Len(queue') : i \in 1 .. Len(queue) \/ (i = Len(queue) + 1)
            BY <3>2
        <3>4. at'[r] = "queued"  BY <1>2, <1>4, <2>3
        <3>5. \A i \in 1 .. Len(queue') : queue'[i] \in Requests => at'[queue'[i]] = "queued"
            BY <1>4, <2>1, <3>2, <3>3, <3>4 DEF Control, QueuedOnce
        <3>6. \A i, j \in 1 .. Len(queue') :
                  i < j /\ queue'[i] = queue'[j] => queue'[i] \in Sessions
            BY <2>1, <3>2, <3>3 DEF Control, QueuedOnce
        <3> QED BY <3>5, <3>6 DEF QueuedOnce
    <2> QED BY <2>2, <2>3
<1>8. OrdersAwaited'
    <2>1. \A i \in 1 .. Len(orders) : orders[i].from \in Handlers  BY OrderFacts
    <2> QED BY <1>1, <1>2, <1>4, <2>1 DEF Control, OrdersAwaited
<1>9. RowsThere'  BY <1>1, <1>2, <1>4 DEF Control, RowsThere, Active
<1> QED BY <1>5, <1>6, <1>7, <1>8, <1>9 DEF Control

\* The loop takes a handler that is not under way, and only when it runs none.
LEMMA TakeControl ==
    ASSUME TypeOK, Control, Take
    PROVE  Control'
<1> USE DEF loopVars, ownerVars, boxVars
<1> DEFINE h == Head(queue)
<1>1. \A g : Kind(g)' = Kind(g) /\ S(g)' = S(g) /\ PlacesOf(g)' = PlacesOf(g)
    BY JobFixed DEF Take
<1>2. /\ queue \in Seq(Handlers) /\ queue # <<>> /\ Len(queue) \in Nat
      /\ at \in [Handlers -> Places] /\ busy = None
      /\ UNCHANGED <<row, orders>>
    BY LenProperties DEF Take, TypeOK
<1>3. /\ Len(queue') = Len(queue) - 1 /\ queue' \in Seq(Handlers)
      /\ \A i \in 1 .. Len(queue') : queue'[i] = queue[i + 1]
    BY <1>2, HeadTailProperties DEF Take
<1>4. /\ 1 \in 1 .. Len(queue) /\ h = queue[1] /\ h \in Handlers
      /\ \A i \in 1 .. Len(queue') : i + 1 \in 1 .. Len(queue) /\ queue'[i] = queue[i + 1]
    <2>1. Len(queue) # 0 /\ h = queue[1]  BY <1>2, EmptySeq
    <2> QED BY <1>2, <1>3, <2>1, HeadTailProperties
<1>5. /\ at' = [at EXCEPT ![h] = "start"] /\ busy' = h
      /\ \A g \in Handlers : at'[g] = IF g = h THEN "start" ELSE at[g]
    BY <1>2, <1>4 DEF Take, Goto
<1>6. h \in Requests => at[h] = "queued" /\ Kind(h) \notin {"change", "none"}
    BY <1>4, KindsAt DEF Control, QueuedOnce
<1>7. h \in Sessions => at[h] \in {"idle", "done"}
    <2>1. ASSUME h \in Sessions PROVE at[h] \in EnsurePlaces /\ Kind(h) = "ensure" /\ h # None
        BY <1>4, <2>1, SessionFacts, HandlerFacts DEF Control, InPlace, PlacesOf
    <2> QED BY <1>2, <1>4, <2>1 DEF Control, OneRuns, Active, EnsurePlaces
<1>8. at[h] \in {"idle", "queued", "done"}  BY <1>4, <1>6, <1>7 DEF Handlers
<1> HIDE DEF h
<1>9. InPlace'
    <2>1. "start" \in PlacesOf(h)
        BY <1>4, <1>6, PlacesKnown, SessionFacts DEF Handlers, PlacesOf, EnsurePlaces
    <2> QED BY <1>1, <1>5, <2>1 DEF Control, InPlace
<1>10. OneRuns'
    <2>1. \A g \in Handlers : g # None  BY HandlerFacts
    <2> QED BY <1>1, <1>2, <1>5, <2>1 DEF Control, OneRuns, Active
<1>11. QueuedOnce'
    <2>1. \A i \in 1 .. Len(queue') :
              /\ queue'[i] \in Handlers
              /\ queue'[i] \in Requests => at[queue'[i]] = "queued" /\ queue'[i] # h
        <3> SUFFICES ASSUME NEW i \in 1 .. Len(queue')
                     PROVE  /\ queue'[i] \in Handlers
                            /\ queue'[i] \in Requests => at[queue'[i]] = "queued" /\ queue'[i] # h
            OBVIOUS
        <3>1. i + 1 \in 1 .. Len(queue) /\ queue'[i] = queue[i + 1] /\ 1 < i + 1
            BY <1>2, <1>3, <1>4
        <3>2. queue[i + 1] \in Handlers  BY <1>2, <3>1, ElementOfSeq
        <3>3. queue[i + 1] \in Requests => at[queue[i + 1]] = "queued"
            BY <3>1 DEF Control, QueuedOnce
        <3>4. queue[1] = queue[i + 1] => queue[1] \in Sessions
            BY <1>4, <3>1 DEF Control, QueuedOnce
        <3>5. queue[1] \in Sessions => queue[1] \notin Requests  BY SessionFacts
        <3> QED BY <1>4, <3>1, <3>2, <3>3, <3>4, <3>5
    <2>2. \A i, j \in 1 .. Len(queue') :
              i < j /\ queue'[i] = queue'[j] => queue'[i] \in Sessions
        <3> SUFFICES ASSUME NEW i \in 1 .. Len(queue'), NEW j \in 1 .. Len(queue'),
                            i < j, queue'[i] = queue'[j]
                     PROVE  queue'[i] \in Sessions
            OBVIOUS
        <3>1. i + 1 \in 1 .. Len(queue) /\ queue'[i] = queue[i + 1]  BY <1>4
        <3>2. j + 1 \in 1 .. Len(queue) /\ queue'[j] = queue[j + 1]  BY <1>4
        <3>3. i + 1 < j + 1  BY <1>2, <1>3
        <3> QED BY <3>1, <3>2, <3>3 DEF Control, QueuedOnce
    <2>3. \A i \in 1 .. Len(queue') : queue'[i] \in Requests => at'[queue'[i]] = "queued"
        BY <1>5, <2>1
    <2> QED BY <2>2, <2>3 DEF QueuedOnce
<1>12. OrdersAwaited'
    <2>1. \A i \in 1 .. Len(orders) : orders[i].from \in Handlers  BY OrderFacts
    <2> QED BY <1>1, <1>2, <1>5, <1>8, <2>1 DEF Control, OrdersAwaited
<1>13. RowsThere'  BY <1>1, <1>2, <1>5 DEF Control, RowsThere, Active
<1> QED BY <1>9, <1>10, <1>11, <1>12, <1>13 DEF Control

\* Every step keeps Control.
LEMMA ControlStep == TypeOK /\ Control /\ [Next]_vars => Control'
<1> SUFFICES ASSUME TypeOK, Control, [Next]_vars PROVE Control'
    OBVIOUS
<1> USE DEF loopVars, ownerVars, boxVars
<1>1. ASSUME NEW r \in Requests, StepTimesOut(r) PROVE Control'
    <2>1. \A g : Kind(g)' = Kind(g) /\ S(g)' = S(g) /\ PlacesOf(g)' = PlacesOf(g)
        BY <1>1, JobFixed DEF StepTimesOut
    <2>2. OneRuns'  BY <1>1, <2>1 DEF StepTimesOut, At, Control, OneRuns, Active
    <2>3. InPlace' /\ QueuedOnce' /\ OrdersAwaited' /\ RowsThere'
        BY <1>1, <2>1
           DEF StepTimesOut, Control, InPlace, QueuedOnce, OrdersAwaited, RowsThere, Active
    <2> QED BY <2>2, <2>3 DEF Control
<1>2. ASSUME NEW s \in Sessions, RefreshTranscript(s) PROVE Control'
    <2>1. \A g : Kind(g)' = Kind(g) /\ S(g)' = S(g) /\ PlacesOf(g)' = PlacesOf(g)
        BY <1>2, JobFixed DEF RefreshTranscript
    <2>2. \A x \in Sessions : row[x] # None => row'[x] # None
        <3>1. row[s] # None  BY <1>2 DEF RefreshTranscript, Open
        <3> QED BY <1>2, <3>1, RowUpdates, RowStays DEF RefreshTranscript
    <2>3. RowsThere'
        <3>1. \A g \in Handlers : S(g) \in Sessions  BY HandlerFacts
        <3> QED BY <1>2, <2>1, <2>2, <3>1 DEF RefreshTranscript, Control, RowsThere, Active
    <2>4. InPlace' /\ OneRuns' /\ QueuedOnce' /\ OrdersAwaited'
        BY <1>2, <2>1
           DEF RefreshTranscript, Control, InPlace, OneRuns, QueuedOnce, OrdersAwaited, Active
    <2> QED BY <2>3, <2>4 DEF Control
<1>3. CASE UNCHANGED vars \/ PrepareElsewhere
    <2>1. \A g : Kind(g)' = Kind(g) /\ S(g)' = S(g) /\ PlacesOf(g)' = PlacesOf(g)
        BY <1>3, JobFixed DEF vars, PrepareElsewhere
    <2> QED BY <1>3, <2>1
            DEF vars, PrepareElsewhere, Control, InPlace, OneRuns, QueuedOnce, OrdersAwaited, RowsThere, Active
<1>4. ASSUME NEW r \in Requests, Command(r) \/ Change(r) PROVE Control'
    BY <1>4, CommandMoves, ChangeMoves, RequestFacts, MoveKeeps
<1>5. ASSUME NEW s \in Sessions, Ensure(s) PROVE Control'
    BY <1>5, EnsureMoves, SessionFacts, MoveKeeps
<1> QED BY <1>1, <1>2, <1>3, <1>4, <1>5, AskControl, TakeControl, SandboxControl DEF Next

-----------------------------------------------------------------------------
(* What the actions write.                                                  *)

\* A step that writes some fields of one row.
Writes(s, F) ==
    /\ row[s] # None /\ row'[s] # None
    /\ \A x \in Sessions \ {s} : row'[x] = row[x]
    /\ "status" \in F \/ row'[s].status = row[s].status
    /\ "box" \in F \/ row'[s].box = row[s].box
    /\ "model" \in F \/ row'[s].model = row[s].model
    /\ "closed" \in F \/ row'[s].closed = row[s].closed
    /\ "thinking" \in F \/ row'[s].thinking = row[s].thinking

\* updateSessionMeta writes one row.
LEMMA Updated ==
    ASSUME TypeOK, NEW s \in Sessions, NEW new \in Row, Update(s, new)
    PROVE  /\ row'[s] = new /\ row'[s] # None
           /\ \A x \in Sessions \ {s} : row'[x] = row[x]
BY RowAssumption DEF Update, TypeOK

\* What send, stop and close write.
LEMMA SendWrites ==
    ASSUME TypeOK, Control, NEW r \in Requests
    PROVE  /\ MarkThinking(r) =>
                 Writes(S(r), {"created", "thinking"}) /\ row'[S(r)].thinking = TRUE
           /\ Prompt(r) => Writes(S(r), {"thinking"}) /\ row'[S(r)].thinking = TRUE
           /\ PromptEnds(r) =>
                 /\ Writes(S(r), {"thinking", "status"})
                 /\ row'[S(r)].thinking = FALSE
                 /\ row'[S(r)].status \in {"error", row[S(r)].status}
           /\ EndSession(r) =>
                 /\ Writes(S(r), {"thinking", "closed"})
                 /\ row'[S(r)].thinking = FALSE
                 /\ row'[S(r)].closed = (row[S(r)].closed \/ Kind(r) = "close")
<1>1. S(r) \in Sessions /\ r \in Handlers  BY RequestFacts
<1>2. ASSUME at[r] \in {"marking", "noting", "prompting", "ending"}
      PROVE  /\ row[S(r)] # None /\ row[S(r)] \in Row
             /\ row[S(r)].status \in {"pending", "ready", "error"}
             /\ row[S(r)].thinking \in BOOLEAN /\ row[S(r)].closed \in BOOLEAN
    BY <1>1, <1>2, RowType DEF Control, RowsThere, Active
<1>3. ASSUME MarkThinking(r)
      PROVE  Writes(S(r), {"created", "thinking"}) /\ row'[S(r)].thinking = TRUE
    <2> DEFINE new == [row[S(r)] EXCEPT !.created = TRUE, !.thinking = TRUE]
    <2>1. new \in Row  BY <1>1, <1>2, <1>3, RowUpdates DEF MarkThinking, At
    <2>2. /\ new.status = row[S(r)].status /\ new.box = row[S(r)].box
          /\ new.model = row[S(r)].model /\ new.closed = row[S(r)].closed
          /\ new.thinking = TRUE
        BY <1>2, <1>3 DEF MarkThinking, At, Row
    <2> HIDE DEF new
    <2>3. Update(S(r), new)  BY <1>3 DEF MarkThinking, new
    <2> QED BY <1>1, <1>2, <1>3, <2>1, <2>2, <2>3, Updated DEF Writes, MarkThinking, At
<1>4. ASSUME Prompt(r)
      PROVE  Writes(S(r), {"thinking"}) /\ row'[S(r)].thinking = TRUE
    <2> DEFINE new == [row[S(r)] EXCEPT !.thinking = TRUE]
    <2>1. new \in Row  BY <1>1, <1>2, <1>4, RowUpdates DEF Prompt, At
    <2>2. /\ new.status = row[S(r)].status /\ new.box = row[S(r)].box
          /\ new.model = row[S(r)].model /\ new.closed = row[S(r)].closed
          /\ new.thinking = TRUE
        BY <1>2, <1>4 DEF Prompt, At, Row
    <2> HIDE DEF new
    <2>3. Update(S(r), new)  BY <1>4 DEF Prompt, new
    <2> QED BY <1>1, <1>2, <1>4, <2>1, <2>2, <2>3, Updated DEF Writes, Prompt, At
<1>5. ASSUME PromptEnds(r)
      PROVE  /\ Writes(S(r), {"thinking", "status"})
             /\ row'[S(r)].thinking = FALSE
             /\ row'[S(r)].status \in {"error", row[S(r)].status}
    <2> PICK status \in {"error", row[S(r)].status} :
             Update(S(r), [row[S(r)] EXCEPT !.thinking = FALSE, !.status = status])
        BY <1>5 DEF PromptEnds, SyncEnded
    <2> DEFINE new == [row[S(r)] EXCEPT !.thinking = FALSE, !.status = status]
    <2>1. new \in Row  BY <1>1, <1>2, <1>5, RowUpdates DEF PromptEnds, At
    <2>2. /\ new.status = status /\ new.box = row[S(r)].box
          /\ new.model = row[S(r)].model /\ new.closed = row[S(r)].closed
          /\ new.thinking = FALSE
        BY <1>2, <1>5 DEF PromptEnds, At, Row
    <2>3. Update(S(r), new)  OBVIOUS
    <2> HIDE DEF new
    <2> QED BY <1>1, <1>2, <1>5, <2>1, <2>2, <2>3, Updated DEF Writes, PromptEnds, At
<1>6. ASSUME EndSession(r)
      PROVE  /\ Writes(S(r), {"thinking", "closed"})
             /\ row'[S(r)].thinking = FALSE
             /\ row'[S(r)].closed = (row[S(r)].closed \/ Kind(r) = "close")
    <2> DEFINE c == row[S(r)].closed \/ Kind(r) = "close"
               new == [row[S(r)] EXCEPT !.thinking = FALSE, !.closed = c]
    <2>1. c \in BOOLEAN /\ new \in Row
        BY <1>1, <1>2, <1>6, RowUpdates DEF EndSession, At
    <2>2. /\ new.status = row[S(r)].status /\ new.box = row[S(r)].box
          /\ new.model = row[S(r)].model /\ new.closed = c
          /\ new.thinking = FALSE
        BY <1>2, <1>6 DEF EndSession, At, Row
    <2>3. Update(S(r), new)  BY <1>6 DEF EndSession
    <2> HIDE DEF new
    <2> QED BY <1>1, <1>2, <1>6, <2>1, <2>2, <2>3, Updated DEF Writes, EndSession, At
<1> QED BY <1>3, <1>4, <1>5, <1>6

\* What changeModel writes.
LEMMA ChangeWrites ==
    ASSUME TypeOK, Control, NEW r \in Requests
    PROVE  /\ WriteModel(r) =>
                 Writes(S(r), {"model"}) /\ row'[S(r)].model = job[r].model
           /\ Reset(r) =>
                 /\ Writes(S(r), {"status", "box", "transcript", "thinking"})
                 /\ row'[S(r)].status = "pending"
                 /\ row'[S(r)].thinking \in {FALSE, row[S(r)].thinking}
<1>1. S(r) \in Sessions /\ r \in Handlers /\ job[r].model \in Models  BY RequestFacts
<1>2. ASSUME at[r] \in {"changing", "resetting", "remaking"}
      PROVE  /\ row[S(r)] # None /\ row[S(r)] \in Row
             /\ row[S(r)].status \in {"pending", "ready", "error"}
             /\ row[S(r)].thinking \in BOOLEAN /\ row[S(r)].closed \in BOOLEAN
    BY <1>1, <1>2, RowType DEF Control, RowsThere, Active
<1>3. ASSUME WriteModel(r)
      PROVE  Writes(S(r), {"model"}) /\ row'[S(r)].model = job[r].model
    <2> DEFINE new == [row[S(r)] EXCEPT !.model = job[r].model]
    <2>1. new \in Row  BY <1>1, <1>2, <1>3, RowUpdates DEF WriteModel, At
    <2>2. /\ new.status = row[S(r)].status /\ new.box = row[S(r)].box
          /\ new.model = job[r].model /\ new.closed = row[S(r)].closed
          /\ new.thinking = row[S(r)].thinking
        BY <1>2, <1>3 DEF WriteModel, At, Row
    <2> HIDE DEF new
    <2>3. Update(S(r), new)  BY <1>3 DEF WriteModel, new
    <2> QED BY <1>1, <1>2, <1>3, <2>1, <2>2, <2>3, Updated DEF Writes, WriteModel, At
<1>4. ASSUME Reset(r)
      PROVE  /\ Writes(S(r), {"status", "box", "transcript", "thinking"})
             /\ row'[S(r)].status = "pending"
             /\ row'[S(r)].thinking \in {FALSE, row[S(r)].thinking}
    <2> DEFINE new1 == [row[S(r)] EXCEPT !.status = "pending"]
               new2 == [row[S(r)] EXCEPT !.status = "pending", !.box = FALSE,
                                         !.transcript = FALSE, !.thinking = FALSE]
    <2>1. new1 \in Row /\ new2 \in Row  BY <1>1, <1>2, <1>4, RowUpdates DEF Reset, At
    <2>2. /\ new1.status = "pending" /\ new1.model = row[S(r)].model
          /\ new1.closed = row[S(r)].closed /\ new1.thinking = row[S(r)].thinking
        BY <1>2, <1>4 DEF Reset, At, Row
    <2>3. /\ new2.status = "pending" /\ new2.model = row[S(r)].model
          /\ new2.closed = row[S(r)].closed /\ new2.thinking = FALSE
        BY <1>2, <1>4 DEF Reset, At, Row
    <2>4. Update(S(r), new1) \/ Update(S(r), new2)  BY <1>4 DEF Reset
    <2> HIDE DEF new1, new2
    <2>5. CASE Update(S(r), new1)
        BY <1>1, <1>2, <1>4, <2>1, <2>2, <2>5, Updated DEF Writes, Reset, At
    <2>6. CASE Update(S(r), new2)
        BY <1>1, <1>2, <1>4, <2>1, <2>3, <2>6, Updated DEF Writes, Reset, At
    <2> QED BY <2>4, <2>5, <2>6
<1> QED BY <1>3, <1>4

\* What an ensure and a read of the transcript write.
LEMMA EnsureWrites ==
    ASSUME TypeOK, Control, NEW s \in Sessions
    PROVE  /\ MarkPending(s) => Writes(s, {"box", "status"}) /\ row'[s].status = "pending"
           /\ MarkReady(s) => Writes(s, {"box", "status"})
           /\ EnsureFails(s) => Writes(s, {"status"}) /\ row'[s].status = "error"
           /\ RefreshTranscript(s) => Writes(s, {"transcript"})
<1>1. ASSUME at[s] \in {"marking", "created", "failing"} \/ s \in Open
      PROVE  /\ row[s] # None /\ row[s] \in Row
    BY <1>1, SessionFacts, RowType DEF Control, RowsThere, Active, Open
<1>2. ASSUME MarkPending(s)
      PROVE  Writes(s, {"box", "status"}) /\ row'[s].status = "pending"
    <2> DEFINE new == [row[s] EXCEPT !.box = TRUE, !.status = "pending"]
    <2>1. new \in Row  BY <1>1, <1>2, RowUpdates DEF MarkPending, At
    <2>2. /\ new.status = "pending" /\ new.model = row[s].model
          /\ new.closed = row[s].closed /\ new.thinking = row[s].thinking
        BY <1>1, <1>2 DEF MarkPending, At, Row
    <2> HIDE DEF new
    <2>3. Update(s, new)  BY <1>2 DEF MarkPending, new
    <2> QED BY <1>1, <1>2, <2>1, <2>2, <2>3, Updated DEF Writes, MarkPending, At
<1>3. ASSUME MarkReady(s) PROVE Writes(s, {"box", "status"})
    <2> DEFINE new == [row[s] EXCEPT !.box = TRUE, !.status = "ready"]
    <2>1. new \in Row  BY <1>1, <1>3, RowUpdates DEF MarkReady, At
    <2>2. /\ new.model = row[s].model
          /\ new.closed = row[s].closed /\ new.thinking = row[s].thinking
        BY <1>1, <1>3 DEF MarkReady, At, Row
    <2> HIDE DEF new
    <2>3. Update(s, new)  BY <1>3 DEF MarkReady, new
    <2> QED BY <1>1, <1>3, <2>1, <2>2, <2>3, Updated DEF Writes, MarkReady, At
<1>4. ASSUME EnsureFails(s) PROVE Writes(s, {"status"}) /\ row'[s].status = "error"
    <2> DEFINE new == [row[s] EXCEPT !.status = "error"]
    <2>1. new \in Row  BY <1>1, <1>4, RowUpdates DEF EnsureFails, At
    <2>2. /\ new.status = "error" /\ new.model = row[s].model /\ new.box = row[s].box
          /\ new.closed = row[s].closed /\ new.thinking = row[s].thinking
        BY <1>1, <1>4 DEF EnsureFails, At, Row
    <2> HIDE DEF new
    <2>3. Update(s, new)  BY <1>4 DEF EnsureFails, new
    <2> QED BY <1>1, <1>4, <2>1, <2>2, <2>3, Updated DEF Writes, EnsureFails, At
<1>5. ASSUME RefreshTranscript(s) PROVE Writes(s, {"transcript"})
    <2> DEFINE new == [row[s] EXCEPT !.transcript = TRUE]
    <2>1. new \in Row  BY <1>1, <1>5, RowUpdates DEF RefreshTranscript
    <2>2. /\ new.status = row[s].status /\ new.model = row[s].model /\ new.box = row[s].box
          /\ new.closed = row[s].closed /\ new.thinking = row[s].thinking
        BY <1>1, <1>5 DEF RefreshTranscript, Row
    <2> HIDE DEF new
    <2>3. Update(s, new)  BY <1>5 DEF RefreshTranscript, new
    <2> QED BY <1>1, <1>5, <2>1, <2>2, <2>3, Updated DEF Writes, RefreshTranscript
<1> QED BY <1>2, <1>3, <1>4, <1>5

\* A new session is pending, open and idle.
LEMMA CreateWrites ==
    ASSUME TypeOK, NEW r \in Requests, CreateSession(r)
    PROVE  /\ row[S(r)] = None /\ row'[S(r)] # None
           /\ \A x \in Sessions \ {S(r)} : row'[x] = row[x]
           /\ row'[S(r)].status = "pending" /\ row'[S(r)].closed = FALSE
           /\ row'[S(r)].thinking = FALSE
<1> DEFINE new == NewRow("pending", FALSE, job[r].model)
<1>1. S(r) \in Sessions /\ new \in Row
    BY RequestFacts DEF NewRow, Row
<1>2. new.status = "pending" /\ new.closed = FALSE /\ new.thinking = FALSE  BY DEF NewRow
<1> HIDE DEF new
<1>3. Update(S(r), new)  BY DEF CreateSession, Update, new
<1> QED BY <1>1, <1>2, <1>3, Updated DEF CreateSession

-----------------------------------------------------------------------------
(* A session is shown as running while its prompt is.                       *)

\* A prompt that leaves clears its mark or is lost, and only a prompt marks.
LEMMA ThinkingKeeps ==
    ASSUME TypeOK, ThinkingEnds, job' = job, lost \subseteq lost',
           \A r \in Requests : at[r] \in {"noting", "prompting"} =>
              \/ at'[r] \in {"noting", "prompting"}
              \/ S(r) \in lost' \/ row'[S(r)].thinking = FALSE,
           \A s \in Sessions : row'[s] # None /\ row'[s].thinking =>
              \/ row[s] # None /\ row[s].thinking
              \/ \E r \in Requests : S(r) = s /\ at'[r] \in {"noting", "prompting"}
    PROVE  ThinkingEnds'
<1>1. \A g : S(g)' = S(g)  BY JobFixed
<1> SUFFICES ASSUME NEW s \in Sessions, row'[s] # None, row'[s].thinking, s \notin lost'
             PROVE  \E r \in Requests : S(r) = s /\ at'[r] \in {"noting", "prompting"}
    BY <1>1 DEF ThinkingEnds
<1>2. CASE row[s] # None /\ row[s].thinking
    <2>1. PICK r \in Requests : S(r) = s /\ at[r] \in {"noting", "prompting"}
        BY <1>2 DEF ThinkingEnds
    <2> QED BY <2>1
<1> QED BY <1>2

\* What a step does to the handlers but its own: nothing.
LEMMA OthersStay ==
    ASSUME TypeOK, Control
    PROVE  /\ \A r \in Requests : Command(r) \/ Change(r) =>
                 \A g \in Handlers \ {r} : at'[g] = at[g]
           /\ \A s \in Sessions : Ensure(s) => \A g \in Handlers \ {s} : at'[g] = at[g]
           /\ SandboxServes \/ SandboxFails \/ (\E i \in 1 .. Len(orders) : OrderTimesOut(i)) =>
                 \A g \in Handlers : at[g] \notin {"creating", "destroying"} => at'[g] = at[g]
           /\ Take => \A g \in Handlers :
                 at'[g] = at[g] \/ (at'[g] = "start" /\ at[g] \in {"idle", "queued", "done"})
<1> USE DEF loopVars, ownerVars, boxVars
<1>1. at \in [Handlers -> Places]  BY DEF TypeOK
<1>2. ASSUME NEW r \in Requests, Command(r) \/ Change(r)
      PROVE  \A g \in Handlers \ {r} : at'[g] = at[g]
    BY <1>1, <1>2, CommandMoves, ChangeMoves DEF Moves
<1>3. ASSUME NEW s \in Sessions, Ensure(s)
      PROVE  \A g \in Handlers \ {s} : at'[g] = at[g]
    BY <1>1, <1>3, EnsureMoves DEF Moves
<1>4. \A i \in 1 .. Len(orders) : orders[i].heard =>
          /\ orders[i].from \in Handlers
          /\ at[orders[i].from] \in {"creating", "destroying"}
    BY OrderFacts DEF Control, OrdersAwaited
<1>5. orders # <<>> => 1 \in 1 .. Len(orders) /\ Head(orders) = orders[1]
    BY OrdersTaken
<1>6. ASSUME SandboxServes
      PROVE  \A g \in Handlers : at[g] \notin {"creating", "destroying"} => at'[g] = at[g]
    BY <1>1, <1>4, <1>5, <1>6 DEF SandboxServes, Goto
<1>7. ASSUME SandboxFails
      PROVE  \A g \in Handlers : at[g] \notin {"creating", "destroying"} => at'[g] = at[g]
    BY <1>1, <1>4, <1>5, <1>7 DEF SandboxFails, NotCarried, Continue, Finish, Goto
<1>8. ASSUME NEW i \in 1 .. Len(orders), OrderTimesOut(i)
      PROVE  \A g \in Handlers : at[g] \notin {"creating", "destroying"} => at'[g] = at[g]
    BY <1>1, <1>4, <1>8 DEF OrderTimesOut, NotCarried, Continue, Finish, Goto
<1>9. ASSUME Take
      PROVE  \A g \in Handlers :
                at'[g] = at[g] \/ (at'[g] = "start" /\ at[g] \in {"idle", "queued", "done"})
    <2>1. at' = [at EXCEPT ![Head(queue)] = "start"]  BY <1>9 DEF Take, Goto
    <2>2. /\ Head(queue) \in Handlers /\ 1 \in 1 .. Len(queue)
          /\ Head(queue) = queue[1]
        <3>1. queue \in Seq(Handlers) /\ queue # <<>>  BY <1>9 DEF Take, TypeOK
        <3> QED BY <3>1, HeadTailProperties, EmptySeq, LenProperties
    <2>3. CASE Head(queue) \in Requests
        <3>1. at[Head(queue)] = "queued"  BY <2>2, <2>3 DEF Control, QueuedOnce
        <3> QED BY <1>1, <2>1, <2>2, <3>1
    <2>4. CASE Head(queue) \in Sessions
        <3>1. /\ at[Head(queue)] \in EnsurePlaces /\ Kind(Head(queue)) = "ensure"
              /\ Head(queue) # None
            BY <2>2, <2>4, SessionFacts, HandlerFacts DEF Control, InPlace, PlacesOf
        <3>2. at[Head(queue)] \in {"idle", "queued", "done"}
            BY <1>9, <2>2, <3>1 DEF Take, Control, OneRuns, Active, EnsurePlaces
        <3> QED BY <1>1, <2>1, <2>2, <3>2
    <2> QED BY <2>2, <2>3, <2>4 DEF Handlers
<1> QED BY <1>2, <1>3, <1>6, <1>7, <1>8, <1>9

\* Every step keeps ThinkingEnds.
LEMMA ThinkingStep ==
    TypeOK /\ Control /\ ThinkingEnds /\ [Next]_vars => ThinkingEnds'
<1> SUFFICES ASSUME TypeOK, Control, ThinkingEnds, [Next]_vars PROVE ThinkingEnds'
    OBVIOUS
<1> USE DEF loopVars, ownerVars, boxVars
<1>1. job' = job /\ at \in [Handlers -> Places] /\ Requests \subseteq Handlers
    BY JobKept DEF TypeOK, Handlers
<1>2. ASSUME row' = row, lost' = lost,
             \A r \in Requests : at[r] \in {"noting", "prompting"} => at'[r] = at[r]
      PROVE  ThinkingEnds'
    BY <1>1, <1>2, ThinkingKeeps
<1>3. ASSUME NEW r \in Requests, Command(r) PROVE ThinkingEnds'
    <2>1. /\ S(r) \in Sessions /\ r \in Handlers
          /\ \A g \in Requests \ {r} : at'[g] = at[g]
        BY <1>1, <1>3, RequestFacts, OthersStay
    <2>2. CASE CreateSession(r)
        BY <1>1, <2>1, <2>2, CreateWrites, ThinkingKeeps
           DEF CreateSession, At, Continue, Goto
    <2>3. CASE EnqueueCreated(r)
        BY <1>2, <2>1, <2>3 DEF EnqueueCreated, At
    <2>4. CASE PeerFails(r)
        BY <1>1, <2>1, <2>4, ThinkingKeeps DEF PeerFails
    <2>5. CASE CheckSendable(r) \/ PrepareMessage(r) \/ SwapOwner(r) \/ InjectCredentials(r)
        BY <1>2, <2>1, <2>5
           DEF CheckSendable, PrepareMessage, SwapOwner, InjectCredentials, At
    <2>6. CASE MarkThinking(r) \/ Prompt(r)
        <3>1. at'[r] \in {"noting", "prompting"} /\ lost' = lost
            BY <1>1, <2>1, <2>6 DEF MarkThinking, Prompt, Goto
        <3>2. \A x \in Sessions \ {S(r)} : row'[x] = row[x]
            BY <2>6, SendWrites DEF Writes
        <3> QED BY <1>1, <2>1, <3>1, <3>2, ThinkingKeeps
    <2>7. CASE PromptEnds(r) \/ EndSession(r)
        <3>1. /\ lost' = lost /\ row'[S(r)].thinking = FALSE
              /\ \A x \in Sessions \ {S(r)} : row'[x] = row[x]
            BY <2>7, SendWrites DEF Writes, PromptEnds, EndSession
        <3> QED BY <1>1, <2>1, <3>1, ThinkingKeeps
    <2>8. CASE Stop(r) \/ Close(r) \/ ChangeOwner(r)
        BY <1>2, <2>1, <2>8 DEF Stop, Close, ChangeOwner, At
    <2> QED BY <1>3, <2>2, <2>3, <2>4, <2>5, <2>6, <2>7, <2>8 DEF Command
<1>4. ASSUME NEW r \in Requests, Change(r) PROVE ThinkingEnds'
    <2>1. /\ S(r) \in Sessions /\ r \in Handlers
          /\ \A g \in Requests \ {r} : at'[g] = at[g]
        BY <1>1, <1>4, RequestFacts, OthersStay
    <2>2. CASE ReadToChange(r) \/ SetModel(r) \/ EnqueueChanged(r)
        BY <1>2, <2>1, <2>2 DEF ReadToChange, SetModel, EnqueueChanged, At
    <2>3. CASE WriteModel(r) \/ Reset(r)
        <3>1. /\ lost' = lost /\ row'[S(r)].thinking \in {FALSE, row[S(r)].thinking}
              /\ row[S(r)] # None
              /\ \A x \in Sessions \ {S(r)} : row'[x] = row[x]
              /\ at[r] \notin {"noting", "prompting"}
            BY <2>3, ChangeWrites DEF Writes, WriteModel, Reset, At
        <3> QED BY <1>1, <2>1, <3>1, ThinkingKeeps
    <2> QED BY <1>4, <2>2, <2>3 DEF Change
<1>5. ASSUME NEW s \in Sessions, Ensure(s) PROVE ThinkingEnds'
    <2>1. \A g \in Requests : at'[g] = at[g]
        BY <1>1, <1>5, OthersStay, SessionFacts
    <2>2. CASE ReadToEnsure(s) \/ PrepareSession(s)
        BY <1>2, <2>1, <2>2 DEF ReadToEnsure, PrepareSession
    <2>3. CASE MarkPending(s) \/ MarkReady(s) \/ EnsureFails(s)
        <3>1. /\ lost' = lost /\ row'[s].thinking = row[s].thinking /\ row[s] # None
              /\ \A x \in Sessions \ {s} : row'[x] = row[x]
            BY <2>3, EnsureWrites DEF Writes, MarkPending, MarkReady, EnsureFails
        <3> QED BY <1>1, <2>1, <3>1, ThinkingKeeps
    <2> QED BY <1>5, <2>2, <2>3 DEF Ensure
<1>6. ASSUME NEW s \in Sessions, RefreshTranscript(s) PROVE ThinkingEnds'
    <2>1. /\ lost' = lost /\ row'[s].thinking = row[s].thinking /\ row[s] # None
          /\ \A x \in Sessions \ {s} : row'[x] = row[x]
          /\ at' = at
        BY <1>6, EnsureWrites DEF Writes, RefreshTranscript
    <2> QED BY <1>1, <2>1, ThinkingKeeps
<1>7. CASE SandboxServes \/ SandboxFails \/ \E i \in 1 .. Len(orders) : OrderTimesOut(i)
    <2>1. row' = row /\ lost' = lost
        BY <1>7 DEF SandboxServes, SandboxFails, OrderTimesOut
    <2> QED BY <1>1, <1>2, <1>7, <2>1, OthersStay
<1>8. CASE Take
    BY <1>1, <1>2, <1>8, OthersStay DEF Take
<1>9. ASSUME NEW r \in Requests, Ask(r) PROVE ThinkingEnds'
    BY <1>1, <1>2, <1>9 DEF Ask, At, Goto
<1>10. ASSUME NEW r \in Requests, StepTimesOut(r) PROVE ThinkingEnds'
    BY <1>2, <1>10 DEF StepTimesOut
<1>11. CASE UNCHANGED vars \/ PrepareElsewhere
    BY <1>2, <1>11 DEF vars, PrepareElsewhere
<1> QED BY <1>3, <1>4, <1>5, <1>6, <1>7, <1>8, <1>9, <1>10, <1>11 DEF Next

-----------------------------------------------------------------------------
(* A task keeps an open session.                                            *)

\* A step that closes nothing and begins no close keeps what is open.
LEMMA OpenKeeps ==
    ASSUME TypeOK, OtherOpen, KeepsASession, job' = job,
           \A s \in Sessions : row[s] # None =>
              row'[s] # None /\ row'[s].closed = row[s].closed,
           \A s \in Sessions : row[s] = None /\ row'[s] # None => row'[s].closed = FALSE,
           \A r \in Requests : Kind(r) = "close" /\ at'[r] \in {"destroying", "ending"} =>
              at[r] \in {"destroying", "ending"}
    PROVE  OtherOpen' /\ KeepsASession'
<1>1. \A g : S(g)' = S(g) /\ Kind(g)' = Kind(g)  BY JobFixed
<1>2. \A s \in Open : s \in Open'  BY DEF Open
<1>3. OtherOpen'  BY <1>1, <1>2 DEF OtherOpen
<1>4. KeepsASession'
    <2> SUFFICES ASSUME NEW s \in Sessions, row'[s] # None PROVE Open' # {}
        BY DEF KeepsASession
    <2>1. CASE row[s] # None  BY <1>2, <2>1 DEF KeepsASession
    <2>2. CASE row[s] = None  BY <2>2 DEF Open
    <2> QED BY <2>1, <2>2
<1> QED BY <1>3, <1>4

\* Every step keeps an open session; Close finds another, EndSession leaves it.
LEMMA OpenStep ==
    TypeOK /\ Control /\ OtherOpen /\ KeepsASession /\ [Next]_vars
        => OtherOpen' /\ KeepsASession'
<1> SUFFICES ASSUME TypeOK, Control, OtherOpen, KeepsASession, [Next]_vars
             PROVE  OtherOpen' /\ KeepsASession'
    OBVIOUS
<1> USE DEF loopVars, ownerVars, boxVars
<1>1. job' = job /\ at \in [Handlers -> Places] /\ Requests \subseteq Handlers
    BY JobKept DEF TypeOK, Handlers
<1>2. ASSUME \/ row' = row
             \/ \E s \in Sessions : Writes(s, {"status", "box", "model", "thinking"}),
             \A r \in Requests : Kind(r) = "close" /\ at'[r] \in {"destroying", "ending"} =>
                at[r] \in {"destroying", "ending"}
      PROVE  OtherOpen' /\ KeepsASession'
    <2>1. /\ \A s \in Sessions : row[s] # None =>
                row'[s] # None /\ row'[s].closed = row[s].closed
          /\ \A s \in Sessions : row[s] = None => row'[s] = None
        BY <1>2 DEF Writes
    <2> QED BY <1>1, <1>2, <2>1, OpenKeeps
<1>3. ASSUME NEW r \in Requests, Command(r) PROVE OtherOpen' /\ KeepsASession'
    <2>1. /\ S(r) \in Sessions /\ r \in Handlers
          /\ \A g \in Requests \ {r} : at'[g] = at[g]
        BY <1>1, <1>3, RequestFacts, OthersStay
    <2>2. CASE CreateSession(r)
        <3>1. at'[r] = "enqueueing"
            BY <1>1, <2>1, <2>2 DEF CreateSession, Continue, Goto
        <3> QED BY <1>1, <2>1, <2>2, <3>1, CreateWrites, OpenKeeps
    <2>3. CASE \/ EnqueueCreated(r) \/ PeerFails(r) \/ CheckSendable(r) \/ PrepareMessage(r)
               \/ SwapOwner(r) \/ InjectCredentials(r) \/ ChangeOwner(r)
        <3>1. at'[r] \notin {"destroying", "ending"}
            <4>1. CASE SwapOwner(r) \/ InjectCredentials(r)  BY <4>1, SwapMoves
            <4>2. CASE \/ EnqueueCreated(r) \/ PeerFails(r) \/ CheckSendable(r)
                       \/ PrepareMessage(r) \/ ChangeOwner(r)
                BY <1>1, <2>1, <4>2
                   DEF EnqueueCreated, PeerFails, CheckSendable, PrepareMessage,
                       ChangeOwner, Continue, Finish, Goto
            <4> QED BY <2>3, <4>1, <4>2
        <3>2. row' = row
            BY <2>3 DEF EnqueueCreated, PeerFails, CheckSendable, PrepareMessage, SwapOwner,
                        InjectCredentials, ChangeOwner
        <3> QED BY <1>2, <2>1, <3>1, <3>2
    <2>4. CASE MarkThinking(r) \/ Prompt(r) \/ PromptEnds(r)
        <3>1. at'[r] \notin {"destroying", "ending"}
            BY <1>1, <2>1, <2>4 DEF MarkThinking, Prompt, PromptEnds, Finish, Goto
        <3>2. Writes(S(r), {"status", "box", "model", "thinking"})
            BY <2>4, SendWrites DEF Writes
        <3> QED BY <1>2, <2>1, <3>1, <3>2
    <2>5. CASE Stop(r)
        BY <1>2, <2>1, <2>5 DEF Stop
    <2>6. CASE Close(r)
        <3>1. CASE at'[r] \notin {"destroying", "ending"}
            BY <1>2, <2>1, <2>6, <3>1 DEF Close
        <3>2. CASE at'[r] \in {"destroying", "ending"}
            <4>1. ~(Cardinality(Open) <= 1) /\ row' = row
                BY <1>1, <2>1, <2>6, <3>2 DEF Close, Finish, Goto
            <4>2. Cardinality({}) = 0 /\ Cardinality({S(r)}) = 1
                BY FS_EmptySet, FS_Singleton
            <4>3. Open # {} /\ Open # {S(r)}  BY <4>1, <4>2
            <4>4. \E s \in Open : s # S(r)  BY <4>3
            <4>5. /\ Open' = Open /\ (\A g : S(g)' = S(g) /\ Kind(g)' = Kind(g))
                BY <1>1, <4>1, JobFixed DEF Open
            <4>6. OtherOpen'
                BY <2>1, <4>4, <4>5 DEF OtherOpen
            <4> QED BY <4>3, <4>5, <4>6 DEF KeepsASession
        <3> QED BY <3>1, <3>2
    <2>7. CASE EndSession(r)
        <3>1. /\ at[r] = "ending" /\ at'[r] = "done"
              /\ Writes(S(r), {"thinking", "closed"})
              /\ row'[S(r)].closed = (row[S(r)].closed \/ Kind(r) = "close")
            BY <1>1, <2>1, <2>7, SendWrites DEF EndSession, At, Finish, Goto
        <3>2. CASE Kind(r) # "close"
            <4>1. row[S(r)].closed \in BOOLEAN /\ row[S(r)] # None
                BY <2>1, <3>1, RowType DEF Writes
            <4>2. \A s \in Sessions :
                     /\ row[s] # None => row'[s] # None /\ row'[s].closed = row[s].closed
                     /\ row[s] = None => row'[s] = None
                BY <3>1, <3>2, <4>1 DEF Writes
            <4> QED BY <1>1, <2>1, <3>1, <4>2, OpenKeeps
        <3>3. CASE Kind(r) = "close"
            <4>1. PICK s \in Open : s # S(r)  BY <3>1, <3>3 DEF OtherOpen
            <4>2. s \in Open'  BY <3>1, <4>1 DEF Writes, Open
            <4>3. \A g \in Requests : Kind(g) = "close" =>
                      at'[g] \notin {"destroying", "ending"}
                <5> SUFFICES ASSUME NEW g \in Requests, Kind(g) = "close",
                                    at[g] \in {"destroying", "ending"}, g # r
                             PROVE  FALSE
                    BY <2>1, <3>1
                <5>1. busy = r  BY <2>1, <3>1, <3>3 DEF Control, OneRuns, Active
                <5>2. busy = g  BY <1>1 DEF Control, OneRuns, Active
                <5> QED BY <5>1, <5>2
            <4>4. OtherOpen'  BY <1>1, <4>3, JobFixed DEF OtherOpen
            <4> QED BY <4>2, <4>4 DEF KeepsASession
        <3> QED BY <3>2, <3>3
    <2> QED BY <1>3, <2>2, <2>3, <2>4, <2>5, <2>6, <2>7 DEF Command
<1>4. ASSUME NEW r \in Requests, Change(r) PROVE OtherOpen' /\ KeepsASession'
    <2>1. /\ S(r) \in Sessions /\ r \in Handlers
          /\ \A g \in Requests \ {r} : at'[g] = at[g]
        BY <1>1, <1>4, RequestFacts, OthersStay
    <2>2. Kind(r) # "close"
        BY <1>4, KindsAt
           DEF Change, ReadToChange, WriteModel, SetModel, Reset, EnqueueChanged, At
    <2>3. CASE ReadToChange(r) \/ SetModel(r) \/ EnqueueChanged(r)
        BY <1>2, <2>1, <2>2, <2>3 DEF ReadToChange, SetModel, EnqueueChanged
    <2>4. CASE WriteModel(r) \/ Reset(r)
        <3>1. Writes(S(r), {"status", "box", "model", "thinking"})
            BY <2>4, ChangeWrites DEF Writes
        <3> QED BY <1>2, <2>1, <2>2, <3>1
    <2> QED BY <1>4, <2>3, <2>4 DEF Change
<1>5. ASSUME NEW s \in Sessions, Ensure(s) \/ RefreshTranscript(s)
      PROVE  OtherOpen' /\ KeepsASession'
    <2>1. \A g \in Requests : at'[g] = at[g]
        BY <1>1, <1>5, OthersStay, SessionFacts DEF RefreshTranscript
    <2>2. CASE ReadToEnsure(s) \/ PrepareSession(s)
        BY <1>2, <2>1, <2>2 DEF ReadToEnsure, PrepareSession
    <2>3. CASE MarkPending(s) \/ MarkReady(s) \/ EnsureFails(s) \/ RefreshTranscript(s)
        <3>1. Writes(s, {"status", "box", "model", "thinking"})
            BY <2>3, EnsureWrites DEF Writes
        <3> QED BY <1>2, <2>1, <3>1
    <2> QED BY <1>5, <2>2, <2>3 DEF Ensure
<1>6. CASE SandboxServes \/ SandboxFails \/ \E i \in 1 .. Len(orders) : OrderTimesOut(i)
    <2>1. row' = row  BY <1>6 DEF SandboxServes, SandboxFails, OrderTimesOut
    <2>2. \A g \in Handlers : at[g] \notin {"creating", "destroying"} => at'[g] = at[g]
        BY <1>6, OthersStay
    <2>3. \A g \in Requests : at[g] # "creating"  BY KindsAt
    <2>4. \A g \in Requests :
             at'[g] \in {"destroying", "ending"} => at[g] \in {"destroying", "ending"}
        BY <1>1, <2>2, <2>3
    <2> QED BY <1>2, <2>1, <2>4
<1>7. CASE Take
    BY <1>1, <1>2, <1>7, OthersStay DEF Take
<1>8. ASSUME NEW r \in Requests, Ask(r) PROVE OtherOpen' /\ KeepsASession'
    BY <1>1, <1>2, <1>8 DEF Ask, At, Goto
<1>9. ASSUME NEW r \in Requests, StepTimesOut(r) PROVE OtherOpen' /\ KeepsASession'
    BY <1>2, <1>9 DEF StepTimesOut
<1>10. CASE UNCHANGED vars \/ PrepareElsewhere
    BY <1>2, <1>10 DEF vars, PrepareElsewhere
<1> QED BY <1>3, <1>4, <1>5, <1>6, <1>7, <1>8, <1>9, <1>10 DEF Next

-----------------------------------------------------------------------------
(* A prompt is sent while git bears its sender's name.                      *)

Sending(r) == at[r] \in {"marking", "noting"} \/ (at[r] = "prompting" /\ busy = r)

\* A step that changes neither the owner nor the identity, and brings no prompt nearer.
LEMMA OwnerKeeps ==
    ASSUME TypeOK, OwnerBacked, job' = job, UNCHANGED <<owner, author, unbacked>>,
           \A r \in Requests : Injecting(r)' <=> Injecting(r),
           \A r \in Requests : Sending(r)' => Sending(r)
    PROVE  OwnerBacked'
<1>1. \A u : Backed(u)' = Backed(u)  BY DEF Backed
<1> QED BY <1>1 DEF OwnerBacked, Sending

\* The places of a message from its first look at the owner to its end.
Attributing == {"installing", "injecting", "marking", "noting", "prompting"}

\* Every step keeps OwnerBacked.
LEMMA OwnerStep ==
    TypeOK /\ Control /\ OwnerBacked /\ [Next]_vars => OwnerBacked'
<1> SUFFICES ASSUME TypeOK, Control, OwnerBacked, [Next]_vars PROVE OwnerBacked'
    OBVIOUS
<1> USE DEF loopVars, boxVars
<1>1. job' = job /\ at \in [Handlers -> Places] /\ Requests \subseteq Handlers
    BY JobKept DEF TypeOK, Handlers
\* Whoever else is sending is a prompt that outlived its step.
<1>2. ASSUME NEW r \in Requests, busy = r
      PROVE  \A g \in Requests \ {r} : ~Injecting(g) /\ ~Sending(g)
    <2> SUFFICES ASSUME NEW g \in Requests \ {r}, Injecting(g) \/ Sending(g)
                 PROVE  FALSE
        OBVIOUS
    <2>1. Kind(g) # "change"  BY KindsAt DEF Sending, Injecting
    <2>2. busy = g  BY <1>1, <2>1 DEF Sending, Injecting, Control, OneRuns, Active
    <2> QED BY <1>2, <2>2
<1>3. ASSUME NEW r \in Requests, Command(r) PROVE OwnerBacked'
    <2>1. /\ S(r) \in Sessions /\ r \in Handlers
          /\ \A g \in Requests \ {r} : at'[g] = at[g]
        BY <1>1, <1>3, RequestFacts, OthersStay
    <2>2. \A g \in Requests : g # None  BY RequestFacts
    <2>3. CASE \/ CreateSession(r) \/ EnqueueCreated(r) \/ PeerFails(r) \/ CheckSendable(r)
               \/ PrepareMessage(r) \/ PromptEnds(r) \/ Stop(r) \/ Close(r) \/ EndSession(r)
        <3>1. ~Injecting(r) /\ at'[r] \notin Attributing
            BY <1>1, <2>1, <2>3
               DEF CreateSession, EnqueueCreated, PeerFails, CheckSendable, PrepareMessage,
                   PromptEnds, Stop, Close, EndSession, AskDestroy, Continue, Finish, Goto, At,
                   Injecting, Attributing
        <3>2. /\ UNCHANGED <<owner, author, unbacked>>
              /\ busy' \in {busy, None}
            BY <2>3
               DEF CreateSession, EnqueueCreated, PeerFails, CheckSendable, PrepareMessage,
                   PromptEnds, Stop, Close, EndSession, AskDestroy, Continue, Finish, ownerVars
        <3> QED BY <1>1, <2>1, <2>2, <3>1, <3>2, OwnerKeeps DEF Sending, Injecting, Attributing
    <2>4. CASE SwapOwner(r) \/ InjectCredentials(r)
        <3> DEFINE u == job[r].user
        <3>1. /\ at' = [at EXCEPT ![r] = at'[r]]
              /\ at[r] \in {"claiming", "installing", "swapping", "injecting"} /\ busy = r
              /\ \/ at'[r] \in {"swapping", "marking", "installing", "injecting"} /\ busy' = busy
                 \/ at'[r] = "done" /\ busy' = None
            BY <2>4, SwapMoves
        <3>2. \A g \in Requests \ {r} :
                 ~Injecting(g) /\ ~Sending(g) /\ ~Injecting(g)' /\ ~Sending(g)'
            <4>1. \A g \in Requests \ {r} : ~Injecting(g) /\ ~Sending(g)  BY <1>2, <3>1
            <4>2. \A g \in Requests \ {r} : at'[g] = at[g]  BY <2>1
            <4>3. busy' \in {r, None} /\ \A g \in Requests : g # None  BY <2>2, <3>1
            <4> QED BY <4>1, <4>2, <4>3 DEF Injecting, Sending
        <3>3. u \in Users /\ unbacked \in [Users -> {"no", "unresolved", "refused"}]
              /\ u # None
            BY RequestFacts, TaskAssumption DEF TypeOK
        <3>4. ~Sending(r) /\ (Sending(r)' => at'[r] = "marking")  BY <3>1 DEF Sending
        <3>5. CASE SwapOwner(r) /\ owner' = u /\ owner # u /\ Injecting(r)'
            BY <1>1, <3>2, <3>3, <3>4, <3>5 DEF OwnerBacked, Sending, Injecting
        <3>6. CASE SwapOwner(r) /\ owner' = owner /\ ~Injecting(r)' /\ author' = author
            <4>1. ~Injecting(r)  BY <3>6 DEF SwapOwner, Injecting, At
            <4>2. owner # None => Backed(owner) /\ owner \in Users
                BY <3>2, <4>1 DEF OwnerBacked, TypeOK
            <4>3. \A x \in Users : Backed(x) => Backed(x)'
                BY <3>3, <3>6 DEF SwapOwner, Backed
            <4>4. at'[r] = "marking" => Backed(u)'
                <5>1. at'[r] = "marking" => owner = u \/ unbacked' = [unbacked EXCEPT ![u] = "unresolved"]
                    BY <3>6, DroppedMoves DEF SwapOwner
                <5> QED BY <1>1, <3>3, <4>2, <4>3, <5>1 DEF Backed
            <4> QED BY <1>1, <3>2, <3>4, <3>6, <4>2, <4>3, <4>4 DEF OwnerBacked, Sending
        <3>7. CASE InjectCredentials(r)
            <4>1. Injecting(r) /\ owner' = owner  BY <3>7 DEF InjectCredentials, Injecting
            <4>2. Backed(u)'  BY <3>3, <3>7 DEF InjectCredentials, Backed
            <4>3. owner = u  BY <4>1 DEF OwnerBacked
            <4>4. ~Injecting(r)'
                BY <3>1, <3>7, SwappedMoves, DroppedMoves DEF InjectCredentials, Injecting
            <4> QED BY <1>1, <3>2, <4>1, <4>2, <4>3, <4>4 DEF OwnerBacked, Sending
        <3>8. CASE SwapOwner(r)
            <4>1. author' = author  BY <3>8 DEF SwapOwner
            <4>2. CASE Swapped(r) /\ owner' = owner
                BY <3>6, <3>8, <4>1, <4>2, SwappedMoves DEF Injecting
            <4>3. CASE Dropped(r) /\ owner' = owner
                BY <3>6, <3>8, <4>1, <4>3, DroppedMoves DEF Injecting
            <4>4. CASE /\ owner' = u /\ owner # u
                       /\ Continue(r, IF At(r, "claiming") THEN "installing" ELSE "injecting")
                <5>1. Injecting(r)'  BY <1>1, <2>1, <4>4 DEF Continue, Goto, Injecting
                <5> QED BY <3>5, <3>8, <4>4, <5>1
            <4> QED BY <3>8, <4>2, <4>3, <4>4 DEF SwapOwner
        <3> QED BY <2>4, <3>7, <3>8
    <2>6. CASE MarkThinking(r) \/ Prompt(r)
        <3>1. /\ at[r] \in {"marking", "noting"} /\ at'[r] \in {"noting", "prompting"}
              /\ busy' = busy /\ UNCHANGED <<owner, author, unbacked>>
            BY <1>1, <2>1, <2>6 DEF MarkThinking, Prompt, At, Goto, ownerVars
        <3> QED BY <1>1, <2>1, <3>1, OwnerKeeps DEF Sending, Injecting
    <2>7. CASE ChangeOwner(r)
        <3>1. /\ at[r] = "start" /\ busy = r /\ owner' = None
              /\ UNCHANGED <<author, unbacked>> /\ at'[r] = "done" /\ busy' = None
            <4>1. /\ at[r] = "start" /\ Kind(r) = "owner" /\ owner' = None
                  /\ UNCHANGED <<author, unbacked>>
                  /\ at'[r] = "done" /\ busy' = IF busy = r THEN None ELSE busy
                BY <1>1, <2>1, <2>7 DEF ChangeOwner, At, Finish, Goto
            <4>2. busy = r  BY <2>1, <4>1 DEF Control, OneRuns, Active
            <4> QED BY <4>1, <4>2
        <3>2. \A g \in Requests : ~Injecting(g)' /\ ~Sending(g)'
            <4>1. \A g \in Requests \ {r} : ~Injecting(g) /\ ~Sending(g)  BY <1>2, <3>1
            <4>2. ~Injecting(r)' /\ ~Sending(r)'  BY <3>1 DEF Sending, Injecting
            <4>3. \A g \in Requests \ {r} : ~Injecting(g)' /\ ~Sending(g)'
                BY <2>1, <2>2, <3>1, <4>1 DEF Sending, Injecting
            <4> QED BY <4>2, <4>3
        <3> QED BY <3>1, <3>2 DEF OwnerBacked, Sending
    <2> QED BY <1>3, <2>3, <2>4, <2>6, <2>7 DEF Command
<1>4. ASSUME UNCHANGED <<owner, author, unbacked>>, busy' \in {busy, None},
             \A g \in Requests : \/ at'[g] = at[g]
                                 \/ at[g] \notin Attributing /\ at'[g] \notin Attributing
      PROVE  OwnerBacked'
    <2>1. \A g \in Requests : g # None  BY RequestFacts
    <2> QED BY <1>1, <1>4, <2>1, OwnerKeeps DEF Sending, Injecting, Attributing
<1>5. ASSUME NEW r \in Requests, Change(r) PROVE OwnerBacked'
    <2>1. /\ r \in Handlers /\ \A g \in Requests \ {r} : at'[g] = at[g]
        BY <1>1, <1>5, OthersStay
    <2>2. at[r] \notin Attributing /\ at'[r] \notin Attributing
        BY <1>1, <1>5, <2>1
           DEF Change, ReadToChange, WriteModel, SetModel, Reset, EnqueueChanged, AskDestroy,
               Continue, Goto, At, Attributing
    <2>3. UNCHANGED <<owner, author, unbacked>> /\ busy' \in {busy, None}
        BY <1>5
           DEF Change, ReadToChange, WriteModel, SetModel, Reset, EnqueueChanged, AskDestroy,
               Continue, ownerVars
    <2> QED BY <1>4, <2>1, <2>2, <2>3
<1>6. ASSUME NEW s \in Sessions, Ensure(s) \/ RefreshTranscript(s) PROVE OwnerBacked'
    <2>1. \A g \in Requests : at'[g] = at[g]
        BY <1>1, <1>6, OthersStay, SessionFacts DEF RefreshTranscript
    <2>2. UNCHANGED <<owner, author, unbacked>> /\ busy' \in {busy, None}
        BY <1>6
           DEF Ensure, ReadToEnsure, MarkPending, PrepareSession, MarkReady, EnsureFails,
               RefreshTranscript, Continue, Finish, ownerVars
    <2> QED BY <1>4, <2>1, <2>2
<1>7. CASE SandboxServes \/ SandboxFails \/ \E i \in 1 .. Len(orders) : OrderTimesOut(i)
    <2>1. UNCHANGED <<owner, author, unbacked>> /\ busy' \in {busy, None}
        BY <1>7
           DEF SandboxServes, SandboxFails, OrderTimesOut, NotCarried, Continue, Finish, ownerVars
    <2>2. \A g \in Handlers : at[g] \notin {"creating", "destroying"} => at'[g] = at[g]
        BY <1>7, OthersStay
    <2>3. \A g \in Requests : at[g] # "creating"  BY KindsAt
    <2>4. \A g \in Requests : at[g] = "destroying" =>
             at'[g] \notin Attributing
        BY <1>1, <1>7, OrderFacts, OrdersTaken
           DEF SandboxServes, SandboxFails, OrderTimesOut, NotCarried, Continue, Finish, Goto,
               Carried, Attributing
    <2> QED BY <1>1, <1>4, <2>1, <2>2, <2>3, <2>4 DEF Attributing
<1>8. CASE Take
    <2>1. \A g \in Handlers :
             at'[g] = at[g] \/ (at'[g] = "start" /\ at[g] \in {"idle", "queued", "done"})
        BY <1>8, OthersStay
    <2>2. UNCHANGED <<owner, author, unbacked>> /\ busy = None  BY <1>8 DEF Take, ownerVars
    <2>3. \A g \in Requests : Sending(g)' => Sending(g)
        <3> SUFFICES ASSUME NEW g \in Requests, at'[g] = "prompting", busy' = g PROVE FALSE
            BY <1>1, <2>1 DEF Sending
        <3>1. busy' = Head(queue) /\ at' = [at EXCEPT ![Head(queue)] = "start"]
            BY <1>8 DEF Take, Goto
        <3> QED BY <1>1, <3>1
    <2> QED BY <1>1, <2>1, <2>2, <2>3, OwnerKeeps DEF Injecting
<1>9. ASSUME NEW r \in Requests, Ask(r) PROVE OwnerBacked'
    BY <1>1, <1>4, <1>9 DEF Ask, At, Goto, ownerVars, Attributing
<1>10. ASSUME NEW r \in Requests, StepTimesOut(r) PROVE OwnerBacked'
    BY <1>4, <1>10 DEF StepTimesOut, ownerVars
<1>11. CASE UNCHANGED vars \/ PrepareElsewhere
    BY <1>4, <1>11 DEF vars, PrepareElsewhere, ownerVars
<1> QED BY <1>3, <1>5, <1>6, <1>7, <1>8, <1>9, <1>10, <1>11 DEF Next

-----------------------------------------------------------------------------
(* The agent uses the model the row names.                                  *)

\* What no step breaks: a session is made only after it was marked, ready only when
\* it was made, and whoever writes a model tells the agent or leaves it unsure.
LEMMA ModelKeeps ==
    ASSUME TypeOK, Control, Making, ModelTold, job' = job, unsure \subseteq unsure', OrdersMade',
           \A s \in Sessions :
              \/ at'[s] = at[s]
              \/ at'[s] \notin {"marking", "preparing", "creating", "created", "failing"}
              \/ /\ at[s] \in {"marking", "preparing", "creating"}
                 /\ at'[s] \in {"preparing", "creating", "failing"}
              \/ /\ at[s] = "start" /\ at'[s] = "marking"
                 /\ ~Ready(s)' /\ seen'[s] = row'[s].model
              \/ /\ at[s] = "creating" /\ at'[s] = "created"
                 /\ ~Ordered(s)' /\ agent'[s].model = seen[s],
           \A s \in Sessions : seen'[s] = seen[s] \/ at[s] = "start",
           \A s \in Sessions :
              Ordered(s)' => Ordered(s) \/ (at[s] = "preparing" /\ at'[s] = "creating"),
           \A s \in Sessions : Ready(s)' => Ready(s) \/ (at[s] = "created" /\ at'[s] = "done"),
           \A s \in Sessions : row[s] # None =>
              \/ row'[s].model = row[s].model
              \/ s \in unsure'
              \/ /\ ~Active(s) /\ at'[s] = at[s] /\ (Ready(s)' => Changing(s)')
                 /\ \A q \in Requests : at[q] = "setting" => S(q) # s,
           \A s \in Sessions :
              \/ agent'[s].model = agent[s].model \/ Ordered(s) \/ s \in unsure'
              \/ agent'[s].model = row[s].model /\ row'[s] = row[s],
           \A r \in Requests : at'[r] = "setting" =>
              at[r] = "setting" \/ job[r].model = row'[S(r)].model,
           \A r \in Requests :
              Kind(r) = "change" /\ at[r] \in {"setting", "destroying", "remaking"} =>
                 \/ at'[r] \in {"setting", "destroying", "remaking"}
                 \/ S(r) \in unsure' \/ ~Ready(S(r))' \/ agent'[S(r)].model = row'[S(r)].model
    PROVE  Making' /\ ModelTold'
<1>1. \A g : S(g)' = S(g) /\ Kind(g)' = Kind(g)  BY JobFixed
<1>2. \A g \in Requests : S(g) \in Sessions  BY RequestFacts
<1>3. ASSUME NEW s \in Sessions,
             at[s] \in {"marking", "preparing", "creating", "created", "failing"}
      PROVE  row[s] # None /\ Active(s)
    BY <1>3, SessionFacts DEF Control, RowsThere, Active
<1>4. ASSUME NEW s \in Sessions
      PROVE  /\ at'[s] \in {"marking", "preparing", "creating", "created", "failing"} => ~Ready(s)'
             /\ at'[s] \in {"marking", "preparing", "creating", "created"} /\ s \notin unsure'
                   => seen'[s] = row'[s].model
             /\ at'[s] = "created" /\ s \notin unsure' => agent'[s].model = row'[s].model
             /\ Ordered(s)' => ~Ready(s)' /\ at'[s] # "created"
    <2>1. at'[s] \in {"marking", "preparing", "creating", "created", "failing"} => ~Ready(s)'
        BY DEF Making
    <2>2. ASSUME at'[s] \in {"marking", "preparing", "creating", "created"}, s \notin unsure',
                 ~(at[s] = "start" /\ at'[s] = "marking")
          PROVE  /\ at[s] \in {"marking", "preparing", "creating", "created"}
                 /\ seen[s] = row[s].model /\ row'[s].model = row[s].model /\ seen'[s] = seen[s]
        <3>1. at[s] \in {"marking", "preparing", "creating", "created"}  BY <2>2
        <3>2. row[s] # None /\ Active(s)  BY <1>3, <3>1
        <3> QED BY <2>2, <3>1, <3>2 DEF Making
    <2>3. at'[s] \in {"marking", "preparing", "creating", "created"} /\ s \notin unsure'
              => seen'[s] = row'[s].model
        BY <2>2
    <2>4. at'[s] = "created" /\ s \notin unsure' => agent'[s].model = row'[s].model
        <3> SUFFICES ASSUME at'[s] = "created", s \notin unsure'
                     PROVE  agent'[s].model = row'[s].model
            OBVIOUS
        <3>1. seen[s] = row[s].model /\ row'[s].model = row[s].model  BY <2>2
        <3>2. CASE at[s] = "created"
            <4>1. agent[s].model = row[s].model /\ ~Ordered(s)  BY <3>2 DEF Making
            <4> QED BY <3>1, <4>1
        <3>3. CASE at[s] # "created"  BY <3>1, <3>3
        <3> QED BY <3>2, <3>3
    <2>5. Ordered(s)' => ~Ready(s)' /\ at'[s] # "created"
        BY DEF Making
    <2> QED BY <2>1, <2>3, <2>4, <2>5
<1>5. Making'  BY <1>4 DEF Making
<1>6. ASSUME NEW r \in Requests, at'[r] = "setting", S(r) \notin unsure'
      PROVE  job[r].model = row'[S(r)].model
    <2>1. CASE at[r] = "setting"
        <3>1. row[S(r)] # None
            BY <2>1, RequestFacts DEF Control, RowsThere, Active
        <3> QED BY <1>2, <1>6, <2>1, <3>1 DEF ModelTold
    <2> QED BY <1>6, <2>1
<1>7. ASSUME NEW s \in Sessions, s \notin unsure', Ready(s)'
      PROVE  agent'[s].model = row'[s].model \/ Changing(s)'
    <2>1. row[s] # None  BY <1>3, <1>7 DEF Ready
    <2>2. ~Ordered(s)  BY <1>7 DEF Making
    <2>3. CASE Changing(s)'  BY <2>3
    <2>4. CASE ~Changing(s)'
        <3>1. row'[s].model = row[s].model  BY <1>7, <2>1, <2>4
        <3>2. agent'[s].model = agent[s].model \/ agent'[s].model = row'[s].model
            BY <1>7, <2>2
        <3>3. CASE agent[s].model = row[s].model  BY <3>1, <3>2, <3>3
        <3>4. CASE agent[s].model # row[s].model
            <4>1. Ready(s) /\ s \notin unsure  BY <1>7, <3>4 DEF Making
            <4>2. PICK r \in Requests : /\ Kind(r) = "change" /\ S(r) = s
                                        /\ at[r] \in {"setting", "destroying", "remaking"}
                BY <3>4, <4>1 DEF ModelTold, Changing
            <4>3. at'[r] \notin {"setting", "destroying", "remaking"}
                BY <1>1, <2>4, <4>2 DEF Changing
            <4> QED BY <1>1, <1>7, <4>2, <4>3 DEF Ready
        <3> QED BY <3>3, <3>4
    <2> QED BY <2>3, <2>4
<1>8. ModelTold'  BY <1>1, <1>6, <1>7 DEF ModelTold
<1> QED BY <1>5, <1>8

\* What becomes of the sessions' orders when others' are added ...
LEMMA OrdersAppended ==
    ASSUME TypeOK, OrdersMade,
           \/ orders' = orders
           \/ \E r \in Handlers \ Sessions, m \in Models :
                 orders' = Append(orders, [from |-> r, model |-> m, heard |-> TRUE]),
           \A s \in Sessions : seen'[s] = seen[s]
              \/ \A i \in 1 .. Len(orders) : orders[i].from = s => ~orders[i].heard
    PROVE  OrdersMade' /\ \A s \in Sessions : Ordered(s)' => Ordered(s)
<1>1. \A i \in 1 .. Len(orders') : orders'[i].from \in Sessions =>
          i \in 1 .. Len(orders) /\ orders'[i] = orders[i]
    <2>1. CASE orders' = orders  BY <2>1
    <2>2. ASSUME NEW r \in Handlers \ Sessions, NEW m \in Models,
                 orders' = Append(orders, [from |-> r, model |-> m, heard |-> TRUE])
          PROVE  \A i \in 1 .. Len(orders') : orders'[i].from \in Sessions =>
                    i \in 1 .. Len(orders) /\ orders'[i] = orders[i]
        <3>1. /\ Len(orders) \in Nat /\ Len(orders') = Len(orders) + 1
              /\ \A i \in 1 .. Len(orders) : orders'[i] = orders[i]
              /\ orders'[Len(orders) + 1] = [from |-> r, model |-> m, heard |-> TRUE]
            BY <2>2, AppendProperties, LenProperties DEF TypeOK
        <3>2. \A i \in 1 .. Len(orders') : i \in 1 .. Len(orders) \/ i = Len(orders) + 1
            BY <3>1
        <3> QED BY <3>1, <3>2
    <2> QED BY <2>1, <2>2
<1>2. OrdersMade'
    <2> SUFFICES ASSUME NEW s \in Sessions, NEW i \in 1 .. Len(orders'),
                        orders'[i].from = s, orders'[i].heard
                 PROVE  /\ orders'[i].model = seen'[s]
                        /\ \A j \in 1 .. Len(orders') : i < j => orders'[j].from # s
        BY DEF OrdersMade
    <2>1. i \in 1 .. Len(orders) /\ orders'[i] = orders[i]  BY <1>1
    <2>2. orders'[i].model = seen'[s]  BY <2>1 DEF OrdersMade
    <2>3. \A j \in 1 .. Len(orders') : i < j => orders'[j].from # s
        BY <1>1, <2>1 DEF OrdersMade
    <2> QED BY <2>2, <2>3
<1>3. \A s \in Sessions : Ordered(s)' => Ordered(s)
    BY <1>1 DEF Ordered
<1> QED BY <1>2, <1>3

\* ... when the first is served ...
LEMMA OrdersShortened ==
    ASSUME TypeOK, OrdersMade, orders # <<>>, orders' = Tail(orders), seen' = seen
    PROVE  /\ OrdersMade'
           /\ \A s \in Sessions : Ordered(s)' => Ordered(s)
           /\ \A s \in Sessions : Head(orders).from = s /\ Head(orders).heard =>
                 Head(orders).model = seen[s] /\ ~Ordered(s)'
           /\ \A s \in Sessions : Head(orders).from = s => Ordered(s)
<1>1. /\ 1 \in 1 .. Len(orders) /\ Head(orders) = orders[1]
      /\ \A i \in 1 .. Len(orders') :
            i + 1 \in 1 .. Len(orders) /\ orders'[i] = orders[i + 1]
    BY OrdersTaken
<1>2. /\ \A i \in 1 .. Len(orders') : 1 < i + 1
      /\ \A i, j \in 1 .. Len(orders') : i < j => i + 1 < j + 1
    BY OrdersTaken
<1>3. OrdersMade'
    <2> SUFFICES ASSUME NEW s \in Sessions, NEW i \in 1 .. Len(orders'),
                        orders'[i].from = s, orders'[i].heard
                 PROVE  /\ orders'[i].model = seen'[s]
                        /\ \A j \in 1 .. Len(orders') : i < j => orders'[j].from # s
        BY DEF OrdersMade
    <2>1. i + 1 \in 1 .. Len(orders) /\ orders'[i] = orders[i + 1]  BY <1>1
    <2>2. /\ orders[i + 1].model = seen[s]
          /\ \A j \in 1 .. Len(orders) : i + 1 < j => orders[j].from # s
        BY <2>1 DEF OrdersMade
    <2>3. ASSUME NEW j \in 1 .. Len(orders'), i < j PROVE orders'[j].from # s
        <3>1. j + 1 \in 1 .. Len(orders) /\ orders'[j] = orders[j + 1]  BY <1>1
        <3>2. i + 1 < j + 1  BY <1>2, <2>3
        <3> QED BY <2>2, <3>1, <3>2
    <2> QED BY <2>1, <2>2, <2>3
<1>4. \A s \in Sessions : Ordered(s)' => Ordered(s)
    BY <1>1 DEF Ordered
<1>5. ASSUME NEW s \in Sessions, Head(orders).from = s, Head(orders).heard
      PROVE  Head(orders).model = seen[s] /\ ~Ordered(s)'
    <2>1. /\ orders[1].model = seen[s]
          /\ \A j \in 1 .. Len(orders) : 1 < j => orders[j].from # s
        BY <1>1, <1>5 DEF OrdersMade
    <2>2. ASSUME NEW i \in 1 .. Len(orders') PROVE orders'[i].from # s
        <3>1. i + 1 \in 1 .. Len(orders) /\ orders'[i] = orders[i + 1] /\ 1 < i + 1
            BY <1>1, <1>2
        <3> QED BY <2>1, <3>1
    <2> QED BY <1>1, <2>1, <2>2 DEF Ordered
<1>6. \A s \in Sessions : Head(orders).from = s => Ordered(s)
    BY <1>1 DEF Ordered
<1> QED BY <1>3, <1>4, <1>5, <1>6

\* ... and when one is not waited for any longer.
LEMMA OrdersForgotten ==
    ASSUME TypeOK, OrdersMade, NEW i \in 1 .. Len(orders), OrderTimesOut(i)
    PROVE  OrdersMade' /\ \A s \in Sessions : Ordered(s)' => Ordered(s)
<1>1. /\ Len(orders') = Len(orders)
      /\ \A j \in 1 .. Len(orders) :
            orders'[j] = IF j = i THEN [orders[i] EXCEPT !.heard = FALSE] ELSE orders[j]
      /\ [orders[i] EXCEPT !.heard = FALSE].heard = FALSE
    BY OrderUnheard
<1>2. [orders[i] EXCEPT !.heard = FALSE].from = orders[i].from
    <2>1. orders[i] \in [from : Handlers, model : Models, heard : BOOLEAN]
        BY ElementOfSeq DEF TypeOK
    <2> QED BY <2>1
<1>3. \A j \in 1 .. Len(orders) :
          orders'[j].from = orders[j].from /\ (orders'[j].heard => orders'[j] = orders[j])
    BY <1>1, <1>2
<1>4. seen' = seen  BY DEF OrderTimesOut
<1>5. OrdersMade'  BY <1>1, <1>3, <1>4 DEF OrdersMade
<1>6. \A s \in Sessions : Ordered(s)' => Ordered(s)  BY <1>1, <1>3 DEF Ordered
<1> QED BY <1>5, <1>6

\* A step that makes nothing ready, and neither orders nor tells the agent anything
\* about a model.
LEMMA ModelUntouched ==
    ASSUME TypeOK, Control, Making, ModelTold, job' = job, unsure' = unsure, seen' = seen,
           \/ orders' = orders
           \/ \E r \in Requests, m \in Models :
                 orders' = Append(orders, [from |-> r, model |-> m, heard |-> TRUE]),
           \A s \in Sessions : agent'[s].model = agent[s].model,
           \A s \in Sessions :
              \/ at'[s] = at[s]
              \/ at'[s] \notin {"marking", "preparing", "creating", "created", "failing"}
              \/ at[s] = "marking" /\ at'[s] = "preparing",
           \A s \in Sessions : row[s] # None => row'[s].model = row[s].model,
           \A s \in Sessions : Ready(s)' => Ready(s),
           \A r \in Requests : at'[r] = "setting" => at[r] = "setting",
           \A r \in Requests :
              Kind(r) = "change" /\ at[r] \in {"setting", "destroying", "remaking"} =>
                 at'[r] \in {"setting", "destroying", "remaking"} \/ ~Ready(S(r))'
    PROVE  Making' /\ ModelTold'
<1>1. \A r \in Requests : r \in Handlers \ Sessions  BY RequestFacts
<1>2. OrdersMade' /\ \A s \in Sessions : Ordered(s)' => Ordered(s)
    BY <1>1, OrdersAppended DEF Making
<1> QED BY <1>2, ModelKeeps

\* The models after a step of a queued request.
LEMMA CommandModel ==
    ASSUME TypeOK, Control, Making, ModelTold, NEW r \in Requests, Command(r)
    PROVE  Making' /\ ModelTold'
<1> USE DEF loopVars, ownerVars, boxVars
<1>1. /\ job' = job /\ unsure' = unsure /\ seen' = seen
    BY DEF Command, CreateSession, EnqueueCreated, PeerFails, CheckSendable, PrepareMessage,
           SwapOwner, InjectCredentials, MarkThinking, Prompt, PromptEnds, Stop, Close,
           EndSession, ChangeOwner
<1>2. /\ S(r) \in Sessions /\ r \in Handlers /\ r \notin Sessions
      /\ at \in [Handlers -> Places] /\ Requests \subseteq Handlers
      /\ \A s \in Sessions : at'[s] = at[s]
      /\ \A g \in Requests \ {r} : at'[g] = at[g]
    <2>1. /\ S(r) \in Sessions /\ r \in Handlers /\ r \notin Sessions
          /\ at \in [Handlers -> Places] /\ Requests \subseteq Handlers
          /\ Sessions \subseteq Handlers
        BY RequestFacts DEF TypeOK, Handlers
    <2>2. \A g \in Handlers \ {r} : at'[g] = at[g]  BY OthersStay
    <2> QED BY <2>1, <2>2
<1>3. /\ at[r] \notin {"setting", "destroying", "remaking"} \/ Kind(r) # "change"
      /\ at'[r] # "setting"
    <2>1. CASE SwapOwner(r) \/ InjectCredentials(r)  BY <2>1, SwapMoves
    <2>2. CASE ~(SwapOwner(r) \/ InjectCredentials(r))
        BY <1>2, <2>2 DEF Command, CreateSession, EnqueueCreated, PeerFails, CheckSendable,
               PrepareMessage, MarkThinking, Prompt, PromptEnds, Stop,
               Close, EndSession, ChangeOwner, AskDestroy, Continue, Finish, Goto, At
    <2> QED BY <2>1, <2>2
<1>4. /\ \A g \in Requests : at'[g] = "setting" => at[g] = "setting"
      /\ \A g \in Requests :
            Kind(g) = "change" /\ at[g] \in {"setting", "destroying", "remaking"} =>
               at'[g] \in {"setting", "destroying", "remaking"}
    BY <1>2, <1>3
<1>5. CASE CreateSession(r)
    <2>1. /\ orders' = orders /\ agent' = agent  BY <1>5 DEF CreateSession
    <2>2. /\ \A s \in Sessions : row[s] # None => row'[s] = row[s]
          /\ \A s \in Sessions : Ready(s)' => Ready(s)
        BY <1>2, <1>5, CreateWrites DEF Ready
    <2> QED BY <1>1, <1>2, <1>4, <2>1, <2>2, ModelUntouched
<1>6. CASE \/ EnqueueCreated(r) \/ PeerFails(r) \/ CheckSendable(r) \/ PrepareMessage(r)
           \/ SwapOwner(r) \/ InjectCredentials(r) \/ ChangeOwner(r)
    <2>1. orders' = orders /\ agent' = agent /\ row' = row
        BY <1>6 DEF EnqueueCreated, PeerFails, CheckSendable, PrepareMessage, SwapOwner,
                    InjectCredentials, ChangeOwner
    <2>2. \A s \in Sessions : Ready(s)' => Ready(s)  BY <2>1 DEF Ready
    <2> QED BY <1>1, <1>2, <1>4, <2>1, <2>2, ModelUntouched
<1>7. CASE MarkThinking(r) \/ Prompt(r) \/ PromptEnds(r) \/ EndSession(r)
    <2>1. orders' = orders  BY <1>7 DEF MarkThinking, Prompt, PromptEnds, EndSession
    <2>2. \A s \in Sessions : agent'[s].model = agent[s].model
        <3>1. agent' = agent \/ agent' = [agent EXCEPT ![S(r)].live = TRUE]
            BY <1>7 DEF MarkThinking, Prompt, PromptEnds, EndSession
        <3>2. agent[S(r)] \in [live : BOOLEAN, model : Models \cup {None}]
            BY <1>2 DEF TypeOK
        <3>3. [agent[S(r)] EXCEPT !.live = TRUE].model = agent[S(r)].model  BY <3>2
        <3> QED BY <1>2, <3>1, <3>3 DEF TypeOK
    <2>3. /\ \A x \in Sessions \ {S(r)} : row'[x] = row[x]
          /\ row[S(r)] # None /\ row'[S(r)].model = row[S(r)].model
          /\ row'[S(r)].box = row[S(r)].box
          /\ row'[S(r)].status \in {"error", row[S(r)].status}
        BY <1>7, SendWrites DEF Writes
    <2>4. \A s \in Sessions : row[s] # None => row'[s].model = row[s].model
        BY <2>3
    <2>5. \A s \in Sessions : Ready(s)' => Ready(s)  BY <2>3 DEF Ready
    <2> QED BY <1>1, <1>2, <1>4, <2>1, <2>2, <2>4, <2>5, ModelUntouched
<1>8. CASE Stop(r) \/ Close(r)
    <2>1. agent' = agent /\ row' = row  BY <1>8 DEF Stop, Close
    <2>2. \/ orders' = orders
          \/ orders' = Append(orders, [from |-> r, model |-> First, heard |-> TRUE])
        BY <1>8 DEF Stop, Close, AskDestroy, Order
    <2>3. First \in Models  BY TaskAssumption
    <2>4. \A s \in Sessions : Ready(s)' => Ready(s)  BY <2>1 DEF Ready
    <2> QED BY <1>1, <1>2, <1>4, <2>1, <2>2, <2>3, <2>4, ModelUntouched
<1> QED BY <1>5, <1>6, <1>7, <1>8 DEF Command

\* The models after a step of changeModel.
LEMMA ChangeModel ==
    ASSUME TypeOK, Control, Making, ModelTold, NEW r \in Requests, Change(r)
    PROVE  Making' /\ ModelTold'
<1> USE DEF loopVars, ownerVars, boxVars
<1>1. job' = job /\ seen' = seen
    BY DEF Change, ReadToChange, WriteModel, SetModel, Reset, EnqueueChanged
<1>2. /\ S(r) \in Sessions /\ r \in Handlers /\ r \notin Sessions
      /\ at \in [Handlers -> Places] /\ Requests \subseteq Handlers
      /\ \A s \in Sessions : at'[s] = at[s]
      /\ \A g \in Requests \ {r} : at'[g] = at[g]
      /\ \A g : S(g)' = S(g) /\ Kind(g)' = Kind(g)
    <2>1. /\ S(r) \in Sessions /\ r \in Handlers /\ r \notin Sessions
          /\ at \in [Handlers -> Places] /\ Requests \subseteq Handlers
          /\ Sessions \subseteq Handlers
        BY RequestFacts DEF TypeOK, Handlers
    <2>2. \A g \in Handlers \ {r} : at'[g] = at[g]  BY OthersStay
    <2>3. \A g : S(g)' = S(g) /\ Kind(g)' = Kind(g)  BY <1>1, JobFixed
    <2> QED BY <2>1, <2>2, <2>3
<1>3. CASE ReadToChange(r) \/ EnqueueChanged(r)
    <2>1. /\ orders' = orders /\ agent' = agent /\ row' = row /\ unsure' = unsure
          /\ at[r] \in {"start", "enqueueing"} /\ at'[r] # "setting"
        BY <1>2, <1>3 DEF ReadToChange, EnqueueChanged, Goto, At
    <2>2. \A s \in Sessions : Ready(s)' => Ready(s)  BY <2>1 DEF Ready
    <2> QED BY <1>1, <1>2, <2>1, <2>2, ModelUntouched
<1>4. CASE Reset(r)
    <2>1. /\ orders' = orders /\ agent' = agent /\ unsure' = unsure
          /\ at'[r] # "setting"
        BY <1>2, <1>4 DEF Reset, Goto
    <2>2. /\ \A x \in Sessions \ {S(r)} : row'[x] = row[x]
          /\ row[S(r)] # None /\ row'[S(r)].model = row[S(r)].model
          /\ row'[S(r)].status = "pending"
        BY <1>4, ChangeWrites DEF Writes
    <2>3. /\ \A s \in Sessions : Ready(s)' => Ready(s)
          /\ ~Ready(S(r))'
        BY <1>2, <2>2 DEF Ready
    <2>4. \A s \in Sessions : row[s] # None => row'[s].model = row[s].model  BY <2>2
    <2> QED BY <1>1, <1>2, <2>1, <2>3, <2>4, ModelUntouched
<1>5. CASE WriteModel(r)
    <2> DEFINE s == S(r)
    <2>1. /\ at[r] = "changing" /\ agent' = agent
          /\ unsure' = IF Overlaps(r) THEN unsure \cup {s} ELSE unsure
          /\ row[s] # None /\ row'[s] # None /\ row'[s].model = job[r].model
          /\ row'[s].status = row[s].status /\ row'[s].box = row[s].box
          /\ \A x \in Sessions \ {s} : row'[x] = row[x]
        BY <1>5, ChangeWrites DEF WriteModel, At, Writes
    <2>2. Kind(r) = "change"  BY <2>1, KindsAt
    <2>3. \/ orders' = orders
          \/ orders' = Append(orders, [from |-> r, model |-> First, heard |-> TRUE])
        BY <1>5 DEF WriteModel, AskDestroy, Order
    <2>4. OrdersMade' /\ \A x \in Sessions : Ordered(x)' => Ordered(x)
        <3>1. First \in Models /\ r \in Handlers \ Sessions  BY <1>2, TaskAssumption
        <3> QED BY <1>1, <2>3, <3>1, OrdersAppended DEF Making
    <2>5. Ready(s) => at'[r] \in {"destroying", "setting"}
        BY <1>2, <1>5 DEF WriteModel, AskDestroy, Continue, Goto
    <2>6. \A x \in Sessions : Ready(x)' => Ready(x)
        BY <1>2, <2>1 DEF Ready
    <2>7. Ready(s)' => Changing(s)'
        BY <1>2, <2>2, <2>5, <2>6 DEF Changing
    <2>8. s \notin unsure' =>
             ~Active(s) /\ \A q \in Requests : at[q] = "setting" => S(q) # s
        <3> SUFFICES ASSUME s \notin unsure'
                     PROVE  ~Active(s) /\ \A q \in Requests : at[q] = "setting" => S(q) # s
            OBVIOUS
        <3>1. ~Overlaps(r)  BY <2>1
        <3>2. ~Active(s)  BY <3>1 DEF Overlaps
        <3>3. ASSUME NEW q \in Requests, at[q] = "setting" PROVE S(q) # s
            <4>1. Kind(q) = "change" /\ Active(q) /\ q # r  BY <2>1, <3>3, KindsAt DEF Active
            <4> QED BY <3>1, <4>1 DEF Overlaps
        <3> QED BY <3>2, <3>3
    <2>9. \A x \in Sessions : row[x] # None =>
              \/ row'[x].model = row[x].model
              \/ x \in unsure'
              \/ /\ ~Active(x) /\ at'[x] = at[x] /\ (Ready(x)' => Changing(x)')
                 /\ \A q \in Requests : at[q] = "setting" => S(q) # x
        <3> SUFFICES ASSUME NEW x \in Sessions, row[x] # None, x = s
                     PROVE  \/ x \in unsure'
                            \/ /\ ~Active(x) /\ at'[x] = at[x] /\ (Ready(x)' => Changing(x)')
                               /\ \A q \in Requests : at[q] = "setting" => S(q) # x
            BY <2>1
        <3>1. Ready(x)' => Changing(x)'  BY <1>2, <2>7 DEF Changing, Ready
        <3> QED BY <1>2, <2>8, <3>1
    <2>10. \A g \in Requests : at'[g] = "setting" =>
              at[g] = "setting" \/ job[g].model = row'[S(g)].model
        BY <1>2, <2>1
    <2>11. \A g \in Requests :
              Kind(g) = "change" /\ at[g] \in {"setting", "destroying", "remaking"} =>
                 at'[g] \in {"setting", "destroying", "remaking"}
        BY <1>2, <2>1
    <2>12. unsure \subseteq unsure'  BY <2>1
    <2> HIDE DEF s
    <2> QED BY <1>1, <1>2, <2>1, <2>4, <2>6, <2>9, <2>10, <2>11, <2>12, ModelKeeps
<1>6. CASE SetModel(r)
    <2>1. /\ at[r] = "setting" /\ row' = row /\ orders' = orders /\ at'[r] = "done"
          /\ \/ /\ agent' = [agent EXCEPT ![S(r)] = [live |-> TRUE, model |-> job[r].model]]
                /\ unsure' = unsure
             \/ unsure' = unsure \cup {S(r)} /\ agent' = agent
        BY <1>2, <1>6 DEF SetModel, At, Goto
    <2>2. OrdersMade' /\ \A s \in Sessions : Ordered(s)' => Ordered(s)
        BY <1>1, <2>1, OrdersAppended DEF Making
    <2>3. \A s \in Sessions : Ready(s)' => Ready(s)  BY <2>1 DEF Ready
    <2>4. S(r) \notin unsure => job[r].model = row[S(r)].model  BY <2>1 DEF ModelTold
    <2>5. /\ agent \in [Sessions -> [live : BOOLEAN, model : Models \cup {None}]]
          /\ row[S(r)] # None
        BY <2>1, RequestFacts DEF TypeOK, Control, RowsThere, Active
    <2>6. /\ \A s \in Sessions \ {S(r)} : agent'[s] = agent[s]
          /\ S(r) \in unsure' \/ agent'[S(r)].model = row[S(r)].model
        <3>1. CASE unsure' = unsure \cup {S(r)} /\ agent' = agent  BY <3>1
        <3>2. CASE /\ agent' = [agent EXCEPT ![S(r)] = [live |-> TRUE, model |-> job[r].model]]
                   /\ unsure' = unsure
            <4>1. agent'[S(r)] = [live |-> TRUE, model |-> job[r].model]
                BY <1>2, <2>5, <3>2
            <4>2. agent'[S(r)].model = job[r].model  BY <4>1
            <4>3. \A s \in Sessions \ {S(r)} : agent'[s] = agent[s]  BY <2>5, <3>2
            <4> QED BY <2>4, <3>2, <4>2, <4>3
        <3> QED BY <2>1, <3>1, <3>2
    <2>7. unsure \subseteq unsure'  BY <2>1
    <2>8. \A s \in Sessions :
             \/ agent'[s].model = agent[s].model \/ s \in unsure'
             \/ agent'[s].model = row[s].model /\ row'[s] = row[s]
        BY <2>1, <2>6
    <2>9. \A g \in Requests : at'[g] = "setting" => at[g] = "setting"  BY <1>2, <2>1
    <2>10. \A g \in Requests :
              Kind(g) = "change" /\ at[g] \in {"setting", "destroying", "remaking"} =>
                 \/ at'[g] \in {"setting", "destroying", "remaking"}
                 \/ S(g) \in unsure' \/ agent'[S(g)].model = row'[S(g)].model
        BY <1>2, <2>1, <2>6
    <2> QED BY <1>1, <1>2, <2>1, <2>2, <2>3, <2>7, <2>8, <2>9, <2>10, ModelKeeps
<1> QED BY <1>3, <1>4, <1>5, <1>6 DEF Change

\* Whoever is not at "creating" waits for no order.
LEMMA NoneHeard ==
    ASSUME TypeOK, Control, NEW s \in Sessions, at[s] # "creating"
    PROVE  \A i \in 1 .. Len(orders) : orders[i].from = s => ~orders[i].heard
BY SessionFacts DEF Control, OrdersAwaited

\* The order of an ensure is the only one of its session that is waited for.
LEMMA OrderMade ==
    ASSUME TypeOK, Control, OrdersMade, NEW s \in Sessions, at[s] = "preparing",
           Order(s, seen[s]), seen' = seen
    PROVE  OrdersMade' /\ \A x \in Sessions : Ordered(x)' => Ordered(x) \/ x = s
<1> DEFINE o == [from |-> s, model |-> seen[s], heard |-> TRUE]
<1>1. /\ s \in Handlers /\ seen[s] \in Models
      /\ o \in [from : Handlers, model : Models, heard : BOOLEAN]
    BY SessionFacts DEF TypeOK
<1>2. o.from = s /\ o.model = seen[s]  OBVIOUS
<1>3. orders' = Append(orders, o)  BY DEF Order
<1> HIDE DEF o
<1>4. /\ Len(orders) \in Nat /\ Len(orders') = Len(orders) + 1
      /\ \A i \in 1 .. Len(orders) : orders'[i] = orders[i]
      /\ orders'[Len(orders) + 1] = o
    BY <1>1, <1>3, AppendProperties, LenProperties DEF TypeOK
<1>5. \A i \in 1 .. Len(orders') : i \in 1 .. Len(orders) \/ i = Len(orders) + 1
    BY <1>4
<1>6. \A i \in 1 .. Len(orders) : orders[i].from = s => ~orders[i].heard
    BY NoneHeard
<1>7. \A i, j \in 1 .. Len(orders') : i = Len(orders) + 1 => ~(i < j)
    BY <1>4
<1>8. OrdersMade'
    <2> SUFFICES ASSUME NEW x \in Sessions, NEW i \in 1 .. Len(orders'),
                        orders'[i].from = x, orders'[i].heard
                 PROVE  /\ orders'[i].model = seen[x]
                        /\ \A j \in 1 .. Len(orders') : i < j => orders'[j].from # x
        BY DEF OrdersMade
    <2>1. CASE i = Len(orders) + 1
        BY <1>2, <1>4, <1>7, <2>1
    <2>2. CASE i \in 1 .. Len(orders)
        <3>1. orders[i].from = x /\ orders[i].heard /\ x # s  BY <1>4, <1>6, <2>2
        <3>2. /\ orders[i].model = seen[x]
              /\ \A j \in 1 .. Len(orders) : i < j => orders[j].from # x
            BY <2>2, <3>1 DEF OrdersMade
        <3> QED BY <1>2, <1>4, <1>5, <2>2, <3>1, <3>2
    <2> QED BY <1>5, <2>1, <2>2
<1>9. ASSUME NEW x \in Sessions, Ordered(x)', x # s PROVE Ordered(x)
    <2>1. PICK i \in 1 .. Len(orders') : orders'[i].from = x  BY <1>9 DEF Ordered
    <2>2. i \in 1 .. Len(orders) /\ orders'[i] = orders[i]  BY <1>2, <1>4, <1>5, <1>9, <2>1
    <2> QED BY <2>1, <2>2 DEF Ordered
<1> QED BY <1>8, <1>9

\* The models after a step of an ensure.
LEMMA EnsureModel ==
    ASSUME TypeOK, Control, Making, ModelTold, NEW s \in Sessions, Ensure(s)
    PROVE  Making' /\ ModelTold'
<1> USE DEF loopVars, ownerVars, boxVars
<1>1. job' = job /\ unsure' = unsure /\ agent' = agent
    BY DEF Ensure, ReadToEnsure, MarkPending, PrepareSession, MarkReady, EnsureFails
<1>2. /\ s \in Handlers /\ at \in [Handlers -> Places]
      /\ \A x \in Sessions \ {s} : at'[x] = at[x]
      /\ \A g \in Requests : at'[g] = at[g]
    BY SessionFacts, OthersStay DEF TypeOK, Handlers
<1>3. CASE ReadToEnsure(s)
    <2>1. /\ at[s] = "start" /\ row' = row /\ orders' = orders
          /\ \A x \in Sessions \ {s} : seen'[x] = seen[x]
          /\ at'[s] \in {"done", "marking"}
          /\ at'[s] = "marking" => ~Ready(s) /\ seen'[s] = row[s].model
        BY <1>2, <1>3 DEF ReadToEnsure, Continue, Finish, Goto, At, TypeOK
    <2>2. OrdersMade' /\ \A x \in Sessions : Ordered(x)' => Ordered(x)
        <3>1. \A i \in 1 .. Len(orders) : orders[i].from = s => ~orders[i].heard
            BY <2>1, NoneHeard
        <3> QED BY <2>1, <3>1, OrdersAppended DEF Making
    <2>3. \A x \in Sessions : Ready(x)' = Ready(x)  BY <2>1 DEF Ready
    <2> QED BY <1>1, <1>2, <2>1, <2>2, <2>3, ModelKeeps
<1>4. CASE MarkPending(s)
    <2>1. /\ at[s] = "marking" /\ orders' = orders /\ seen' = seen /\ at'[s] = "preparing"
          /\ \A x \in Sessions \ {s} : row'[x] = row[x]
          /\ row'[s].status = "pending" /\ row'[s].model = row[s].model
        BY <1>2, <1>4, EnsureWrites DEF MarkPending, Continue, Goto, At, Writes
    <2>2. \A x \in Sessions : Ready(x)' => Ready(x)  BY <2>1 DEF Ready
    <2>3. \A x \in Sessions : row[x] # None => row'[x].model = row[x].model  BY <2>1
    <2> QED BY <1>1, <1>2, <2>1, <2>2, <2>3, ModelUntouched
<1>5. CASE PrepareSession(s)
    <2>1. /\ at[s] = "preparing" /\ row' = row /\ seen' = seen
          /\ \/ Order(s, seen[s]) /\ at'[s] = "creating"
             \/ orders' = orders /\ at'[s] = "failing"
        BY <1>2, <1>5 DEF PrepareSession, Continue, Goto, At
    <2>2. OrdersMade' /\ \A x \in Sessions : Ordered(x)' => Ordered(x) \/
                                                (x = s /\ at'[s] = "creating")
        <3>1. CASE Order(s, seen[s]) /\ at'[s] = "creating"
            BY <2>1, <3>1, OrderMade DEF Making
        <3>2. CASE orders' = orders
            BY <2>1, <3>2, OrdersAppended DEF Making
        <3> QED BY <2>1, <3>1, <3>2
    <2>3. \A x \in Sessions : Ready(x)' = Ready(x)  BY <2>1 DEF Ready
    <2> QED BY <1>1, <1>2, <2>1, <2>2, <2>3, ModelKeeps
<1>6. CASE MarkReady(s)
    <2>1. /\ at[s] = "created" /\ orders' = orders /\ seen' = seen /\ at'[s] = "done"
          /\ \A x \in Sessions \ {s} : row'[x] = row[x]
          /\ row'[s].model = row[s].model
        BY <1>2, <1>6, EnsureWrites DEF MarkReady, Finish, Goto, At, Writes
    <2>2. OrdersMade' /\ \A x \in Sessions : Ordered(x)' => Ordered(x)
        BY <2>1, OrdersAppended DEF Making
    <2>3. \A x \in Sessions : Ready(x)' => Ready(x) \/ x = s  BY <2>1 DEF Ready
    <2>4. \A x \in Sessions : row[x] # None => row'[x].model = row[x].model  BY <2>1
    <2> QED BY <1>1, <1>2, <2>1, <2>2, <2>3, <2>4, ModelKeeps
<1>7. CASE EnsureFails(s)
    <2>1. /\ orders' = orders /\ seen' = seen /\ at'[s] = "done"
          /\ \A x \in Sessions \ {s} : row'[x] = row[x]
          /\ row'[s].status = "error" /\ row'[s].model = row[s].model
        BY <1>2, <1>7, EnsureWrites DEF EnsureFails, Finish, Goto, Writes
    <2>2. \A x \in Sessions : Ready(x)' => Ready(x)  BY <2>1 DEF Ready
    <2>3. \A x \in Sessions : row[x] # None => row'[x].model = row[x].model  BY <2>1
    <2> QED BY <1>1, <1>2, <2>1, <2>2, <2>3, ModelUntouched
<1> QED BY <1>3, <1>4, <1>5, <1>6, <1>7 DEF Ensure

\* What becomes of whoever waited, when the order was not carried out.
LEMMA NotCarriedModel ==
    ASSUME TypeOK, Control, Making, ModelTold, OrdersMade',
           \A s \in Sessions : Ordered(s)' => Ordered(s),
           UNCHANGED <<job, row, seen, agent>>,
           NEW h \in Handlers, at[h] = Waiting(h), NotCarried(h)
    PROVE  Making' /\ ModelTold'
<1>1. /\ at \in [Handlers -> Places] /\ Requests \subseteq Handlers /\ Sessions \subseteq Handlers
      /\ S(h) \in Sessions /\ (Kind(h) = "ensure" <=> h \in Sessions)
    BY HandlerFacts DEF TypeOK, Handlers
<1>2. /\ \A g \in Handlers \ {h} : at'[g] = at[g]
      /\ at'[h] \in {"failing", "done"}
      /\ Kind(h) = "ensure" => at[h] = "creating"
      /\ unsure' = IF Kind(h) = "change" THEN unsure \cup {S(h)} ELSE unsure
    BY <1>1 DEF NotCarried, Continue, Finish, Goto, Waiting
<1>3. \A s \in Sessions : at'[s] = at[s] \/ at'[s] = "done"
                          \/ (at[s] = "creating" /\ at'[s] = "failing")
    BY <1>1, <1>2
<1>4. \A g \in Requests :
         /\ at'[g] = "setting" => at[g] = "setting"
         /\ Kind(g) = "change" => at'[g] = at[g] \/ S(g) \in unsure'
    BY <1>1, <1>2
<1>5. \A s \in Sessions : Ready(s)' = Ready(s)  BY DEF Ready
<1>6. unsure \subseteq unsure'  BY <1>2
<1> QED BY <1>3, <1>4, <1>5, <1>6, ModelKeeps

\* The models after the sandbox actor's steps.
LEMMA SandboxModel ==
    ASSUME TypeOK, Control, Making, ModelTold,
           SandboxServes \/ SandboxFails \/ \E i \in 1 .. Len(orders) : OrderTimesOut(i)
    PROVE  Making' /\ ModelTold'
<1> USE DEF loopVars, ownerVars, boxVars
<1>1. \A i \in 1 .. Len(orders) :
          /\ orders[i].from \in Handlers
          /\ orders[i].heard => at[orders[i].from] = Waiting(orders[i].from)
    BY OrderFacts DEF Control, OrdersAwaited, Waiting
<1>2. orders # <<>> => 1 \in 1 .. Len(orders) /\ Head(orders) = orders[1]
    BY OrdersTaken
<1>3. ASSUME job' = job, unsure' = unsure, seen' = seen, agent' = agent, row' = row, at' = at,
             OrdersMade', \A s \in Sessions : Ordered(s)' => Ordered(s)
      PROVE  Making' /\ ModelTold'
    <2>1. \A s \in Sessions : Ready(s)' = Ready(s)  BY <1>3 DEF Ready
    <2> QED BY <1>3, <2>1, ModelKeeps
<1>4. CASE SandboxServes
    <2> DEFINE h == Head(orders).from
    <2>1. /\ orders # <<>> /\ orders' = Tail(orders) /\ job' = job /\ unsure' = unsure
          /\ seen' = seen /\ row' = row
          /\ Head(orders).heard => at' = [at EXCEPT ![h] = Carried(h)]
          /\ ~Head(orders).heard => at' = at
        BY <1>4 DEF SandboxServes, Goto
    <2>2. /\ OrdersMade'
          /\ \A s \in Sessions : Ordered(s)' => Ordered(s)
          /\ \A s \in Sessions : h = s /\ Head(orders).heard =>
                Head(orders).model = seen[s] /\ ~Ordered(s)'
          /\ \A s \in Sessions : h = s => Ordered(s)
        BY <2>1, OrdersShortened DEF Making
    <2>3. /\ h \in Handlers /\ S(h) \in Sessions /\ (Kind(h) = "ensure" <=> h \in Sessions)
          /\ Head(orders).heard => at[h] = Waiting(h)
          /\ \A s \in Sessions : h = s => S(h) = s
        BY <1>1, <1>2, <2>1, HandlerFacts, SessionFacts
    <2>4. agent \in [Sessions -> [live : BOOLEAN, model : Models \cup {None}]]
          /\ at \in [Handlers -> Places]
          /\ Requests \subseteq Handlers /\ Sessions \subseteq Handlers
        BY DEF TypeOK, Handlers
    <2>5. /\ \A s \in Sessions : agent'[s].model = agent[s].model \/ s = h
          /\ h \in Sessions => agent'[h].model = Head(orders).model
        <3>1. CASE h \in Sessions
            <4>1. agent' = [agent EXCEPT ![h] = [live |-> TRUE, model |-> Head(orders).model]]
                BY <1>4, <2>3, <3>1 DEF SandboxServes
            <4>2. agent'[h] = [live |-> TRUE, model |-> Head(orders).model]
                BY <2>4, <3>1, <4>1
            <4>3. \A s \in Sessions \ {h} : agent'[s] = agent[s]  BY <2>4, <4>1
            <4> QED BY <4>2, <4>3
        <3>2. CASE h \notin Sessions
            <4>1. agent' = [agent EXCEPT ![S(h)] = [agent[S(h)] EXCEPT !.live = FALSE]]
                BY <1>4, <2>3, <3>2 DEF SandboxServes
            <4>2. agent[S(h)] \in [live : BOOLEAN, model : Models \cup {None}]
                BY <2>3, <2>4
            <4>3. [agent[S(h)] EXCEPT !.live = FALSE].model = agent[S(h)].model  BY <4>2
            <4> QED BY <2>3, <2>4, <3>2, <4>1, <4>3
        <3> QED BY <3>1, <3>2
    <2>6. \A s \in Sessions : Ready(s)' = Ready(s)  BY <2>1 DEF Ready
    <2>7. /\ \A g \in Handlers \ {h} : at'[g] = at[g]
          /\ \/ at'[h] = at[h]
             \/ Head(orders).heard /\ at'[h] = Carried(h) /\ at[h] = Waiting(h)
        BY <2>1, <2>3, <2>4
    <2>8. /\ h \in Sessions => Carried(h) = "created" /\ Waiting(h) = "creating"
          /\ h \notin Sessions /\ Kind(h) = "change" => Carried(h) = "remaking"
          /\ Carried(h) # "setting"
        BY <2>3 DEF Carried, Waiting
    <2>9. \A s \in Sessions :
             \/ at'[s] = at[s]
             \/ /\ at[s] = "creating" /\ at'[s] = "created"
                /\ ~Ordered(s)' /\ agent'[s].model = seen[s]
        <3> HIDE DEF h
        <3> QED BY <2>2, <2>4, <2>5, <2>7, <2>8
    <2>10. \A g \in Requests :
             /\ at'[g] = "setting" => at[g] = "setting"
             /\ Kind(g) = "change" => at'[g] = at[g] \/ at'[g] = "remaking"
        <3>1. \A g \in Requests : g \notin Sessions  BY RequestFacts
        <3> HIDE DEF h
        <3> QED BY <2>4, <2>7, <2>8, <3>1
    <2>11. \A s \in Sessions : agent'[s].model = agent[s].model \/ Ordered(s)
        BY <2>2, <2>5
    <2> HIDE DEF h
    <2> QED BY <2>1, <2>2, <2>6, <2>9, <2>10, <2>11, ModelKeeps
<1>5. CASE SandboxFails
    <2>1. /\ orders # <<>> /\ orders' = Tail(orders) /\ UNCHANGED <<job, row, seen, agent>>
          /\ Head(orders).heard => NotCarried(Head(orders).from)
          /\ ~Head(orders).heard => at' = at /\ unsure' = unsure
        BY <1>5 DEF SandboxFails
    <2>2. OrdersMade' /\ \A s \in Sessions : Ordered(s)' => Ordered(s)
        BY <2>1, OrdersShortened DEF Making
    <2>3. CASE Head(orders).heard
        BY <1>1, <1>2, <2>1, <2>2, <2>3, NotCarriedModel
    <2>4. CASE ~Head(orders).heard  BY <1>3, <2>1, <2>2, <2>4
    <2> QED BY <2>3, <2>4
<1>6. ASSUME NEW i \in 1 .. Len(orders), OrderTimesOut(i) PROVE Making' /\ ModelTold'
    <2>1. OrdersMade' /\ \A s \in Sessions : Ordered(s)' => Ordered(s)
        BY <1>6, OrdersForgotten DEF Making
    <2>2. /\ UNCHANGED <<job, row, seen, agent>> /\ NotCarried(orders[i].from)
          /\ orders[i].heard
        BY <1>6 DEF OrderTimesOut
    <2> QED BY <1>1, <2>1, <2>2, NotCarriedModel
<1> QED BY <1>4, <1>5, <1>6

\* Every step keeps Making and ModelTold.
LEMMA ModelStep ==
    TypeOK /\ Control /\ Making /\ ModelTold /\ [Next]_vars => Making' /\ ModelTold'
<1> SUFFICES ASSUME TypeOK, Control, Making, ModelTold, [Next]_vars
             PROVE  Making' /\ ModelTold'
    OBVIOUS
<1> USE DEF loopVars, ownerVars, boxVars
<1>1. job' = job /\ at \in [Handlers -> Places] /\ Requests \subseteq Handlers
      /\ Sessions \subseteq Handlers /\ \A r \in Requests : r \notin Sessions
    BY JobKept, RequestFacts DEF TypeOK, Handlers
<1>2. ASSUME UNCHANGED <<unsure, seen, orders, agent, row>>,
             \A g \in Handlers : at'[g] = at[g] \/
                /\ at[g] \in {"idle", "queued", "done"} /\ at'[g] \in {"start", "queued"}
      PROVE  Making' /\ ModelTold'
    <2>1. \A s \in Sessions : Ready(s)' = Ready(s)  BY <1>2 DEF Ready
    <2> QED BY <1>1, <1>2, <2>1, ModelUntouched
<1>3. CASE Take
    BY <1>2, <1>3, OthersStay DEF Take
<1>4. ASSUME NEW r \in Requests, Ask(r) PROVE Making' /\ ModelTold'
    BY <1>1, <1>2, <1>4 DEF Ask, At, Goto
<1>5. ASSUME NEW r \in Requests, StepTimesOut(r) PROVE Making' /\ ModelTold'
    BY <1>2, <1>5 DEF StepTimesOut
<1>6. ASSUME NEW s \in Sessions, RefreshTranscript(s) PROVE Making' /\ ModelTold'
    <2>1. /\ UNCHANGED <<unsure, seen, orders, agent, at>>
          /\ \A x \in Sessions \ {s} : row'[x] = row[x]
          /\ row[s] # None /\ row'[s] # None /\ row'[s].model = row[s].model
          /\ row'[s].status = row[s].status /\ row'[s].box = row[s].box
        BY <1>6, EnsureWrites DEF RefreshTranscript, Writes
    <2>2. \A x \in Sessions : Ready(x)' => Ready(x)  BY <2>1 DEF Ready
    <2>3. \A x \in Sessions : row[x] # None => row'[x].model = row[x].model  BY <2>1
    <2> QED BY <1>1, <2>1, <2>2, <2>3, ModelUntouched
<1>7. CASE UNCHANGED vars \/ PrepareElsewhere
    BY <1>2, <1>7 DEF vars, PrepareElsewhere
<1> QED BY <1>3, <1>4, <1>5, <1>6, <1>7, CommandModel, ChangeModel, EnsureModel, SandboxModel
        DEF Next

-----------------------------------------------------------------------------
(* The invariant, and what it says.                                         *)

\* A task begins with what was made earlier.
LEMMA InitInvariant == Init => IInv
<1> SUFFICES ASSUME Init PROVE IInv
    OBVIOUS
<1>1. \A h \in Handlers : at[h] = "idle"  BY DEF Init
<1>2. TypeOK
    <2>1. row \in [Sessions -> Row \cup {None}]
        BY TaskAssumption DEF Init, NewRow, Row
    <2>2. agent \in [Sessions -> [live : BOOLEAN, model : Models \cup {None}]]
        BY TaskAssumption DEF Init
    <2>3. seen \in [Sessions -> Models]  BY TaskAssumption DEF Init
    <2>4. at \in [Handlers -> Places]  BY DEF Init, Places
    <2>5. unbacked \in [Users -> {"no", "unresolved", "refused"}]  BY DEF Init
    <2>6. /\ queue \in Seq(Handlers)
          /\ orders \in Seq([from : Handlers, model : Models, heard : BOOLEAN])
        BY DEF Init
    <2>7. /\ job \in Jobs /\ busy \in Handlers \cup {None}
          /\ owner \in Users \cup {None} /\ author \in Users \cup {None}
          /\ prepared \in BOOLEAN
          /\ lost \subseteq Sessions /\ unsure \subseteq Sessions
        BY DEF Init
    <2> QED BY <2>1, <2>2, <2>3, <2>4, <2>5, <2>6, <2>7 DEF TypeOK
<1>3. Len(queue) = 0 /\ Len(orders) = 0  BY EmptySeq DEF Init
<1>4. 1 .. Len(queue) = {} /\ 1 .. Len(orders) = {}  BY <1>3
<1>5. Control
    <2>1. InPlace
        <3>1. ASSUME NEW h \in Handlers PROVE "idle" \in PlacesOf(h)
            <4>1. CASE h \in Sessions  BY <4>1, SessionFacts DEF PlacesOf, EnsurePlaces
            <4>2. CASE h \in Requests
                <5>1. Kind(h) \in Kinds /\ Kind(h) # "ensure"  BY <1>2, <4>2, RequestFacts
                <5> QED BY <5>1 DEF PlacesOf, ChangePlaces, Kinds
            <4> QED BY <4>1, <4>2 DEF Handlers
        <3> QED BY <1>1, <3>1 DEF InPlace
    <2>2. OneRuns /\ RowsThere  BY <1>1 DEF OneRuns, RowsThere, Active
    <2>3. QueuedOnce /\ OrdersAwaited  BY <1>4 DEF QueuedOnce, OrdersAwaited
    <2> QED BY <2>1, <2>2, <2>3 DEF Control
<1>6. \A s \in Sessions : row[s] # None =>
          /\ row[s] = NewRow("ready", TRUE, First)
          /\ row[s].thinking = FALSE /\ row[s].closed = FALSE /\ row[s].model = First
          /\ s \in Existing
    BY DEF Init, NewRow
<1>7. ThinkingEnds  BY <1>6 DEF ThinkingEnds
<1>8. OtherOpen /\ KeepsASession
    <2>1. \A r \in Requests : at[r] = "idle"  BY <1>1 DEF Handlers
    <2> QED BY <1>6, <2>1 DEF OtherOpen, KeepsASession, Open
<1>9. OwnerBacked
    <2>1. \A r \in Requests : at[r] = "idle"  BY <1>1 DEF Handlers
    <2> QED BY <2>1 DEF OwnerBacked, Injecting, Init
<1>10. Making
    <2>1. \A s \in Sessions : at[s] = "idle"  BY <1>1 DEF Handlers
    <2> QED BY <1>4, <2>1 DEF Making, OrdersMade, Ordered
<1>11. ModelTold
    <2>1. \A r \in Requests : at[r] = "idle"  BY <1>1 DEF Handlers
    <2>2. ASSUME NEW s \in Sessions, Ready(s) PROVE agent[s].model = row[s].model
        <3>1. s \in Existing /\ row[s].model = First  BY <1>6, <2>2 DEF Ready
        <3>2. agent[s] = [live |-> TRUE, model |-> First]  BY <2>2, <3>1 DEF Init
        <3> QED BY <3>1, <3>2
    <2> QED BY <2>1, <2>2 DEF ModelTold
<1> QED BY <1>2, <1>5, <1>7, <1>8, <1>9, <1>10, <1>11 DEF IInv

\* Where the handlers are, what their sessions' rows say, what was ordered for them
\* and what the agent was told fit together in every state, whatever is asked of
\* the task and however the sandbox actor and the other actors answer.
THEOREM TaskInvariant == Spec => []IInv
<1>1. IInv /\ [Next]_vars => IInv'
    BY NextType, ControlStep, ThinkingStep, OpenStep, OwnerStep, ModelStep DEF IInv
<1> QED BY InitInvariant, <1>1, PTL DEF Spec

\* Every variable of the task and of the sandbox actor keeps its type.
THEOREM TypeCorrect == Spec => []TypeOK
<1>1. IInv => TypeOK  BY DEF IInv
<1> QED BY <1>1, TaskInvariant, PTL

\* A session is shown as running only while a prompt is on its way: the send that
\* marks it clears it, answered, refused or given up, and only a user or organization
\* actor that fails in between leaves it marked.
THEOREM ThinkingStops == Spec => []ThinkingEnds
<1>1. IInv => ThinkingEnds  BY DEF IInv
<1> QED BY <1>1, TaskInvariant, PTL

\* A task that has a session keeps an open one: a close counts the open sessions, and
\* between that and its last write no other close gets a turn.
THEOREM OpenRemains == Spec => []KeepsASession
<1>1. IInv => KeepsASession  BY DEF IInv
<1> QED BY <1>1, TaskInvariant, PTL

\* When the task has come to rest, the agent of a ready session uses the model its row
\* names, unless two changes met, or a change and an ensure, or the sandbox refused.
THEOREM ModelReaches == Spec => []ModelInForce
<1>1. IInv => ModelInForce
    <2> SUFFICES ASSUME IInv, Quiet, NEW s \in Open \ unsure, Ready(s)
                 PROVE  agent[s].model = row[s].model
        BY DEF ModelInForce
    <2>1. s \in Sessions \ unsure  BY DEF Open
    <2>2. agent[s].model = row[s].model \/ Changing(s)  BY <2>1 DEF IInv, ModelTold
    <2>3. ~Changing(s)  BY DEF Changing, Quiet, Active, Handlers
    <2> QED BY <2>2, <2>3
<1> QED BY <1>1, TaskInvariant, PTL

\* The loop sends a prompt while git in the sandbox bears its sender's name: a sender
\* who is not the owner is injected, and whoever is the owner was, or there is a reason
\* on record.
THEOREM SenderBacked == Spec => []SenderAttributed
<1>1. IInv => SenderAttributed
    BY DEF IInv, OwnerBacked, Backed, SenderAttributed
<1> QED BY <1>1, TaskInvariant, PTL

=============================================================================
