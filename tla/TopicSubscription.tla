------------------------- MODULE TopicSubscription -------------------------
(***************************************************************************)
(* One cache key of the RemoteSubscriptionManager of                       *)
(* foundry/packages/client/src/subscription/remote-manager.ts: the entry   *)
(* that listeners of a topic share, with its actor connection, its         *)
(* snapshot, the starts and retries that overlap, and the grace period.    *)
(*                                                                         *)
(* Entries of different keys share nothing.  The connect of a topic awaits *)
(* nothing but promises that are already resolved (backend-client.ts:567), *)
(* so a start reaches its first real wait, the initial fetch, in one step. *)
(* The link of a connection comes up later; the server's changes are       *)
(* numbered, and an event carries the number it was sent for.              *)
(***************************************************************************)
EXTENDS Naturals, Sequences, FiniteSets

CONSTANTS
    Listeners,          \* mounted components that may watch the topic
    None,               \* no connection, no data, nothing read
    Asked,              \* a read that the server has not answered yet
    MaxSubscribes,      \* bound on subscriptions
    MaxTrouble          \* bound on failures and on changes of the server, together

ASSUME SubscriptionAssumption ==
    /\ MaxSubscribes \in Nat /\ MaxTrouble \in Nat
    /\ {None, Asked} \cap Nat = {} /\ None # Asked

\* Every start comes from a subscription or from one failure.
Starts   == 1 .. MaxSubscribes + MaxTrouble
Versions == 0 .. MaxTrouble

VARIABLES
    refetches,      \* the topic answers an event with a read of its own
    version,        \* the server's state
    live,           \* entries has the key
    listeners,      \* the listeners of the entry
    begun,          \* starts made so far; start a opened connection a
    fetch,          \* fetch[a]: the initial fetch of start a
    conn,           \* this.conn
    link,           \* link[a]: the state of connection a
    wire,           \* wire[a]: events sent on connection a
    chain,          \* events behind this.eventPromise
    applying,       \* the read of the event being applied, None when there is none
    data,           \* this.data
    status,
    started,
    starting,       \* this.startPromise is set
    retries,        \* retry timers running
    teardown,       \* the teardown timer runs
    subscribes,     \* subscriptions so far
    failures,       \* failures so far
    dropped         \* some event was lost: not delivered, or ignored by applyEvent

serverVars == <<refetches, version>>
connVars   == <<conn, link, wire>>
eventVars  == <<chain, applying>>
timerVars  == <<retries, teardown>>
boundVars  == <<subscribes, failures>>
vars == <<serverVars, live, listeners, begun, fetch, connVars, eventVars, data, status,
          started, starting, timerVars, boundVars, dropped>>

TypeOK ==
    /\ refetches \in BOOLEAN
    /\ version \in Versions
    /\ live \in BOOLEAN
    /\ listeners \subseteq Listeners
    /\ begun \in 0 .. MaxSubscribes + MaxTrouble
    /\ fetch \in [Starts -> Versions \cup {None, Asked}]
    /\ conn \in Starts \cup {None}
    /\ link \in [Starts -> {"none", "opening", "open", "broken", "disposed", "lost"}]
    /\ wire \in [Starts -> Seq(Versions)]
    /\ chain \in Seq(Versions)
    /\ applying \in Versions \cup {None, Asked}
    /\ data \in Versions \cup {None}
    /\ status \in {"loading", "connected", "error"}
    /\ started \in BOOLEAN
    /\ starting \in BOOLEAN
    /\ retries \in Nat
    /\ teardown \in BOOLEAN
    /\ subscribes \in 0 .. MaxSubscribes
    /\ failures \in 0 .. MaxTrouble
    /\ dropped \in BOOLEAN

Init ==
    /\ refetches \in BOOLEAN
    /\ version = 0
    /\ live = FALSE
    /\ listeners = {}
    /\ begun = 0
    /\ fetch = [a \in Starts |-> None]
    /\ conn = None
    /\ link = [a \in Starts |-> "none"]
    /\ wire = [a \in Starts |-> <<>>]
    /\ chain = <<>>
    /\ applying = None
    /\ data = None
    /\ status = "loading"
    /\ started = FALSE
    /\ starting = FALSE
    /\ retries = 0
    /\ teardown = FALSE
    /\ subscribes = 0
    /\ failures = 0
    /\ dropped = FALSE

-----------------------------------------------------------------------------
(* The entry.                                                               *)

\* The connection is one the entry may still hear from.
Undisposed(a) == link[a] \in {"opening", "open", "broken"}

\* start() up to the initial fetch.  The new connection replaces conn; only a
\* retry has disposed the one that was there.
Start(closed) ==
    LET a == begun + 1 IN
    /\ begun' = a
    /\ conn' = a
    /\ link' = [b \in Starts |-> IF b = a THEN "opening"
                                 ELSE IF b \in closed THEN "disposed" ELSE link[b]]
    /\ wire' = [b \in Starts |-> IF b \in closed THEN <<>> ELSE wire[b]]
    /\ fetch' = [fetch EXCEPT ![a] = Asked]
    /\ status' = "loading"
    /\ starting' = TRUE

\* ensureStarted()
EnsureStarted ==
    \/ /\ started \/ starting
       /\ UNCHANGED <<begun, connVars, fetch, status, starting>>
    \/ /\ ~(started \/ starting)
       /\ Start({})

\* Variant: subscribing leaves the teardown timer alone.
SubscribeUnsafe(l) ==
    /\ l \notin listeners
    /\ subscribes < MaxSubscribes
    /\ subscribes' = subscribes + 1
    /\ live' = TRUE
    /\ listeners' = listeners \cup {l}
    /\ EnsureStarted
    /\ UNCHANGED <<serverVars, eventVars, data, started, retries, teardown, failures, dropped>>

\* subscribe(): the entry is found or made, and its teardown called off.
Subscribe(l) ==
    /\ l \notin listeners
    /\ subscribes < MaxSubscribes
    /\ subscribes' = subscribes + 1
    /\ live' = TRUE
    /\ listeners' = listeners \cup {l}
    /\ teardown' = FALSE
    /\ EnsureStarted
    /\ UNCHANGED <<serverVars, eventVars, data, started, retries, failures, dropped>>

\* The function subscribe() returned: the last listener starts the grace period.
Unsubscribe(l) ==
    /\ l \in listeners
    /\ listeners' = listeners \ {l}
    /\ teardown' = (listeners' = {})
    /\ UNCHANGED <<serverVars, live, begun, fetch, connVars, eventVars, data, status, started,
                   starting, retries, boundVars, dropped>>

\* The grace period is over: dispose(), and the key leaves the map.  Starts,
\* events and timers of the entry go on in an object nobody can reach, and so
\* does a connection that is not conn any more: it stays open for ever.
Teardown ==
    /\ teardown
    /\ teardown' = FALSE
    /\ live' = FALSE
    /\ link' = [a \in Starts |-> IF a = conn THEN "disposed"
                                 ELSE IF Undisposed(a) THEN "lost" ELSE link[a]]
    /\ wire' = [a \in Starts |-> <<>>]
    /\ conn' = None
    /\ fetch' = [a \in Starts |-> None]
    /\ chain' = <<>>
    /\ applying' = None
    /\ data' = None
    /\ status' = "loading"
    /\ started' = FALSE
    /\ starting' = FALSE
    /\ retries' = 0
    /\ dropped' = FALSE
    /\ UNCHANGED <<serverVars, listeners, begun, boundVars>>

\* Variant: a retry forgets the connection it replaces.
RetryLeaks ==
    /\ retries > 0
    /\ retries' = retries - 1
    /\ IF listeners = {}
       THEN UNCHANGED <<begun, fetch, connVars, status, started, starting>>
       ELSE Start({}) /\ started' = FALSE
    /\ UNCHANGED <<serverVars, live, listeners, eventVars, data, teardown, boundVars, dropped>>

\* A retry timer fires.  An earlier one may have been forgotten when it was
\* overwritten, but it fires all the same.
Retry ==
    /\ retries > 0
    /\ retries' = retries - 1
    /\ IF listeners = {}
       THEN UNCHANGED <<begun, fetch, connVars, status, started, starting>>
       ELSE /\ Start({conn})
            /\ started' = FALSE
    /\ UNCHANGED <<serverVars, live, listeners, eventVars, data, teardown, boundVars, dropped>>

\* Variant: nothing is tried again.
ScheduleRetryNever ==
    retries' = retries

\* scheduleRetry(): without listeners nothing is scheduled.
ScheduleRetry ==
    retries' = IF listeners = {} THEN retries ELSE retries + 1

\* The initial fetch of start a succeeds.  Whatever start is the latest, the
\* entry takes this data, and the promise that is cleared is the latest one.
FetchDone(a) ==
    /\ fetch[a] \notin {None, Asked}
    /\ fetch' = [fetch EXCEPT ![a] = None]
    /\ data' = fetch[a]
    /\ status' = "connected"
    /\ started' = TRUE
    /\ starting' = FALSE
    /\ UNCHANGED <<serverVars, live, listeners, begun, connVars, eventVars, timerVars, boundVars,
                   dropped>>

\* The initial fetch of start a fails.
FetchFails(a) ==
    /\ fetch[a] # None
    /\ failures + version < MaxTrouble
    /\ failures' = failures + 1
    /\ fetch' = [fetch EXCEPT ![a] = None]
    /\ status' = "error"
    /\ started' = FALSE
    /\ starting' = FALSE
    /\ ScheduleRetry
    /\ UNCHANGED <<serverVars, live, listeners, begun, connVars, eventVars, data, teardown,
                   subscribes, dropped>>

-----------------------------------------------------------------------------
(* Events.                                                                  *)

\* onError: the link may be gone, and with it what was sent on it.  The entry
\* stays started.
ConnError(a) ==
    /\ link[a] \in {"opening", "open"}
    /\ failures + version < MaxTrouble
    /\ failures' = failures + 1
    /\ \/ UNCHANGED <<link, wire>>
       \/ /\ link' = [link EXCEPT ![a] = "broken"]
          /\ wire' = [wire EXCEPT ![a] = <<>>]
    /\ status' = "error"
    /\ ScheduleRetry
    /\ UNCHANGED <<serverVars, live, listeners, begun, fetch, conn, eventVars, data, started,
                   starting, teardown, subscribes, dropped>>

\* The event reaches the client, which puts it behind the earlier ones.
Deliver(a) ==
    /\ wire[a] # <<>>
    /\ wire' = [wire EXCEPT ![a] = Tail(@)]
    /\ chain' = Append(chain, Head(wire[a]))
    /\ UNCHANGED <<serverVars, live, listeners, begun, fetch, conn, link, applying, data, status,
                   started, starting, timerVars, boundVars, dropped>>

\* Variant: an event that comes while another is read for is left to that read.
ApplyEventMerged ==
    /\ chain # <<>>
    /\ chain' = Tail(chain)
    /\ \/ /\ applying # None
          /\ UNCHANGED <<applying, data, status, dropped>>
       \/ /\ applying = None
          /\ ~started
          /\ dropped' = TRUE
          /\ UNCHANGED <<applying, data, status>>
       \/ /\ applying = None
          /\ started
          /\ IF refetches THEN applying' = Asked /\ UNCHANGED <<data, status>>
                          ELSE data' = Head(chain) /\ status' = "connected" /\ UNCHANGED applying
          /\ UNCHANGED dropped
    /\ UNCHANGED <<serverVars, live, listeners, begun, fetch, connVars, started, starting,
                   timerVars, boundVars>>

\* applyEvent() begins with the next event, unless the entry is not started yet.
\* A topic that takes the snapshot of the event is done at once.
ApplyEvent ==
    /\ chain # <<>>
    /\ applying = None
    /\ chain' = Tail(chain)
    /\ \/ /\ ~started
          /\ dropped' = TRUE
          /\ UNCHANGED <<applying, data, status>>
       \/ /\ started
          /\ refetches
          /\ applying' = Asked
          /\ UNCHANGED <<data, status, dropped>>
       \/ /\ started
          /\ ~refetches
          /\ data' = Head(chain)
          /\ status' = "connected"
          /\ UNCHANGED <<applying, dropped>>
    /\ UNCHANGED <<serverVars, live, listeners, begun, fetch, connVars, started, starting,
                   timerVars, boundVars>>

\* The read of the event returns.  started is looked at again, but it may be
\* the work of another start by now.
Applied ==
    /\ applying \notin {None, Asked}
    /\ applying' = None
    /\ IF started THEN /\ data' = applying
                       /\ status' = "connected"
                  ELSE UNCHANGED <<data, status>>
    /\ UNCHANGED <<serverVars, live, listeners, begun, fetch, connVars, chain, started, starting,
                   timerVars, boundVars, dropped>>

\* The read of the event fails: the error is shown and nothing is retried.
ApplyFails ==
    /\ applying # None
    /\ failures + version < MaxTrouble
    /\ failures' = failures + 1
    /\ applying' = None
    /\ status' = "error"
    /\ UNCHANGED <<serverVars, live, listeners, begun, fetch, connVars, chain, data, started,
                   starting, timerVars, subscribes, dropped>>

-----------------------------------------------------------------------------
(* The server, of which the client sees its reads and its events.           *)

LinkUp(a) ==
    /\ link[a] = "opening"
    /\ link' = [link EXCEPT ![a] = "open"]
    /\ UNCHANGED <<serverVars, live, listeners, begun, fetch, conn, wire, eventVars, data, status,
                   started, starting, timerVars, boundVars, dropped>>

\* The state changes and every connection that is up is told.
Change ==
    /\ failures + version < MaxTrouble
    /\ version' = version + 1
    /\ wire' = [a \in Starts |-> IF link[a] = "open" THEN Append(wire[a], version') ELSE wire[a]]
    /\ dropped' = (dropped \/ (conn # None /\ link[conn] # "open"))
    /\ UNCHANGED <<refetches, live, listeners, begun, fetch, conn, link, eventVars, data, status,
                   started, starting, timerVars, boundVars>>

ReadInitial(a) ==
    /\ fetch[a] = Asked
    /\ fetch' = [fetch EXCEPT ![a] = version]
    /\ UNCHANGED <<serverVars, live, listeners, begun, connVars, eventVars, data, status, started,
                   starting, timerVars, boundVars, dropped>>

ReadForEvent ==
    /\ applying = Asked
    /\ applying' = version
    /\ UNCHANGED <<serverVars, live, listeners, begun, fetch, connVars, chain, data, status,
                   started, starting, timerVars, boundVars, dropped>>

Next ==
    \/ \E l \in Listeners : Subscribe(l) \/ Unsubscribe(l)
    \/ Teardown
    \/ Retry
    \/ \E a \in Starts : \/ FetchDone(a) \/ FetchFails(a) \/ ReadInitial(a)
                         \/ LinkUp(a) \/ ConnError(a) \/ Deliver(a)
    \/ ApplyEvent \/ Applied \/ ApplyFails
    \/ Change \/ ReadForEvent

\* Timers fire, the server answers or the request fails, and the client runs
\* what it received.  Listeners come and go, and errors happen, as they like.
Fairness ==
    /\ WF_vars(Teardown)
    /\ WF_vars(Retry)
    /\ \A a \in Starts : /\ WF_vars(FetchDone(a))
                         /\ WF_vars(ReadInitial(a))
                         /\ WF_vars(LinkUp(a))
                         /\ WF_vars(Deliver(a))
    /\ WF_vars(ApplyEvent)
    /\ WF_vars(Applied)
    /\ WF_vars(ReadForEvent)

Spec == Init /\ [][Next]_vars /\ Fairness

-----------------------------------------------------------------------------
(* Properties.                                                              *)

\* That is the only way: a connection the entry gives up is disposed, unless it
\* belongs to a start that failed and a listener came before a retry.
GivenUpIsDisposed ==
    [][conn # None /\ conn' # conn =>
        \/ link'[conn] = "disposed"
        \/ status = "error" /\ ~started /\ listeners' # listeners]_vars

\* When everything sent has been applied and no event was lost or failed, the
\* snapshot is the server's state: events are applied in the order they came,
\* each after the read of the one before.
SettledIsCurrent ==
    (/\ started /\ ~dropped /\ failures = 0
     /\ \A a \in Starts : fetch[a] = None /\ wire[a] = <<>>
     /\ chain = <<>> /\ applying = None)
    => data = version

\* The entry is torn down only while nobody listens, whatever was scheduled
\* before the last listener came.
TornDownUnused == [][live /\ ~live' => listeners = {}]_vars

\* A listener that stays gets a snapshot: starts that fail are followed by
\* others, however listeners come and go and retries overlap.
Served == (live /\ listeners # {}) ~> (started \/ listeners = {})
=============================================================================
