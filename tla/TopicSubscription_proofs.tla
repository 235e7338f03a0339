---------------------- MODULE TopicSubscription_proofs ----------------------
(***************************************************************************)
(* What TLAPS proves of TopicSubscription, for any listeners and bounds:   *)
(* an entry is torn down only when nobody listens, a connection that the   *)
(* entry gives up is disposed but for the one case the model shows, and    *)
(* the snapshot is the server's state once all that was sent is applied.   *)
(***************************************************************************)
EXTENDS TopicSubscription, SequenceTheorems, TLAPS

\* The teardown timer runs only while nobody listens: every subscription stops
\* it.
Unwatched == teardown => listeners = {}

\* An entry that has a connection and is neither started nor starting shows the
\* error of the start that failed, until its retry.
Waiting == (conn # None /\ ~started /\ ~starting) => status = "error"

\* Every start and every retry that is still to come is due to a subscription or
\* a failure of its own; the connection is one of the starts so far.
Counted ==
    /\ begun \in Nat /\ retries \in Nat /\ subscribes \in Nat /\ failures \in Nat /\ version \in Nat
    /\ begun + retries <= subscribes + failures
    /\ subscribes <= MaxSubscribes
    /\ failures + version <= MaxTrouble
    /\ conn # None => conn \in 1 .. begun

EntryInv == Unwatched /\ Waiting /\ Counted

LEMMA InitInv == Init => EntryInv
  BY SubscriptionAssumption DEF Init, EntryInv, Unwatched, Waiting, Counted

LEMMA SubscribeInv ==
  ASSUME EntryInv, NEW l \in Listeners, Subscribe(l)
  PROVE  EntryInv'
  BY SubscriptionAssumption
     DEF EntryInv, Unwatched, Waiting, Counted, Subscribe, EnsureStarted, Start, connVars, serverVars

LEMMA UnsubscribeInv ==
  ASSUME EntryInv, NEW l \in Listeners, Unsubscribe(l)
  PROVE  EntryInv'
  BY SubscriptionAssumption
     DEF EntryInv, Unwatched, Waiting, Counted, Unsubscribe, connVars, serverVars, boundVars, timerVars

LEMMA TeardownInv ==
  ASSUME EntryInv, Teardown
  PROVE  EntryInv'
  BY SubscriptionAssumption
     DEF EntryInv, Unwatched, Waiting, Counted, Teardown, serverVars, boundVars

LEMMA RetryInv ==
  ASSUME EntryInv, Retry
  PROVE  EntryInv'
  BY SubscriptionAssumption
     DEF EntryInv, Unwatched, Waiting, Counted, Retry, Start, connVars, serverVars, boundVars

LEMMA FetchInv ==
  ASSUME EntryInv, NEW a \in Starts, FetchDone(a) \/ FetchFails(a) \/ ReadInitial(a)
  PROVE  EntryInv'
  BY SubscriptionAssumption
     DEF EntryInv, Unwatched, Waiting, Counted, FetchDone, FetchFails, ReadInitial, ScheduleRetry, connVars, timerVars,
     serverVars, boundVars

LEMMA LinkInv ==
  ASSUME EntryInv, NEW a \in Starts, LinkUp(a) \/ ConnError(a) \/ Deliver(a)
  PROVE  EntryInv'
  <1> USE SubscriptionAssumption
  <1>1. CASE LinkUp(a)
    BY <1>1 DEF EntryInv, Unwatched, Waiting, Counted, LinkUp, timerVars, serverVars, boundVars
  <1>2. CASE Deliver(a)
    BY <1>2 DEF EntryInv, Unwatched, Waiting, Counted, Deliver, timerVars, serverVars, boundVars
  <1>3. CASE ConnError(a)
    BY <1>3 DEF EntryInv, Unwatched, Waiting, Counted, ConnError, ScheduleRetry, timerVars,
                serverVars, boundVars
  <1> QED BY <1>1, <1>2, <1>3

LEMMA EventInv ==
  ASSUME EntryInv, ApplyEvent \/ Applied \/ ApplyFails
  PROVE  EntryInv'
  BY SubscriptionAssumption
     DEF EntryInv, Unwatched, Waiting, Counted, ApplyEvent, Applied, ApplyFails, connVars, timerVars,
     serverVars, boundVars

LEMMA ServerInv ==
  ASSUME EntryInv, Change \/ ReadForEvent
  PROVE  EntryInv'
  BY SubscriptionAssumption
     DEF EntryInv, Unwatched, Waiting, Counted, Change, ReadForEvent, connVars, timerVars,
     serverVars, boundVars

LEMMA StutterInv ==
  ASSUME EntryInv, UNCHANGED vars
  PROVE  EntryInv'
  BY SubscriptionAssumption DEF EntryInv, Unwatched, Waiting, Counted, vars, connVars, timerVars,
     serverVars, boundVars

\* The entry's invariant holds for ever.
THEOREM EntryInvariant == Spec => []EntryInv
  <1>1. ASSUME EntryInv, [Next]_vars PROVE EntryInv'
    BY <1>1, SubscribeInv, UnsubscribeInv, TeardownInv, RetryInv, FetchInv, LinkInv, EventInv,
       ServerInv, StutterInv DEF Next
  <1> QED BY <1>1, InitInv, PTL DEF Spec

-----------------------------------------------------------------------------

\* Only Teardown takes the entry out of the map.
LEMMA OnlyTeardown ==
  ASSUME [Next]_vars, live, ~live'
  PROVE  Teardown
  <1>1. CASE \E l \in Listeners : Subscribe(l) \/ Unsubscribe(l)
    BY <1>1 DEF Subscribe, Unsubscribe
  <1>2. CASE \E a \in Starts : \/ FetchDone(a) \/ FetchFails(a) \/ ReadInitial(a)
                               \/ LinkUp(a) \/ ConnError(a) \/ Deliver(a)
    BY <1>2 DEF FetchDone, FetchFails, ReadInitial, LinkUp, ConnError, Deliver
  <1>3. CASE Retry \/ ApplyEvent \/ Applied \/ ApplyFails \/ Change \/ ReadForEvent
    BY <1>3 DEF Retry, ApplyEvent, Applied, ApplyFails, Change, ReadForEvent
  <1>4. CASE UNCHANGED vars
    BY <1>4 DEF vars
  <1> QED BY <1>1, <1>2, <1>3, <1>4 DEF Next

\* The entry is torn down only while nobody listens, for any number of
\* listeners, subscriptions and failures.
THEOREM NeverTornDownInUse == Spec => TornDownUnused
  <1>1. ASSUME EntryInv, [Next]_vars PROVE [live /\ ~live' => listeners = {}]_vars
    <2> SUFFICES ASSUME live, ~live' PROVE listeners = {}
      OBVIOUS
    <2> QED BY <1>1, OnlyTeardown DEF EntryInv, Unwatched, Teardown
  <1> QED BY <1>1, EntryInvariant, PTL DEF Spec, TornDownUnused

-----------------------------------------------------------------------------

\* What a step may do with the connection it gives up.
GivenUp ==
    conn # None /\ conn' # conn =>
        \/ link'[conn] = "disposed"
        \/ status = "error" /\ ~started /\ listeners' # listeners

\* A subscription replaces the connection only of a start that failed.
LEMMA SubscribeGivesUp ==
  ASSUME EntryInv, NEW l \in Listeners, Subscribe(l)
  PROVE  GivenUp
  <1> SUFFICES ASSUME conn # None, conn' # conn
               PROVE  status = "error" /\ ~started /\ listeners' # listeners
    BY DEF GivenUp
  <1>1. ~started /\ ~starting
    BY DEF Subscribe, EnsureStarted, connVars
  <1>2. status = "error"
    BY <1>1 DEF EntryInv, Waiting
  <1>3. listeners' # listeners
    BY DEF Subscribe
  <1> QED BY <1>1, <1>2, <1>3

\* A retry disposes the connection it replaces.
LEMMA RetryGivesUp ==
  ASSUME EntryInv, Retry
  PROVE  GivenUp
  <1> SUFFICES ASSUME conn # None, conn' # conn PROVE link'[conn] = "disposed"
    BY DEF GivenUp
  <1>1. Start({conn})
    BY DEF Retry, connVars
  <1>2. conn \in Starts /\ conn # begun + 1
    BY SubscriptionAssumption DEF EntryInv, Counted, Starts
  <1> QED BY <1>1, <1>2 DEF Start

\* So does the teardown.
LEMMA TeardownGivesUp ==
  ASSUME EntryInv, Teardown
  PROVE  GivenUp
  <1>1. conn # None => conn \in Starts
    BY SubscriptionAssumption DEF EntryInv, Counted, Starts
  <1> QED BY <1>1 DEF GivenUp, Teardown

\* No other step changes the connection.
LEMMA OthersKeepConnection ==
  ASSUME [Next]_vars, ~Retry, ~Teardown, \A l \in Listeners : ~Subscribe(l)
  PROVE  UNCHANGED conn
  <1>1. CASE \E l \in Listeners : Unsubscribe(l)
    BY <1>1 DEF Unsubscribe, connVars
  <1>2. CASE \E a \in Starts : \/ FetchDone(a) \/ FetchFails(a) \/ ReadInitial(a)
                               \/ LinkUp(a) \/ ConnError(a) \/ Deliver(a)
    BY <1>2 DEF FetchDone, FetchFails, ReadInitial, LinkUp, ConnError, Deliver, connVars
  <1>3. CASE ApplyEvent \/ Applied \/ ApplyFails \/ Change \/ ReadForEvent
    BY <1>3 DEF ApplyEvent, Applied, ApplyFails, Change, ReadForEvent, connVars
  <1>4. CASE UNCHANGED vars
    BY <1>4 DEF vars, connVars
  <1> QED BY <1>1, <1>2, <1>3, <1>4 DEF Next

\* Whatever the bounds, the entry disposes each connection it gives up, except
\* when a listener comes after a failed start.
THEOREM GivesUpDisposed == Spec => GivenUpIsDisposed
  <1>1. ASSUME EntryInv, [Next]_vars PROVE [GivenUp]_vars
    <2>1. CASE Retry
      BY <1>1, <2>1, RetryGivesUp
    <2>2. CASE Teardown
      BY <1>1, <2>2, TeardownGivesUp
    <2>3. CASE \E l \in Listeners : Subscribe(l)
      BY <1>1, <2>3, SubscribeGivesUp
    <2>4. CASE ~Retry /\ ~Teardown /\ \A l \in Listeners : ~Subscribe(l)
      BY <1>1, <2>4, OthersKeepConnection DEF GivenUp
    <2> QED BY <2>1, <2>2, <2>3, <2>4
  <1> QED BY <1>1, EntryInvariant, PTL DEF Spec, GivenUpIsDisposed, GivenUp

-----------------------------------------------------------------------------
(* What the snapshot shows.                                                 *)

\* As long as nothing failed there is one connection, and its start is the last.
OneConnection ==
    /\ retries = 0
    /\ \A a \in Starts : a # conn =>
          fetch[a] = None /\ wire[a] = <<>> /\ link[a] \in {"none", "disposed"}
    /\ conn = None => /\ ~started /\ ~starting /\ ~dropped
                      /\ chain = <<>> /\ applying = None
    /\ conn # None => /\ started <=> ~starting
                      /\ starting <=> fetch[conn] # None
                      /\ link[conn] \in {"opening", "open"}
    /\ applying # None => started

\* What the entry will know last, of what it was or will be told, is the server's
\* state: an event on the wire, one in the chain, a read, or the snapshot it has.
Newest(s) == s[Len(s)]

NewestIsCurrent ==
    conn # None /\ ~dropped =>
        IF wire[conn] # <<>> THEN Newest(wire[conn]) = version
        ELSE IF chain # <<>> THEN Newest(chain) = version
        ELSE IF applying # None THEN applying \in {Asked, version}
        ELSE IF starting THEN fetch[conn] \in {Asked, version}
        ELSE data = version

Calm == failures = 0 => OneConnection /\ NewestIsCurrent

CalmInv == TypeOK /\ EntryInv /\ Calm

\* Counters that are within what they count are within their bounds.
LEMMA Bounded ==
  ASSUME NEW b \in Nat, NEW r \in Nat, NEW s \in Nat, NEW f \in Nat, NEW v \in Nat,
         b + r <= s + f, s <= MaxSubscribes, f + v <= MaxTrouble
  PROVE  /\ b \in 0 .. MaxSubscribes + MaxTrouble
         /\ s \in 0 .. MaxSubscribes /\ f \in 0 .. MaxTrouble /\ v \in Versions
  BY SubscriptionAssumption DEF Versions

\* The counters' share of TypeOK.
LEMMA CountTypes ==
  ASSUME EntryInv'
  PROVE  /\ begun' \in 0 .. MaxSubscribes + MaxTrouble /\ retries' \in Nat
         /\ subscribes' \in 0 .. MaxSubscribes /\ failures' \in 0 .. MaxTrouble
         /\ version' \in Versions
  <1>1. /\ begun' \in Nat /\ retries' \in Nat /\ subscribes' \in Nat /\ failures' \in Nat
        /\ version' \in Nat /\ begun' + retries' <= subscribes' + failures'
        /\ subscribes' <= MaxSubscribes /\ failures' + version' <= MaxTrouble
    BY DEF EntryInv, Counted
  <1> QED BY <1>1, Bounded

\* Every start has a place of its own.
LEMMA NextStart ==
  ASSUME EntryInv', begun \in Nat, begun' = begun + 1
  PROVE  begun' \in Starts
  BY CountTypes, SubscriptionAssumption DEF Starts

\* What start() makes is of the right type.
LEMMA StartType ==
  ASSUME TypeOK, NEW closed \in SUBSET (Starts \cup {None}), Start(closed), begun' \in Starts
  PROVE  /\ begun' \in 0 .. MaxSubscribes + MaxTrouble
         /\ conn' \in Starts
         /\ link' \in [Starts -> {"none", "opening", "open", "broken", "disposed", "lost"}]
         /\ wire' \in [Starts -> Seq(Versions)]
         /\ fetch' \in [Starts -> Versions \cup {None, Asked}]
         /\ status' = "loading" /\ starting' = TRUE
  BY SubscriptionAssumption DEF TypeOK, Start, Starts

LEMMA TypeInit == Init => TypeOK
  <1> SUFFICES ASSUME Init PROVE TypeOK
    OBVIOUS
  <1>1. /\ begun \in 0 .. MaxSubscribes + MaxTrouble /\ retries \in Nat
        /\ subscribes \in 0 .. MaxSubscribes /\ failures \in 0 .. MaxTrouble
        /\ version \in Versions
    BY SubscriptionAssumption DEF Init, Versions
  <1>2. <<>> \in Seq(Versions)
    OBVIOUS
  <1> QED BY <1>1, <1>2 DEF Init, TypeOK

LEMMA TypeNext ==
  ASSUME TypeOK, EntryInv, EntryInv', [Next]_vars
  PROVE  TypeOK'
  <1>0. /\ begun' \in 0 .. MaxSubscribes + MaxTrouble /\ retries' \in Nat
        /\ subscribes' \in 0 .. MaxSubscribes /\ failures' \in 0 .. MaxTrouble
        /\ version' \in Versions
    BY CountTypes
  <1>1. ASSUME NEW l \in Listeners, Subscribe(l) PROVE TypeOK'
    <2>1. CASE UNCHANGED <<begun, connVars, fetch, status, starting>>
      BY <1>0, <1>1, <2>1 DEF TypeOK, Subscribe, connVars, serverVars, eventVars
    <2>2. CASE Start({})
      <3>1. begun' \in Starts
        BY <2>2, NextStart DEF Start, EntryInv, Counted
      <3>2. {} \in SUBSET (Starts \cup {None})
        OBVIOUS
      <3> QED BY <1>0, <1>1, <2>2, <3>1, <3>2, StartType DEF TypeOK, Subscribe, serverVars, eventVars
    <2> QED BY <1>1, <2>1, <2>2 DEF Subscribe, EnsureStarted
  <1>2. ASSUME NEW l \in Listeners, Unsubscribe(l) PROVE TypeOK'
    <2>1. teardown' \in BOOLEAN
      BY <1>2 DEF Unsubscribe
    <2> QED BY <1>0, <1>2, <2>1
            DEF TypeOK, Unsubscribe, connVars, serverVars, eventVars, boundVars
  <1>3. CASE Teardown
    <2>1. <<>> \in Seq(Versions)
      OBVIOUS
    <2>2. /\ link' \in [Starts -> {"none", "opening", "open", "broken", "disposed", "lost"}]
          /\ wire' \in [Starts -> Seq(Versions)]
          /\ fetch' \in [Starts -> Versions \cup {None, Asked}]
      BY <1>3, <2>1 DEF TypeOK, Teardown
    <2> QED BY <1>0, <1>3, <2>1, <2>2 DEF TypeOK, Teardown, serverVars, boundVars
  <1>4. CASE Retry
    <2>1. CASE UNCHANGED <<begun, fetch, connVars, status, started, starting>>
      BY <1>0, <1>4, <2>1 DEF TypeOK, Retry, connVars, serverVars, eventVars, boundVars
    <2>2. CASE Start({conn}) /\ started' = FALSE
      <3>1. begun' \in Starts
        BY <2>2, NextStart DEF Start, EntryInv, Counted
      <3>2. {conn} \in SUBSET (Starts \cup {None})
        BY DEF TypeOK
      <3> QED BY <1>0, <1>4, <2>2, <3>1, <3>2, StartType
              DEF TypeOK, Retry, serverVars, eventVars, boundVars
    <2> QED BY <1>4, <2>1, <2>2 DEF Retry
  <1>5. ASSUME NEW a \in Starts, FetchDone(a) \/ FetchFails(a) \/ ReadInitial(a) PROVE TypeOK'
    <2>1. fetch' \in [Starts -> Versions \cup {None, Asked}]
      BY <1>5 DEF TypeOK, FetchDone, FetchFails, ReadInitial
    <2>2. data' \in Versions \cup {None}
      BY <1>5 DEF TypeOK, FetchDone, FetchFails, ReadInitial
    <2> QED BY <1>0, <1>5, <2>1, <2>2 DEF TypeOK, FetchDone, FetchFails, ReadInitial, connVars,
            serverVars, eventVars, timerVars, boundVars
  <1>6. ASSUME NEW a \in Starts, LinkUp(a) \/ ConnError(a) PROVE TypeOK'
    <2>1. /\ link' \in [Starts -> {"none", "opening", "open", "broken", "disposed", "lost"}]
          /\ wire' \in [Starts -> Seq(Versions)]
      <3>1. <<>> \in Seq(Versions)
        OBVIOUS
      <3> QED BY <1>6, <3>1 DEF TypeOK, LinkUp, ConnError
    <2> QED BY <1>0, <1>6, <2>1 DEF TypeOK, LinkUp, ConnError, serverVars, eventVars, timerVars,
            boundVars
  <1>7. ASSUME NEW a \in Starts, Deliver(a) PROVE TypeOK'
    <2>1. wire[a] \in Seq(Versions) /\ wire[a] # <<>>
      BY <1>7 DEF TypeOK, Deliver
    <2>2. Head(wire[a]) \in Versions /\ Tail(wire[a]) \in Seq(Versions)
      BY <2>1
    <2> QED BY <1>0, <1>7, <2>2 DEF TypeOK, Deliver, serverVars, timerVars, boundVars
  <1>8. CASE ApplyEvent
    <2>1. Head(chain) \in Versions /\ Tail(chain) \in Seq(Versions)
      BY <1>8 DEF TypeOK, ApplyEvent
    <2> QED BY <1>0, <1>8, <2>1 DEF TypeOK, ApplyEvent, connVars, serverVars, timerVars, boundVars
  <1>9. CASE Applied \/ ApplyFails \/ ReadForEvent
    BY <1>0, <1>9 DEF TypeOK, Applied, ApplyFails, ReadForEvent, connVars, serverVars, timerVars,
       boundVars
  <1>10. CASE Change
    <2>1. wire' \in [Starts -> Seq(Versions)]
      BY <1>0, <1>10 DEF TypeOK, Change
    <2>2. dropped' \in BOOLEAN
      BY <1>10 DEF Change
    <2> QED BY <1>0, <1>10, <2>1, <2>2 DEF TypeOK, Change, eventVars, timerVars, boundVars
  <1>11. CASE UNCHANGED vars
    BY <1>11 DEF TypeOK, vars, serverVars, connVars, eventVars, timerVars, boundVars
  <1> QED BY <1>1, <1>2, <1>3, <1>4, <1>5, <1>6, <1>7, <1>8, <1>9, <1>10, <1>11 DEF Next

-----------------------------------------------------------------------------

LEMMA NewestOfAppend ==
  ASSUME NEW S, NEW s \in Seq(S), NEW x \in S
  PROVE  Append(s, x) # <<>> /\ Newest(Append(s, x)) = x
  BY DEF Newest

LEMMA NewestOfTail ==
  ASSUME NEW S, NEW s \in Seq(S), s # <<>>
  PROVE  /\ Tail(s) # <<>> => Newest(Tail(s)) = Newest(s)
         /\ Tail(s) = <<>> => Head(s) = Newest(s)
  <1> DEFINE t == Tail(s)
             n == Len(s)
  <1>1. /\ n \in Nat /\ n # 0 /\ Head(s) = s[1] /\ t \in Seq(S) /\ Len(t) = n - 1
        /\ \A i \in 1 .. Len(t) : t[i] = s[i + 1]
    OBVIOUS
  <1> HIDE DEF t
  <1>2. ASSUME t = <<>> PROVE Head(s) = s[n]
    <2>1. Len(t) = 0
      BY <1>2, EmptySeq
    <2> HIDE DEF n
    <2>2. n = 1
      BY <1>1, <2>1
    <2> QED BY <1>1, <2>2
  <1>3. ASSUME t # <<>> PROVE t[Len(t)] = s[n]
    <2>1. Len(t) # 0
      BY <1>1, <1>3
    <2> HIDE DEF n
    <2>2. Len(t) \in 1 .. Len(t) /\ Len(t) + 1 = n
      BY <1>1, <2>1
    <2> QED BY <1>1, <2>2
  <1> QED BY <1>2, <1>3 DEF Newest, t, n

LEMMA CalmInit == Init => Calm
  BY SubscriptionAssumption DEF Init, Calm, OneConnection, NewestIsCurrent

\* The first start, of an entry that has none: the read of it is yet to come.
LEMMA SubscribeCalm ==
  ASSUME CalmInv, NEW l \in Listeners, Subscribe(l), EntryInv'
  PROVE  Calm'
  <1> SUFFICES ASSUME failures = 0 PROVE OneConnection' /\ NewestIsCurrent'
    BY DEF Calm, Subscribe
  <1>1. TypeOK /\ OneConnection /\ NewestIsCurrent
    BY DEF CalmInv, Calm
  <1>2. UNCHANGED <<version, chain, applying, data, started, retries, dropped>>
    BY DEF Subscribe, serverVars, eventVars
  <1>3. CASE UNCHANGED <<begun, connVars, fetch, status, starting>>
    BY <1>1, <1>2, <1>3 DEF OneConnection, NewestIsCurrent, connVars
  <1>4. CASE ~(started \/ starting) /\ Start({})
    <2>1. conn = None
      BY <1>1, <1>4 DEF OneConnection
    <2>2. /\ conn' = begun' /\ begun' \in Starts /\ conn' # None
          /\ fetch'[conn'] = Asked /\ link'[conn'] = "opening" /\ starting'
          /\ wire' = wire
          /\ \A a \in Starts : a # conn' => fetch'[a] = fetch[a] /\ link'[a] = link[a]
      <3>1. begun' \in Starts /\ begun' \in Nat
        BY <1>4, NextStart DEF Start, CalmInv, EntryInv, Counted
      <3>2. wire' = wire
        BY <1>1, <1>4 DEF Start, TypeOK
      <3> QED BY <1>1, <1>4, <3>1, <3>2, SubscriptionAssumption DEF Start, TypeOK
    <2>3. \A a \in Starts : a # conn
      BY <2>1, SubscriptionAssumption DEF Starts
    <2>4. OneConnection'
      BY <1>1, <1>2, <1>4, <2>1, <2>2, <2>3, SubscriptionAssumption DEF OneConnection
    <2>5. NewestIsCurrent'
      BY <1>1, <1>2, <2>1, <2>2, <2>3 DEF OneConnection, NewestIsCurrent
    <2> QED BY <2>4, <2>5
  <1> QED BY <1>3, <1>4 DEF Subscribe, EnsureStarted

\* The last read of a start, and of an event, shows what no event is behind of.
LEMMA ReadsCalm ==
  ASSUME CalmInv,
         \/ \E a \in Starts : FetchDone(a) \/ ReadInitial(a)
         \/ Applied \/ ReadForEvent
  PROVE  Calm'
  <1>0. UNCHANGED failures
    BY DEF FetchDone, ReadInitial, Applied, ReadForEvent, boundVars
  <1> SUFFICES ASSUME failures = 0 PROVE OneConnection' /\ NewestIsCurrent'
    BY <1>0 DEF Calm
  <1>1. TypeOK /\ OneConnection /\ NewestIsCurrent
    BY DEF CalmInv, Calm
  <1>2. None \notin Versions /\ Asked \notin Versions /\ None # Asked
    BY SubscriptionAssumption DEF Versions
  <1>3. UNCHANGED <<version, conn, link, wire, chain, retries, dropped>>
    BY DEF FetchDone, ReadInitial, Applied, ReadForEvent, connVars, eventVars, timerVars, serverVars
  <1>4. ASSUME NEW a \in Starts, FetchDone(a) PROVE OneConnection' /\ NewestIsCurrent'
    <2>1. a = conn
      BY <1>1, <1>4 DEF OneConnection, FetchDone
    <2>2. /\ fetch'[a] = None /\ \A b \in Starts \ {a} : fetch'[b] = fetch[b]
          /\ data' = fetch[a] /\ fetch[a] \notin {None, Asked} /\ started' /\ ~starting'
          /\ applying' = applying
      BY <1>1, <1>4 DEF FetchDone, TypeOK, eventVars
    <2>3. a # None
      BY <1>4, SubscriptionAssumption DEF Starts
    <2>4. OneConnection'
      BY <1>1, <1>3, <2>1, <2>2, <2>3 DEF OneConnection
    <2>5. starting /\ applying = None
      BY <1>1, <2>1, <2>2, <2>3 DEF OneConnection
    <2>6. NewestIsCurrent'
      BY <1>1, <1>3, <2>1, <2>2, <2>5 DEF NewestIsCurrent
    <2> QED BY <2>4, <2>6
  <1>5. ASSUME NEW a \in Starts, ReadInitial(a) PROVE OneConnection' /\ NewestIsCurrent'
    <2>1. a = conn
      BY <1>1, <1>2, <1>5 DEF OneConnection, ReadInitial
    <2>2. /\ fetch[a] = Asked /\ fetch'[a] = version
          /\ \A b \in Starts \ {a} : fetch'[b] = fetch[b]
          /\ UNCHANGED <<applying, data, started, starting>> /\ version \in Versions
      BY <1>1, <1>5 DEF ReadInitial, TypeOK, eventVars
    <2> QED BY <1>1, <1>2, <1>3, <2>1, <2>2 DEF OneConnection, NewestIsCurrent
  <1>6. CASE Applied
    <2>1. /\ applying \notin {None, Asked} /\ applying' = None
          /\ UNCHANGED <<fetch, started, starting>>
      BY <1>6 DEF Applied
    <2>2. started /\ conn # None
      BY <1>1, <2>1 DEF OneConnection
    <2>3. data' = applying /\ ~starting
      BY <1>1, <1>6, <2>2 DEF Applied, OneConnection
    <2>4. OneConnection'
      BY <1>1, <1>3, <2>1 DEF OneConnection
    <2>5. NewestIsCurrent'
      BY <1>1, <1>3, <2>1, <2>2, <2>3 DEF NewestIsCurrent
    <2> QED BY <2>4, <2>5
  <1>7. CASE ReadForEvent
    <2>1. /\ applying = Asked /\ applying' = version
          /\ UNCHANGED <<fetch, data, started, starting>> /\ version \in Versions
      BY <1>1, <1>7 DEF ReadForEvent, TypeOK
    <2> QED BY <1>1, <1>2, <1>3, <2>1 DEF OneConnection, NewestIsCurrent
  <1> QED BY <1>4, <1>5, <1>6, <1>7

\* A connection comes up; an event is delivered in the order it was sent.
LEMMA LinkCalm ==
  ASSUME CalmInv, NEW a \in Starts, LinkUp(a) \/ Deliver(a)
  PROVE  Calm'
  <1>0. UNCHANGED failures
    BY DEF LinkUp, Deliver, boundVars
  <1> SUFFICES ASSUME failures = 0 PROVE OneConnection' /\ NewestIsCurrent'
    BY <1>0 DEF Calm
  <1>1. TypeOK /\ OneConnection /\ NewestIsCurrent
    BY DEF CalmInv, Calm
  <1>2. UNCHANGED <<version, conn, fetch, applying, data, started, starting, retries, dropped>>
    BY DEF LinkUp, Deliver, eventVars, timerVars, serverVars
  <1>3. a = conn /\ conn # None
    <2>1. a # None
      BY SubscriptionAssumption DEF Starts
    <2>2. CASE LinkUp(a)
      BY <1>1, <2>1, <2>2 DEF LinkUp, OneConnection
    <2>3. CASE Deliver(a)
      BY <1>1, <2>1, <2>3 DEF Deliver, OneConnection
    <2> QED BY <2>2, <2>3
  <1>4. CASE LinkUp(a)
    <2>1. /\ link'[a] = "open" /\ \A b \in Starts \ {a} : link'[b] = link[b]
          /\ UNCHANGED <<wire, chain>>
      BY <1>1, <1>4 DEF LinkUp, TypeOK, eventVars
    <2> QED BY <1>1, <1>2, <1>3, <2>1 DEF OneConnection, NewestIsCurrent
  <1>5. CASE Deliver(a)
    <2> DEFINE s == wire[a]
    <2>1. /\ s \in Seq(Versions) /\ s # <<>> /\ chain \in Seq(Versions)
          /\ wire'[a] = Tail(s) /\ \A b \in Starts \ {a} : wire'[b] = wire[b]
          /\ chain' = Append(chain, Head(s)) /\ link' = link
      BY <1>1, <1>5 DEF Deliver, TypeOK
    <2> HIDE DEF s
    <2>2. Head(s) \in Versions
      BY <2>1
    <2>3. /\ chain' # <<>> /\ Newest(chain') = Head(s)
          /\ Tail(s) # <<>> => Newest(Tail(s)) = Newest(s)
          /\ Tail(s) = <<>> => Head(s) = Newest(s)
      BY <2>1, <2>2, NewestOfAppend, NewestOfTail
    <2>4. OneConnection'
      BY <1>1, <1>2, <1>3, <2>1 DEF OneConnection
    <2>5. ~dropped => Newest(s) = version
      BY <1>1, <1>3, <2>1 DEF NewestIsCurrent, s
    <2>6. NewestIsCurrent'
      BY <1>2, <1>3, <2>1, <2>3, <2>5 DEF NewestIsCurrent
    <2> QED BY <2>4, <2>6
  <1> QED BY <1>4, <1>5

\* An event is applied, or read for, unless the entry is not started yet.
LEMMA ApplyCalm ==
  ASSUME CalmInv, ApplyEvent
  PROVE  Calm'
  <1>0. UNCHANGED failures
    BY DEF ApplyEvent, boundVars
  <1> SUFFICES ASSUME failures = 0 PROVE OneConnection' /\ NewestIsCurrent'
    BY <1>0 DEF Calm
  <1>1. TypeOK /\ OneConnection /\ NewestIsCurrent
    BY DEF CalmInv, Calm
  <1>2. /\ UNCHANGED <<version, conn, link, wire, fetch, started, starting, retries>>
        /\ chain \in Seq(Versions) /\ chain # <<>> /\ applying = None /\ chain' = Tail(chain)
    BY <1>1 DEF ApplyEvent, connVars, timerVars, serverVars, TypeOK
  <1>3. conn # None
    BY <1>1, <1>2 DEF OneConnection
  <1>4. /\ Tail(chain) # <<>> => Newest(Tail(chain)) = Newest(chain)
        /\ Tail(chain) = <<>> => Head(chain) = Newest(chain)
    BY <1>2, NewestOfTail
  <1>5. Asked # None
    BY SubscriptionAssumption
  <1>6. CASE ~started
    <2>1. dropped' /\ applying' = applying
      BY <1>6 DEF ApplyEvent
    <2> QED BY <1>1, <1>2, <1>3, <2>1 DEF OneConnection, NewestIsCurrent
  <1>7. CASE started /\ refetches
    <2>1. applying' = Asked /\ dropped' = dropped
      BY <1>7 DEF ApplyEvent
    <2> QED BY <1>1, <1>2, <1>3, <1>4, <1>5, <1>7, <2>1 DEF OneConnection, NewestIsCurrent
  <1>8. CASE started /\ ~refetches
    <2>1. data' = Head(chain) /\ applying' = applying /\ dropped' = dropped
      BY <1>8 DEF ApplyEvent
    <2>2. ~starting
      BY <1>1, <1>3, <1>8 DEF OneConnection
    <2> QED BY <1>1, <1>2, <1>3, <1>4, <1>8, <2>1, <2>2 DEF OneConnection, NewestIsCurrent
  <1> QED BY <1>6, <1>7, <1>8

\* A change is told on the connection, or counts as lost.
LEMMA ChangeCalm ==
  ASSUME CalmInv, Change, EntryInv'
  PROVE  Calm'
  <1>0. UNCHANGED failures
    BY DEF Change, boundVars
  <1> SUFFICES ASSUME failures = 0 PROVE OneConnection' /\ NewestIsCurrent'
    BY <1>0 DEF Calm
  <1>1. TypeOK /\ OneConnection /\ NewestIsCurrent /\ version' \in Versions
    BY CountTypes DEF CalmInv, Calm
  <1>2. UNCHANGED <<conn, link, fetch, chain, applying, data, started, starting, retries>>
    BY DEF Change, eventVars, timerVars
  <1>3. /\ \A a \in Starts : wire'[a] = IF link[a] = "open" THEN Append(wire[a], version')
                                        ELSE wire[a]
        /\ dropped' <=> (dropped \/ (conn # None /\ link[conn] # "open"))
    BY <1>1 DEF Change, TypeOK
  <1>4. CASE conn = None
    <2>1. \A a \in Starts : wire'[a] = wire[a]
      BY <1>1, <1>3, <1>4, SubscriptionAssumption DEF OneConnection, Starts
    <2> QED BY <1>1, <1>2, <1>3, <1>4, <2>1 DEF OneConnection, NewestIsCurrent
  <1>5. CASE conn # None
    <2>1. conn \in Starts /\ wire[conn] \in Seq(Versions)
      BY <1>1, <1>5 DEF TypeOK
    <2>2. \A a \in Starts : a # conn => wire'[a] = wire[a]
      BY <1>1, <1>3 DEF OneConnection
    <2>3. OneConnection'
      BY <1>1, <1>2, <1>5, <2>2 DEF OneConnection
    <2>4. ~dropped' => wire'[conn] # <<>> /\ Newest(wire'[conn]) = version'
      <3>1. ~dropped' => wire'[conn] = Append(wire[conn], version')
        BY <1>3, <1>5, <2>1
      <3> QED BY <1>1, <2>1, <3>1, NewestOfAppend
    <2>5. NewestIsCurrent'
      BY <1>2, <2>4 DEF NewestIsCurrent
    <2> QED BY <2>3, <2>5
  <1> QED BY <1>4, <1>5

\* Nobody listens, or the entry is gone.
LEMMA TeardownCalm ==
  ASSUME CalmInv, Teardown \/ \E l \in Listeners : Unsubscribe(l)
  PROVE  Calm'
  <1>0. UNCHANGED failures
    BY DEF Teardown, Unsubscribe, boundVars
  <1> SUFFICES ASSUME failures = 0 PROVE OneConnection' /\ NewestIsCurrent'
    BY <1>0 DEF Calm
  <1>1. TypeOK /\ OneConnection /\ NewestIsCurrent
    BY DEF CalmInv, Calm
  <1>2. CASE Teardown
    <2>1. /\ conn' = None /\ retries' = 0 /\ ~started' /\ ~starting' /\ ~dropped'
          /\ chain' = <<>> /\ applying' = None
          /\ \A a \in Starts : fetch'[a] = None /\ wire'[a] = <<>>
      BY <1>2 DEF Teardown
    <2>2. \A a \in Starts : link'[a] \in {"none", "disposed"}
      BY <1>1, <1>2 DEF Teardown, Undisposed, OneConnection
    <2> QED BY <2>1, <2>2 DEF OneConnection, NewestIsCurrent
  <1>3. CASE \E l \in Listeners : Unsubscribe(l)
    <2>1. UNCHANGED <<version, fetch, conn, link, wire, chain, applying, data, started, starting,
                      retries, dropped>>
      BY <1>3 DEF Unsubscribe, connVars, eventVars, serverVars
    <2> QED BY <1>1, <2>1 DEF OneConnection, NewestIsCurrent
  <1> QED BY <1>2, <1>3

\* After a failure nothing is claimed, and without one there is no retry.
LEMMA FailCalm ==
  ASSUME CalmInv,
         Retry \/ ApplyFails \/ \E a \in Starts : FetchFails(a) \/ ConnError(a)
  PROVE  Calm'
  <1>1. failures \in Nat /\ (failures = 0 => retries = 0)
    BY DEF CalmInv, EntryInv, Counted, Calm, OneConnection
  <1>2. failures' # 0
    BY <1>1 DEF Retry, ApplyFails, FetchFails, ConnError, boundVars
  <1> QED BY <1>2 DEF Calm

\* The invariant behind SettledIsCurrent: without failures the newest of what the entry
\* has, reads or will be told is what the server has (applyEvent, start).
THEOREM CalmInvariant == Spec => []CalmInv
  <1>1. ASSUME CalmInv, [Next]_vars, EntryInv, EntryInv' PROVE CalmInv'
    <2>1. TypeOK'
      BY <1>1, TypeNext DEF CalmInv
    <2>2. CASE Next
      BY <1>1, <2>1, <2>2, SubscribeCalm, ReadsCalm, LinkCalm, ApplyCalm, ChangeCalm,
         TeardownCalm, FailCalm DEF Next, CalmInv
    <2>3. CASE UNCHANGED vars
      <3>1. UNCHANGED <<failures, version, fetch, conn, link, wire, chain, applying, data, started,
                        starting, retries, dropped>>
        BY <2>3 DEF vars, connVars, eventVars, serverVars, timerVars, boundVars
      <3> QED BY <1>1, <2>1, <3>1 DEF CalmInv, Calm, OneConnection, NewestIsCurrent
    <2> QED BY <1>1, <2>2, <2>3
  <1>2. Init => CalmInv
    BY TypeInit, InitInv, CalmInit DEF CalmInv
  <1> QED BY <1>1, <1>2, EntryInvariant, PTL DEF Spec

\* The state has its type, whatever starts, retries and timers overlap.
THEOREM TypeCorrect == Spec => []TypeOK
  BY CalmInvariant, PTL DEF CalmInv

\* For any listeners, subscriptions and changes: once everything the server sent is
\* applied, and nothing failed or was dropped, the snapshot is the server's state.
THEOREM SettlesCurrent == Spec => []SettledIsCurrent
  <1>1. CalmInv => SettledIsCurrent
    <2> SUFFICES ASSUME CalmInv, started, ~dropped, failures = 0, chain = <<>>, applying = None,
                        \A a \in Starts : fetch[a] = None /\ wire[a] = <<>>
                 PROVE  data = version
      BY DEF SettledIsCurrent
    <2>1. OneConnection /\ NewestIsCurrent /\ conn # None /\ conn \in Starts
      BY DEF CalmInv, Calm, OneConnection, TypeOK
    <2> QED BY <2>1 DEF OneConnection, NewestIsCurrent
  <1> QED BY <1>1, CalmInvariant, PTL

=============================================================================
