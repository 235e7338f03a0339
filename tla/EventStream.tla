---------------------------- MODULE EventStream ----------------------------
(***************************************************************************)
(* The server-sent event stream of one agent instance: the sequence        *)
(* counter, the replay ring and the broadcast channel of AdapterRuntime    *)
(* (server/packages/acp-http-adapter/src/process.rs), the tasks that       *)
(* publish into it and the HTTP clients that subscribe to it and resume    *)
(* with Last-Event-ID.                                                     *)
(*                                                                         *)
(* A publisher runs three steps with a suspension point before each:       *)
(* fetch_add on the counter, push into the ring under its mutex, send on   *)
(* the broadcast channel.  A subscriber copies the ring under the mutex    *)
(* and registers its receiver only after the mutex is released.            *)
(***************************************************************************)
EXTENDS Naturals, Sequences, FiniteSets

CONSTANTS
    Producers,     \* the tasks that publish: stdout loop, exit watcher, injectors
    Injectors,     \* those that run inside an HTTP handler: inject_notification
    Subscribers,   \* the SSE clients
    RingSize,      \* RING_BUFFER_SIZE
    ChannelSize,   \* capacity of the broadcast channel
    MaxSequence,   \* bound: envelopes published
    MaxConnects    \* bound: connections one client opens

ASSUME InjectorsAssumption == Injectors \subseteq Producers

ASSUME ProducersAssumption == IsFiniteSet(Producers)

ASSUME SizesAssumption ==
    /\ RingSize \in Nat \ {0}
    /\ ChannelSize \in Nat \ {0}
    /\ MaxSequence \in Nat
    /\ MaxConnects \in Nat

VARIABLES
    sequence,   \* the AtomicU64: the last sequence number handed out
    ring,       \* the replay ring, oldest message first
    sender,     \* every message sent on the broadcast channel, in send order
    publishing, \* publishing[p]: where p is inside its three steps
    conn,       \* conn[c]: the connection of client c
    cursor,     \* cursor[c]: the last event id c received, 0 before the first
    connects    \* connects[c]: connections c has opened

streamVars == <<sequence, ring, sender, publishing, conn, cursor, connects>>
clientVars == <<conn, cursor, connects>>

Sequences1 == Nat \ {0}
Message == [sequence : Sequences1, by : Producers]
Publishing == [at : {"idle", "push", "send"}, sequence : Nat]
Connection ==
    [at       : {"closed", "subscribing", "open"},
     from     : Nat,                \* the Last-Event-ID it was opened with
     replay   : Seq(Message),       \* the rest of the copied ring
     next     : Sequences1,         \* position of the receiver in sender
     replayed : Seq(Message),       \* delivered out of the replay
     live     : Seq(Message)]       \* delivered out of the channel

Closed == [at |-> "closed", from |-> 0, replay |-> <<>>, next |-> 1,
           replayed |-> <<>>, live |-> <<>>]

StreamTypeOK ==
    /\ sequence \in Nat
    /\ ring \in Seq(Message)
    /\ Len(ring) <= RingSize
    /\ sender \in Seq(Message)
    /\ publishing \in [Producers -> Publishing]
    /\ conn \in [Subscribers -> Connection]
    /\ cursor \in [Subscribers -> Nat]
    /\ connects \in [Subscribers -> Nat]

StreamInit ==
    /\ sequence = 0
    /\ ring = <<>>
    /\ sender = <<>>
    /\ publishing = [p \in Producers |-> [at |-> "idle", sequence |-> 0]]
    /\ conn = [c \in Subscribers |-> Closed]
    /\ cursor = [c \in Subscribers |-> 0]
    /\ connects = [c \in Subscribers |-> 0]

-----------------------------------------------------------------------------
(* Publishing: inject_notification, the stdout loop and the exit watcher    *)
(* all end with these three steps.                                          *)

Envelope(p) == [sequence |-> publishing[p].sequence, by |-> p]

\* Variant: a load where the fetch_add is.
FetchAddLoads(p) ==
    /\ publishing[p].at = "idle"
    /\ sequence < MaxSequence
    /\ publishing' = [publishing EXCEPT ![p] = [at |-> "push", sequence |-> sequence + 1]]
    /\ UNCHANGED <<sequence, ring, sender, clientVars>>

FetchAdd(p) ==
    /\ publishing[p].at = "idle"
    /\ sequence < MaxSequence
    /\ sequence' = sequence + 1
    /\ publishing' = [publishing EXCEPT ![p] = [at |-> "push", sequence |-> sequence + 1]]
    /\ UNCHANGED <<ring, sender, clientVars>>

\* Variant: the ring trimmed one message early.
PushedShort(msg) ==
    LET longer == Append(ring, msg)
    IN  IF Len(longer) >= RingSize THEN Tail(longer) ELSE longer

\* push_back, then pop_front while the ring is over its size.
Pushed(msg) ==
    LET longer == Append(ring, msg)
    IN  IF Len(longer) > RingSize THEN Tail(longer) ELSE longer

PushRing(p) ==
    /\ publishing[p].at = "push"
    /\ ring' = Pushed(Envelope(p))
    /\ publishing' = [publishing EXCEPT ![p].at = "send"]
    /\ UNCHANGED <<sequence, sender, clientVars>>

Broadcast(p) ==
    /\ publishing[p].at = "send"
    /\ sender' = Append(sender, Envelope(p))
    /\ publishing' = [publishing EXCEPT ![p].at = "idle"]
    /\ UNCHANGED <<sequence, ring, clientVars>>

\* The handler is dropped (its client went away) while it waits for the ring's
\* mutex: the number it drew is never published.
AbandonInject(p) ==
    /\ p \in Injectors
    /\ publishing[p].at = "push"
    /\ publishing' = [publishing EXCEPT ![p].at = "idle"]
    /\ UNCHANGED <<sequence, ring, sender, clientVars>>

-----------------------------------------------------------------------------
(* Subscribing: subscribe() and the stream sse_stream() builds from it.     *)

Opening(c) == [at |-> "subscribing", from |-> cursor[c], replay |-> ring, next |-> 1,
               replayed |-> <<>>, live |-> <<>>]

SnapshotRing(c) ==
    /\ conn[c].at = "closed"
    /\ connects[c] < MaxConnects
    /\ conn' = [conn EXCEPT ![c] = Opening(c)]
    /\ connects' = [connects EXCEPT ![c] = @ + 1]
    /\ UNCHANGED <<sequence, ring, sender, publishing, cursor>>

\* Variant: the receiver registered before the ring was copied, nothing removed.
OpenReceiverEarly(c) ==
    /\ conn[c].at = "subscribing"
    /\ conn' = [conn EXCEPT ![c].at = "open", ![c].next = 1]
    /\ UNCHANGED <<sequence, ring, sender, publishing, cursor, connects>>

\* sender.subscribe(): the receiver starts behind the last message sent so far.
OpenReceiver(c) ==
    /\ conn[c].at = "subscribing"
    /\ conn' = [conn EXCEPT ![c].at = "open", ![c].next = Len(sender) + 1]
    /\ UNCHANGED <<sequence, ring, sender, publishing, cursor, connects>>

\* The positions of the copied ring still to be replayed: the ids after the one
\* the client sent; without an id (0 here: ids start at 1) all of them.
Wanted(c) ==
    {k \in DOMAIN conn[c].replay : conn[c].replay[k].sequence > conn[c].from}

DeliverReplay(c) ==
    /\ conn[c].at = "open"
    /\ \E k \in Wanted(c) :
        LET msg == conn[c].replay[k]
        IN  /\ \A other \in Wanted(c) : k <= other
            /\ conn' = [conn EXCEPT ![c].replay = SubSeq(@, k + 1, Len(@)),
                                    ![c].replayed = Append(@, msg)]
            /\ cursor' = [cursor EXCEPT ![c] = msg.sequence]
    /\ UNCHANGED <<sequence, ring, sender, publishing, connects>>

\* The channel keeps the last ChannelSize messages.
Oldest == IF Len(sender) > ChannelSize THEN Len(sender) - ChannelSize + 1 ELSE 1

DeliverLive(c) ==
    /\ conn[c].at = "open"
    /\ Wanted(c) = {}
    /\ conn[c].next \in Oldest .. Len(sender)
    /\ LET msg == sender[conn[c].next]
       IN  /\ conn' = [conn EXCEPT ![c].next = @ + 1, ![c].live = Append(@, msg)]
           /\ cursor' = [cursor EXCEPT ![c] = msg.sequence]
    /\ UNCHANGED <<sequence, ring, sender, publishing, connects>>

\* The receiver fell out of the channel: recv() reports Lagged, the stream
\* filters the error out and goes on with the oldest message kept.
SkipLagged(c) ==
    /\ conn[c].at = "open"
    /\ Wanted(c) = {}
    /\ conn[c].next < Oldest
    /\ conn' = [conn EXCEPT ![c].next = Oldest]
    /\ UNCHANGED <<sequence, ring, sender, publishing, cursor, connects>>

\* The client goes away, in the handler or in the stream; it keeps its cursor.
Disconnect(c) ==
    /\ conn[c].at # "closed"
    /\ conn' = [conn EXCEPT ![c] = Closed]
    /\ UNCHANGED <<sequence, ring, sender, publishing, cursor, connects>>

Publish(p) == FetchAdd(p) \/ PushRing(p) \/ Broadcast(p) \/ AbandonInject(p)

Client(c) ==
    \/ SnapshotRing(c)
    \/ OpenReceiver(c)
    \/ DeliverReplay(c)
    \/ DeliverLive(c)
    \/ SkipLagged(c)
    \/ Disconnect(c)

StreamNext ==
    \/ \E p \in Producers : Publish(p)
    \/ \E c \in Subscribers : Client(c)

StreamSpec == StreamInit /\ [][StreamNext]_streamVars

-----------------------------------------------------------------------------
(* Properties.                                                              *)

Delivered(c) == conn[c].replayed \o conn[c].live

\* Whatever the tasks interleave, one connection never sees the messages of one
\* task out of order; a message comes twice at most, once out of the replay and
\* once live, when it sat in the ring but had not been sent yet.
ProducerOrder ==
    \A c \in Subscribers : LET got == Delivered(c) IN
        \A i, j \in DOMAIN got :
            i < j /\ got[i].by = got[j].by =>
                \/ got[i].sequence < got[j].sequence
                \/ got[i] = got[j] /\ i <= Len(conn[c].replayed) /\ j > Len(conn[c].replayed)

\* What a reconnecting client can count on: of the RingSize newest numbers all
\* but as many as there are other tasks are still in the ring once sent (a task
\* that drew an older number may push it late and evict a newer message).
ReplayWindow ==
    \A i \in DOMAIN sender :
        sender[i].sequence + RingSize > sequence + Cardinality(Producers) - 1
            => \E j \in DOMAIN ring : ring[j] = sender[i]

\* The channel carries each task's messages in the order it produced them: the
\* answer that ends a turn comes after every update the agent printed before it.
SentInOrder ==
    \A i, j \in DOMAIN sender :
        i < j /\ sender[i].by = sender[j].by => sender[i].sequence < sender[j].sequence

=============================================================================
