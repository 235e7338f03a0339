----------------------- MODULE AdapterRuntime_proofs -----------------------
(***************************************************************************)
(* Theorems about the adapter's runtime.  First its stream of envelopes,   *)
(* EventStream, for any finite set of tasks, any set of clients and any    *)
(* sizes: the type invariant; the channel carries the messages of each     *)
(* task in the order it drew their numbers; a connection receives them in  *)
(* that order; the ring holds what a reconnecting client can count on.     *)
(* Then the runtime itself, AdapterRuntime: it behaves as an EventStream,  *)
(* its state has its type, and the invariant that ties the pending map,    *)
(* the oneshot channels and the ids together, from which OwnReply and      *)
(* WaiterReachable follow.  Last, that a request is in one place at a time *)
(* on its way to its answer, and the refinement of RequestReply.           *)
(***************************************************************************)
EXTENDS AdapterRuntime, SequenceTheorems, FiniteSetTheorems, FunctionTheorems, TLAPS

-----------------------------------------------------------------------------
(* The stream.                                                              *)

\* Every message comes from a task, with the number that task drew.
LEMMA EnvelopeType ==
    ASSUME StreamTypeOK, NEW p \in Producers, publishing[p].sequence # 0
    PROVE  Envelope(p) \in Message
BY DEF StreamTypeOK, Envelope, Message, Publishing, Sequences1

\* Pushing keeps the ring a sequence of messages within its size.
LEMMA PushedType ==
    ASSUME StreamTypeOK, NEW msg \in Message
    PROVE  Pushed(msg) \in Seq(Message) /\ Len(Pushed(msg)) <= RingSize
<1>1. Append(ring, msg) \in Seq(Message) /\ Len(Append(ring, msg)) = Len(ring) + 1
    BY DEF StreamTypeOK
<1>2. Len(ring) \in Nat /\ Len(ring) <= RingSize /\ RingSize \in Nat
    BY SizesAssumption DEF StreamTypeOK
<1>3. CASE Len(Append(ring, msg)) > RingSize
    <2>1. Append(ring, msg) # <<>>
        BY <1>1, <1>2
    <2>2. Tail(Append(ring, msg)) \in Seq(Message)
          /\ Len(Tail(Append(ring, msg))) = Len(Append(ring, msg)) - 1
        BY <1>1, <2>1, HeadTailProperties
    <2> QED BY <1>1, <1>2, <1>3, <2>2 DEF Pushed
<1>4. CASE ~ (Len(Append(ring, msg)) > RingSize)
    BY <1>1, <1>2, <1>4 DEF Pushed
<1> QED BY <1>3, <1>4

\* The rest of a sequence is one.
LEMMA RestType ==
    ASSUME NEW S, NEW s \in Seq(S), NEW k \in DOMAIN s
    PROVE  SubSeq(s, k + 1, Len(s)) \in Seq(S)
<1>1. k + 1 \in 1 .. Len(s) + 1 /\ Len(s) \in 0 .. Len(s)
    BY LenProperties
<1> QED BY <1>1, SubSeqProperties

\* The initial state is of the right type.
LEMMA InitType == StreamInit => StreamTypeOK
<1> SUFFICES ASSUME StreamInit PROVE StreamTypeOK
    OBVIOUS
<1>1. Closed \in Connection
    BY DEF Closed, Connection, Sequences1
<1> QED BY <1>1, SizesAssumption DEF StreamInit, StreamTypeOK, Publishing

\* A message being published has a number: the second half of the typing of
\* publishing, which StreamTypeOK alone does not give.
Numbered == \A p \in Producers : publishing[p].at # "idle" => publishing[p].sequence # 0

\* Every step keeps the types.
LEMMA NextType ==
    ASSUME StreamTypeOK, Numbered, [StreamNext]_streamVars
    PROVE  StreamTypeOK' /\ Numbered'
<1> USE SizesAssumption
<1>1. ASSUME NEW p \in Producers, FetchAdd(p) PROVE StreamTypeOK' /\ Numbered'
    BY <1>1 DEF FetchAdd, clientVars, StreamTypeOK, Publishing, Numbered
<1>2. ASSUME NEW p \in Producers, PushRing(p) PROVE StreamTypeOK' /\ Numbered'
    <2>1. Envelope(p) \in Message
        BY <1>2, EnvelopeType DEF PushRing, Numbered
    <2>2. Pushed(Envelope(p)) \in Seq(Message) /\ Len(Pushed(Envelope(p))) <= RingSize
        BY <2>1, PushedType
    <2> QED BY <1>2, <2>2 DEF PushRing, clientVars, StreamTypeOK, Publishing, Numbered
<1>3. ASSUME NEW p \in Producers, Broadcast(p) PROVE StreamTypeOK' /\ Numbered'
    <2>1. Envelope(p) \in Message
        BY <1>3, EnvelopeType DEF Broadcast, Numbered
    <2> QED BY <1>3, <2>1 DEF Broadcast, clientVars, StreamTypeOK, Publishing, Numbered
<1>4. ASSUME NEW p \in Producers, AbandonInject(p) PROVE StreamTypeOK' /\ Numbered'
    BY <1>4 DEF AbandonInject, clientVars, StreamTypeOK, Publishing, Numbered
<1>5. ASSUME NEW c \in Subscribers, SnapshotRing(c) PROVE StreamTypeOK' /\ Numbered'
    <2>1. Opening(c) \in Connection
        BY DEF StreamTypeOK, Opening, Connection, Sequences1
    <2>2. conn' \in [Subscribers -> Connection]
        <3>1. conn' = [conn EXCEPT ![c] = Opening(c)]
            BY <1>5 DEF SnapshotRing
        <3> QED BY <2>1, <3>1 DEF StreamTypeOK
    <2> QED BY <1>5, <2>2 DEF SnapshotRing, StreamTypeOK, Numbered
<1>6. ASSUME NEW c \in Subscribers, OpenReceiver(c) PROVE StreamTypeOK' /\ Numbered'
    <2>1. Len(sender) + 1 \in Sequences1
        BY LenProperties DEF StreamTypeOK, Sequences1
    <2>2. conn[c] \in Connection
        BY DEF StreamTypeOK
    <2>3. [conn[c] EXCEPT !.at = "open", !.next = Len(sender) + 1] \in Connection
        BY <2>1, <2>2 DEF Connection
    <2>4. conn' \in [Subscribers -> Connection]
        BY <1>6, <2>3 DEF OpenReceiver, StreamTypeOK
    <2> QED BY <1>6, <2>4 DEF OpenReceiver, StreamTypeOK, Numbered
<1>7. ASSUME NEW c \in Subscribers, DeliverReplay(c) PROVE StreamTypeOK' /\ Numbered'
    <2>1. PICK k \in DOMAIN conn[c].replay :
            /\ conn' = [conn EXCEPT ![c].replay = SubSeq(@, k + 1, Len(@)),
                                    ![c].replayed = Append(@, conn[c].replay[k])]
            /\ cursor' = [cursor EXCEPT ![c] = conn[c].replay[k].sequence]
        BY <1>7 DEF DeliverReplay, Wanted
    <2>2. conn[c] \in Connection /\ conn[c].replay \in Seq(Message)
        BY DEF StreamTypeOK, Connection
    <2>3. conn[c].replay[k] \in Message
        BY <2>1, <2>2, ElementOfSeq, LenProperties
    <2>4. SubSeq(conn[c].replay, k + 1, Len(conn[c].replay)) \in Seq(Message)
        BY <2>2, RestType
    <2>5. Append(conn[c].replayed, conn[c].replay[k]) \in Seq(Message)
        BY <2>2, <2>3 DEF Connection
    <2> QED BY <1>7, <2>1, <2>2, <2>3, <2>4, <2>5
            DEF DeliverReplay, StreamTypeOK, Connection, Message, Sequences1, Numbered
<1>8. ASSUME NEW c \in Subscribers, DeliverLive(c) PROVE StreamTypeOK' /\ Numbered'
    <2>1. conn[c] \in Connection
        BY DEF StreamTypeOK
    <2>2. conn[c].next \in 1 .. Len(sender)
        <3>1. conn[c].next \in Nat \ {0} /\ Len(sender) \in Nat
            BY <2>1, LenProperties DEF Connection, StreamTypeOK, Sequences1
        <3>2. Oldest \in Nat /\ conn[c].next \in Oldest .. Len(sender)
            BY <1>8, <3>1 DEF DeliverLive, Oldest
        <3> QED BY <3>1, <3>2
    <2>3. sender[conn[c].next] \in Message
        BY <2>2, ElementOfSeq DEF StreamTypeOK
    <2>4. Append(conn[c].live, sender[conn[c].next]) \in Seq(Message)
          /\ conn[c].next + 1 \in Sequences1
        BY <2>1, <2>2, <2>3 DEF Connection, Sequences1
    <2> QED BY <1>8, <2>1, <2>3, <2>4
            DEF DeliverLive, StreamTypeOK, Connection, Message, Sequences1, Numbered
<1>9. ASSUME NEW c \in Subscribers, SkipLagged(c) PROVE StreamTypeOK' /\ Numbered'
    <2>1. Oldest \in Sequences1
        BY LenProperties DEF Oldest, Sequences1, StreamTypeOK
    <2> QED BY <1>9, <2>1 DEF SkipLagged, StreamTypeOK, Connection, Numbered
<1>10. ASSUME NEW c \in Subscribers, Disconnect(c) PROVE StreamTypeOK' /\ Numbered'
    BY <1>10 DEF Disconnect, StreamTypeOK, Connection, Closed, Sequences1, Numbered
<1>11. CASE UNCHANGED streamVars
    BY <1>11 DEF streamVars, clientVars, StreamTypeOK, Numbered
<1> QED BY <1>1, <1>2, <1>3, <1>4, <1>5, <1>6, <1>7, <1>8, <1>9, <1>10, <1>11
        DEF StreamNext, Publish, Client

\* In every behaviour of the stream the state has its type; the ring never
\* holds more than RingSize messages.
THEOREM TypeCorrect == StreamSpec => []StreamTypeOK
<1>1. StreamInit => StreamTypeOK /\ Numbered
    BY InitType DEF StreamInit, Numbered
<1>2. StreamTypeOK /\ Numbered /\ [StreamNext]_streamVars => (StreamTypeOK /\ Numbered)'
    BY NextType
<1> QED BY <1>1, <1>2, PTL DEF StreamSpec

-----------------------------------------------------------------------------
(* The order of the channel.                                                *)

\* Numbers are drawn in order, and a task has sent only numbers it drew before
\* the one it is publishing now.
Drawn ==
    /\ \A p \in Producers : publishing[p].sequence <= sequence
    /\ \A i \in DOMAIN sender : LET p == sender[i].by IN
          IF publishing[p].at = "idle"
          THEN sender[i].sequence <= publishing[p].sequence
          ELSE sender[i].sequence < publishing[p].sequence

\* The inductive invariant: SentInOrder alone says nothing about the number a
\* task is about to send.
SentInv == SentInOrder /\ Drawn

\* A step that leaves the channel and the publishers alone keeps SentInv.
LEMMA SentFrame ==
    ASSUME SentInv, UNCHANGED <<sequence, sender, publishing>>
    PROVE  SentInv'
BY DEF SentInv, SentInOrder, Drawn

LEMMA SentStep ==
    ASSUME StreamTypeOK, Numbered, SentInv, [StreamNext]_streamVars
    PROVE  SentInv'
<1>0. /\ sequence \in Nat /\ sender \in Seq(Message)
      /\ publishing \in [Producers -> Publishing]
      /\ \A i \in DOMAIN sender : sender[i] \in Message
    BY ElementOfSeq, LenProperties DEF StreamTypeOK
<1>1. ASSUME NEW p \in Producers, FetchAdd(p) PROVE SentInv'
    <2>1. SentInOrder'
        BY <1>1 DEF FetchAdd, SentInv, SentInOrder
    <2>2. \A i \in DOMAIN sender : sender[i].sequence <= sequence
        <3> TAKE i \in DOMAIN sender
        <3> DEFINE q == sender[i].by
        <3>1. q \in Producers /\ sender[i].sequence \in Nat
            BY <1>0 DEF Message, Sequences1
        <3>2. publishing[q].sequence \in Nat /\ publishing[q].sequence <= sequence
            BY <1>0, <3>1 DEF SentInv, Drawn, Publishing
        <3>3. sender[i].sequence <= publishing[q].sequence
            BY <3>1, <3>2 DEF SentInv, Drawn
        <3> QED BY <1>0, <3>1, <3>2, <3>3
    <2>3. /\ sender' = sender /\ sequence' = sequence + 1
          /\ publishing' = [publishing EXCEPT ![p] = [at |-> "push", sequence |-> sequence + 1]]
        BY <1>1 DEF FetchAdd
    <2>4. \A q \in Producers : publishing'[q].sequence <= sequence'
        BY <1>0, <2>3 DEF SentInv, Drawn, Publishing
    <2>5. ASSUME NEW i \in DOMAIN sender PROVE
            IF publishing'[sender[i].by].at = "idle"
            THEN sender[i].sequence <= publishing'[sender[i].by].sequence
            ELSE sender[i].sequence < publishing'[sender[i].by].sequence
        <3>1. CASE sender[i].by = p
            <4>1. publishing'[p] = [at |-> "push", sequence |-> sequence + 1]
                BY <1>0, <2>3
            <4>2. sender[i].sequence < sequence + 1
                BY <1>0, <2>2 DEF Message, Sequences1
            <4> QED BY <3>1, <4>1, <4>2
        <3>2. CASE sender[i].by # p
            BY <1>0, <2>3, <3>2 DEF SentInv, Drawn, Message
        <3> QED BY <3>1, <3>2
    <2>6. Drawn'
        BY <2>3, <2>4, <2>5 DEF Drawn
    <2> QED BY <2>1, <2>6 DEF SentInv
<1>2. ASSUME NEW p \in Producers, PushRing(p) PROVE SentInv'
    BY <1>0, <1>2 DEF PushRing, SentInv, SentInOrder, Drawn, Message, Sequences1, Publishing
<1>3. ASSUME NEW p \in Producers, Broadcast(p) PROVE SentInv'
    <2> DEFINE msg == Envelope(p)
    <2>1. /\ msg \in Message /\ msg.by = p /\ msg.sequence = publishing[p].sequence
          /\ sender' = Append(sender, msg)
        BY <1>3, EnvelopeType DEF Broadcast, Numbered, Envelope
    <2> HIDE DEF msg
    <2>2. /\ Len(sender') = Len(sender) + 1 /\ Len(sender) \in Nat
          /\ DOMAIN sender' = 1 .. Len(sender) + 1 /\ DOMAIN sender = 1 .. Len(sender)
          /\ \A i \in 1 .. Len(sender) : sender'[i] = sender[i]
          /\ sender'[Len(sender) + 1] = msg
        BY <1>0, <2>1, AppendProperties, LenProperties
    <2>3. \A i \in DOMAIN sender : sender[i].by = p => sender[i].sequence < msg.sequence
        BY <1>3, <2>1 DEF SentInv, Drawn, Broadcast
    <2>4. SentInOrder'
        BY <2>1, <2>2, <2>3 DEF SentInv, SentInOrder
    <2>5. publishing' = [publishing EXCEPT ![p].at = "idle"] /\ sequence' = sequence
        BY <1>3 DEF Broadcast
    <2>6. Drawn'
        BY <1>0, <2>1, <2>2, <2>3, <2>5 DEF SentInv, Drawn, Message, Sequences1, Publishing
    <2> QED BY <2>4, <2>6 DEF SentInv
<1>4. ASSUME NEW p \in Producers, AbandonInject(p) PROVE SentInv'
    BY <1>0, <1>4 DEF AbandonInject, SentInv, SentInOrder, Drawn, Message, Sequences1, Publishing
<1>5. ASSUME NEW c \in Subscribers, Client(c) PROVE SentInv'
    BY <1>5, SentFrame DEF Client, SnapshotRing, OpenReceiver, DeliverReplay, DeliverLive,
        SkipLagged, Disconnect
<1>6. CASE UNCHANGED streamVars
    BY <1>6, SentFrame DEF streamVars
<1> QED BY <1>1, <1>2, <1>3, <1>4, <1>5, <1>6 DEF StreamNext, Publish

\* The broadcast channel carries the messages of one task in the order the task
\* produced them.
THEOREM ChannelOrder == StreamSpec => []SentInOrder
<1>1. StreamInit => StreamTypeOK /\ Numbered /\ SentInv
    BY InitType DEF StreamInit, Numbered, SentInv, SentInOrder, Drawn
<1>2. StreamTypeOK /\ Numbered /\ SentInv /\ [StreamNext]_streamVars
        => (StreamTypeOK /\ Numbered /\ SentInv)'
    BY NextType, SentStep
<1>3. SentInv => SentInOrder
    BY DEF SentInv
<1> QED BY <1>1, <1>2, <1>3, PTL DEF StreamSpec

-----------------------------------------------------------------------------
(* What one connection receives.                                            *)

\* The messages of each task stand in the order it drew their numbers.
Ascending(s) ==
    \A i, j \in DOMAIN s : i < j /\ s[i].by = s[j].by => s[i].sequence < s[j].sequence

\* No message of s is newer than the one of the same task that t begins with.
UpTo(s, t) ==
    \A i \in DOMAIN s, j \in DOMAIN t : s[i].by = t[j].by => s[i].sequence <= t[j].sequence

Ahead(s, t) ==
    \A i \in DOMAIN s, j \in DOMAIN t : s[i].by = t[j].by => s[i].sequence < t[j].sequence

\* The messages of s are in the ring or were: their tasks have pushed them.
Announced(s) ==
    \A i \in DOMAIN s : LET p == s[i].by IN
        IF publishing[p].at = "push"
        THEN s[i].sequence < publishing[p].sequence
        ELSE s[i].sequence <= publishing[p].sequence

RingInv == Ascending(ring) /\ Announced(ring)

\* What a connection was given out of the ring, and still will be, is in order.
ReplayInv(k) ==
    /\ Ascending(k.replayed) /\ Ascending(k.replay) /\ Ahead(k.replayed, k.replay)
    /\ Announced(k.replayed) /\ Announced(k.replay)

\* What it was given out of the channel are messages the receiver has passed.
LiveInv(k) ==
    /\ Ascending(k.live)
    /\ \A j \in DOMAIN k.live : \E i \in DOMAIN sender : i < k.next /\ k.live[j] = sender[i]

\* A message of the ring may come once more out of the channel, but none that is
\* older: the receiver was registered after the ring was copied.
JoinInv(k) ==
    /\ UpTo(k.replayed, k.live) /\ UpTo(k.replay, k.live)
    /\ k.at = "open" => \A i \in DOMAIN sender :
          i >= k.next =>
              /\ \A j \in DOMAIN k.replayed : k.replayed[j].by = sender[i].by
                                => k.replayed[j].sequence <= sender[i].sequence
              /\ \A j \in DOMAIN k.replay : k.replay[j].by = sender[i].by
                                => k.replay[j].sequence <= sender[i].sequence

ClientInv == \A c \in Subscribers : ReplayInv(conn[c]) /\ LiveInv(conn[c]) /\ JoinInv(conn[c])

OrderInv == StreamTypeOK /\ Numbered /\ SentInv /\ RingInv /\ ClientInv

\* Whether a sequence is announced depends on the publishers only.
LEMMA AnnouncedKept ==
    ASSUME NEW s, Announced(s), publishing' = publishing
    PROVE  Announced(s)'
BY DEF Announced

\* Appending the newest message of its task keeps a sequence in order.
LEMMA AscendingAppend ==
    ASSUME NEW s \in Seq(Message), NEW msg \in Message, Ascending(s),
           \A i \in DOMAIN s : s[i].by = msg.by => s[i].sequence < msg.sequence
    PROVE  Ascending(Append(s, msg))
<1>1. /\ Len(Append(s, msg)) = Len(s) + 1 /\ Len(s) \in Nat
      /\ DOMAIN Append(s, msg) = 1 .. Len(s) + 1 /\ DOMAIN s = 1 .. Len(s)
      /\ \A i \in 1 .. Len(s) : Append(s, msg)[i] = s[i]
      /\ Append(s, msg)[Len(s) + 1] = msg
    BY AppendProperties, LenProperties
<1> QED BY <1>1 DEF Ascending

\* The elements of the rest of a sequence.
LEMMA RestElements ==
    ASSUME NEW s \in Seq(Message), NEW k \in DOMAIN s
    PROVE  LET rest == SubSeq(s, k + 1, Len(s)) IN
           \A i \in DOMAIN rest :
               i \in Nat \ {0} /\ i + k \in DOMAIN s /\ rest[i] = s[i + k]
<1> DEFINE rest == SubSeq(s, k + 1, Len(s))
<1>1. k \in 1 .. Len(s) /\ Len(s) \in Nat /\ DOMAIN s = 1 .. Len(s)
    BY LenProperties
<1>2. \A i \in k + 1 .. Len(s) : s[i] \in Message
    BY <1>1, ElementOfSeq
<1>3. /\ rest \in Seq(Message)
      /\ Len(rest) = IF k + 1 <= Len(s) THEN Len(s) - (k + 1) + 1 ELSE 0
      /\ \A i \in 1 .. Len(s) - (k + 1) + 1 : rest[i] = s[k + 1 + i - 1]
    BY <1>1, <1>2, SubSeqProperties
<1>4. DOMAIN rest = 1 .. Len(rest) /\ Len(rest) = Len(s) - k
    BY <1>1, <1>3, LenProperties
<1> HIDE DEF rest
<1>5. ASSUME NEW i \in DOMAIN rest
      PROVE  i \in Nat \ {0} /\ i + k \in DOMAIN s /\ rest[i] = s[i + k]
    <2>1. i \in 1 .. Len(s) - k /\ k + 1 + i - 1 = i + k
        BY <1>1, <1>4, <1>5
    <2>2. i \in 1 .. Len(s) - (k + 1) + 1 /\ i + k \in 1 .. Len(s) /\ i \in Nat \ {0}
        BY <1>1, <2>1
    <2>3. rest[i] = s[k + 1 + i - 1]
        BY <1>3, <2>2
    <2> QED BY <1>1, <2>1, <2>2, <2>3
<1> QED BY <1>5 DEF rest

LEMMA AscendingRest ==
    ASSUME NEW s \in Seq(Message), NEW k \in DOMAIN s, Ascending(s)
    PROVE  Ascending(SubSeq(s, k + 1, Len(s)))
<1> DEFINE rest == SubSeq(s, k + 1, Len(s))
<1>1. k \in Nat
    BY LenProperties
<1>2. \A i \in DOMAIN rest : i \in Nat \ {0} /\ i + k \in DOMAIN s /\ rest[i] = s[i + k]
    BY RestElements
<1> HIDE DEF rest
<1>3. Ascending(rest)
    BY <1>1, <1>2 DEF Ascending
<1> QED BY <1>3 DEF rest

\* Elements of an extended sequence are those it had and the new one.
LEMMA AppendElements ==
    ASSUME NEW s \in Seq(Message), NEW msg \in Message
    PROVE  \A i \in DOMAIN Append(s, msg) :
              \/ i \in DOMAIN s /\ Append(s, msg)[i] = s[i]
              \/ i = Len(s) + 1 /\ Append(s, msg)[i] = msg
BY AppendProperties, LenProperties

\* Whatever a task does next, what was announced stays announced.
LEMMA PublishAnnounced ==
    ASSUME StreamTypeOK, SentInv, NEW p \in Producers, Publish(p),
           NEW s \in Seq(Message), Announced(s)
    PROVE  Announced(s)'
<1>1. \A i \in DOMAIN s : s[i] \in Message
    BY ElementOfSeq, LenProperties
<1>2. \A q \in Producers \ {p} : publishing'[q] = publishing[q]
    BY DEF Publish, FetchAdd, PushRing, Broadcast, AbandonInject, StreamTypeOK
<1>3. CASE FetchAdd(p)
    <2>1. publishing'[p] = [at |-> "push", sequence |-> sequence + 1]
          /\ publishing[p].sequence <= sequence
          /\ publishing[p].sequence \in Nat /\ sequence \in Nat
        BY <1>3 DEF FetchAdd, StreamTypeOK, Publishing, SentInv, Drawn
    <2> QED BY <1>1, <1>2, <2>1 DEF Announced, Message, Sequences1
<1>4. CASE PushRing(p) \/ Broadcast(p) \/ AbandonInject(p)
    <2>1. /\ publishing'[p].sequence = publishing[p].sequence
          /\ publishing'[p].at # "push" /\ publishing[p].sequence \in Nat
        BY <1>4 DEF PushRing, Broadcast, AbandonInject, StreamTypeOK, Publishing
    <2> QED BY <1>1, <1>2, <2>1 DEF Announced, Message, Sequences1
<1> QED BY <1>3, <1>4 DEF Publish

\* The ring is copied in order because it is kept in order.
LEMMA RingStep ==
    ASSUME OrderInv, [StreamNext]_streamVars
    PROVE  RingInv'
<1> USE DEF OrderInv
<1>1. ASSUME NEW p \in Producers, Publish(p), UNCHANGED ring PROVE RingInv'
    <2>1. Announced(ring)'
        BY <1>1, PublishAnnounced DEF RingInv, StreamTypeOK, Announced
    <2> QED BY <1>1, <2>1 DEF RingInv, Ascending
<1>2. ASSUME NEW p \in Producers, PushRing(p) PROVE RingInv'
    <2> DEFINE msg == Envelope(p)
               longer == Append(ring, msg)
    <2>1. /\ msg \in Message /\ msg.by = p /\ msg.sequence = publishing[p].sequence
          /\ ring \in Seq(Message)
        BY <1>2, EnvelopeType DEF PushRing, Numbered, Envelope, StreamTypeOK
    <2>2. publishing[p].at = "push" /\ publishing'[p].at = "send"
          /\ publishing'[p].sequence = publishing[p].sequence
          /\ publishing[p].sequence \in Nat
        BY <1>2 DEF PushRing, StreamTypeOK, Publishing
    <2> HIDE DEF msg
    <2>3. \A i \in DOMAIN ring : ring[i].by = msg.by => ring[i].sequence < msg.sequence
        BY <2>1, <2>2 DEF RingInv, Announced
    <2>4. Ascending(longer)
        BY <2>1, <2>3, AscendingAppend DEF RingInv
    <2>5. \A i \in DOMAIN ring : LET q == ring[i].by IN
              IF publishing'[q].at = "push"
              THEN ring[i].sequence < publishing'[q].sequence
              ELSE ring[i].sequence <= publishing'[q].sequence
        BY <1>2, <2>1, PublishAnnounced DEF Publish, RingInv, Announced
    <2>6. \A i \in DOMAIN longer : LET q == longer[i].by IN
              IF publishing'[q].at = "push"
              THEN longer[i].sequence < publishing'[q].sequence
              ELSE longer[i].sequence <= publishing'[q].sequence
        BY <2>1, <2>2, <2>5, AppendElements
    <2>7. longer \in Seq(Message) /\ longer # <<>> /\ 1 \in DOMAIN longer
        BY <2>1, AppendProperties, LenProperties
    <2>8. Tail(longer) = SubSeq(longer, 1 + 1, Len(longer))
        BY <2>7, TailIsSubSeq
    <2>9. Ascending(Tail(longer))
        BY <2>4, <2>7, <2>8, AscendingRest
    <2>10. \A i \in DOMAIN Tail(longer) : LET q == Tail(longer)[i].by IN
              IF publishing'[q].at = "push"
              THEN Tail(longer)[i].sequence < publishing'[q].sequence
              ELSE Tail(longer)[i].sequence <= publishing'[q].sequence
        BY <2>6, <2>7, <2>8, RestElements
    <2>11. ring' = longer \/ ring' = Tail(longer)
        BY <1>2 DEF PushRing, Pushed, msg
    <2> HIDE DEF longer
    <2> QED BY <2>4, <2>6, <2>9, <2>10, <2>11 DEF RingInv, Ascending, Announced
<1>3. ASSUME NEW p \in Producers, Publish(p) PROVE RingInv'
    BY <1>1, <1>2, <1>3 DEF Publish, FetchAdd, Broadcast, AbandonInject
<1>4. ASSUME NEW c \in Subscribers, Client(c) PROVE RingInv'
    BY <1>4 DEF Client, SnapshotRing, OpenReceiver, DeliverReplay, DeliverLive,
        SkipLagged, Disconnect, RingInv, Ascending, Announced
<1>5. CASE UNCHANGED streamVars
    BY <1>5 DEF streamVars, RingInv, Ascending, Announced
<1> QED BY <1>3, <1>4, <1>5 DEF StreamNext

\* The parts of a connection's record.
LEMMA ConnParts ==
    ASSUME StreamTypeOK, NEW c \in Subscribers
    PROVE  /\ conn[c] \in Connection
           /\ conn[c].replay \in Seq(Message) /\ conn[c].replayed \in Seq(Message)
           /\ conn[c].live \in Seq(Message) /\ conn[c].next \in Sequences1
           /\ \A i \in DOMAIN conn[c].replay : conn[c].replay[i] \in Message
           /\ \A i \in DOMAIN conn[c].replayed : conn[c].replayed[i] \in Message
           /\ \A i \in DOMAIN conn[c].live : conn[c].live[i] \in Message
<1>1. conn[c] \in Connection
    BY DEF StreamTypeOK
<1>2. /\ conn[c].replay \in Seq(Message) /\ conn[c].replayed \in Seq(Message)
      /\ conn[c].live \in Seq(Message) /\ conn[c].next \in Sequences1
    BY <1>1 DEF Connection
<1> QED BY <1>1, <1>2, ElementOfSeq, LenProperties

\* A task that publishes disturbs no connection: what it sends is no older than
\* anything it has pushed.
LEMMA PublishClients ==
    ASSUME OrderInv, NEW p \in Producers, Publish(p)
    PROVE  ClientInv'
<1> USE DEF OrderInv
<1> SUFFICES ASSUME NEW c \in Subscribers
             PROVE  (ReplayInv(conn[c]) /\ LiveInv(conn[c]) /\ JoinInv(conn[c]))'
    BY DEF ClientInv
<1> DEFINE k == conn[c]
<1>1. conn' = conn
    BY DEF Publish, FetchAdd, PushRing, Broadcast, AbandonInject, clientVars
<1>2. ReplayInv(k) /\ LiveInv(k) /\ JoinInv(k)
    BY DEF ClientInv
<1>3. ReplayInv(k)'
    <2>1. k.replay \in Seq(Message) /\ k.replayed \in Seq(Message)
        BY ConnParts
    <2> HIDE DEF k
    <2>2. /\ \A i \in DOMAIN k.replay : LET q == k.replay[i].by IN
                IF publishing'[q].at = "push"
                THEN k.replay[i].sequence < publishing'[q].sequence
                ELSE k.replay[i].sequence <= publishing'[q].sequence
          /\ \A i \in DOMAIN k.replayed : LET q == k.replayed[i].by IN
                IF publishing'[q].at = "push"
                THEN k.replayed[i].sequence < publishing'[q].sequence
                ELSE k.replayed[i].sequence <= publishing'[q].sequence
        BY <1>2, <2>1, PublishAnnounced DEF ReplayInv, Announced
    <2>3. k' = k
        BY <1>1 DEF k
    <2> QED BY <1>2, <2>2, <2>3 DEF ReplayInv, Announced, Ascending, Ahead
<1>4. CASE sender' = sender
    <2> HIDE DEF k
    <2>1. k' = k
        BY <1>1 DEF k
    <2>2. LiveInv(k)' /\ JoinInv(k)'
        BY <1>2, <1>4, <2>1 DEF LiveInv, JoinInv, Ascending, UpTo
    <2> QED BY <1>3, <2>2 DEF k
<1>5. CASE Broadcast(p)
    <2> DEFINE msg == Envelope(p)
    <2>1. /\ msg \in Message /\ msg.by = p /\ msg.sequence = publishing[p].sequence
          /\ sender' = Append(sender, msg) /\ sender \in Seq(Message)
          /\ publishing[p].at = "send"
        BY <1>5, EnvelopeType DEF Broadcast, Numbered, Envelope, StreamTypeOK
    <2> HIDE DEF msg
    <2>2. /\ DOMAIN sender' = 1 .. Len(sender) + 1 /\ DOMAIN sender = 1 .. Len(sender)
          /\ Len(sender) \in Nat
          /\ \A i \in 1 .. Len(sender) : sender'[i] = sender[i]
          /\ sender'[Len(sender) + 1] = msg
        BY <2>1, AppendProperties, LenProperties
    <2>3. /\ \A j \in DOMAIN k.replay : k.replay[j].by = p => k.replay[j].sequence <= msg.sequence
          /\ \A j \in DOMAIN k.replayed : k.replayed[j].by = p
                => k.replayed[j].sequence <= msg.sequence
        BY <1>2, <2>1 DEF ReplayInv, Announced
    <2> HIDE DEF k
    <2>4. k' = k
        BY <1>1 DEF k
    <2>5. LiveInv(k)'
        BY <1>2, <2>2, <2>4 DEF LiveInv, Ascending
    <2>6. JoinInv(k)'
        BY <1>2, <2>1, <2>2, <2>3, <2>4 DEF JoinInv, UpTo
    <2> QED BY <1>3, <2>5, <2>6 DEF k
<1> QED BY <1>4, <1>5 DEF Publish, FetchAdd, PushRing, AbandonInject

\* The next message of the replay is newer than those already delivered.
LEMMA DeliverReplayClient ==
    ASSUME OrderInv, NEW c \in Subscribers, DeliverReplay(c),
           NEW old, old = conn[c], NEW new, new = conn'[c]
    PROVE  (ReplayInv(new) /\ LiveInv(new) /\ JoinInv(new))'
<1> USE DEF OrderInv
<1>1. PICK k \in DOMAIN old.replay :
        conn' = [conn EXCEPT ![c].replay = SubSeq(@, k + 1, Len(@)),
                             ![c].replayed = Append(@, old.replay[k])]
    BY DEF DeliverReplay, Wanted
<1> DEFINE msg == old.replay[k]
           rest == SubSeq(old.replay, k + 1, Len(old.replay))
<1>2. /\ old.replay \in Seq(Message) /\ old.replayed \in Seq(Message) /\ msg \in Message
      /\ k \in Nat
    BY <1>1, ConnParts, LenProperties
<1>3. ReplayInv(old) /\ LiveInv(old) /\ JoinInv(old)
    BY DEF ClientInv
<1>4. /\ new.at = old.at /\ new.next = old.next /\ new.live = old.live
      /\ new.replay = rest /\ new.replayed = Append(old.replayed, msg)
    BY <1>1, ConnParts DEF StreamTypeOK, Connection
<1>5. publishing' = publishing /\ sender' = sender
    BY DEF DeliverReplay
<1>6. \A i \in DOMAIN rest :
          i \in Nat \ {0} /\ i + k \in DOMAIN old.replay /\ rest[i] = old.replay[i + k]
    BY <1>1, <1>2, RestElements
<1>7. \A i \in DOMAIN new.replayed :
          \/ i \in DOMAIN old.replayed /\ new.replayed[i] = old.replayed[i]
          \/ i = Len(old.replayed) + 1 /\ new.replayed[i] = msg
    BY <1>2, <1>4, AppendElements
<1>8. Ascending(new.replay) /\ Ascending(new.replayed)
    BY <1>1, <1>2, <1>3, <1>4, AscendingRest, AscendingAppend DEF ReplayInv, Ahead
<1>9. ASSUME NEW i \in DOMAIN rest, rest[i].by = msg.by
      PROVE  msg.sequence < rest[i].sequence
    <2> HIDE DEF rest
    <2>1. i + k \in DOMAIN old.replay /\ rest[i] = old.replay[i + k] /\ k < i + k
        BY <1>2, <1>6
    <2> QED BY <1>1, <1>3, <1>9, <2>1 DEF ReplayInv, Ascending
<1>10. k \in DOMAIN old.replay
    BY <1>1
<1> HIDE DEF rest
<1>11. \A i \in DOMAIN new.replay : \E j \in DOMAIN old.replay : new.replay[i] = old.replay[j]
    BY <1>4, <1>6
<1>12. Ahead(new.replayed, new.replay)
    BY <1>3, <1>4, <1>6, <1>7, <1>9 DEF ReplayInv, Ahead
<1>13. Announced(new.replay)' /\ Announced(new.replayed)'
    <2>1. Announced(old.replay) /\ Announced(old.replayed)
        BY <1>3 DEF ReplayInv
    <2>2. Announced(new.replay)
        BY <1>11, <2>1 DEF Announced
    <2>3. Announced(new.replayed)
        BY <1>7, <1>10, <2>1 DEF Announced
    <2> QED BY <1>5, <2>2, <2>3, AnnouncedKept
<1>14. ReplayInv(new)'
    BY <1>8, <1>12, <1>13 DEF ReplayInv
<1>15. LiveInv(new)'
    BY <1>3, <1>4, <1>5 DEF LiveInv, Ascending
<1>16. JoinInv(new)'
    <2>1. UpTo(new.replayed, new.live) /\ UpTo(new.replay, new.live)
        BY <1>3, <1>4, <1>7, <1>10, <1>11 DEF JoinInv, UpTo
    <2>2. new.at = "open" => \A i \in DOMAIN sender :
              i >= new.next =>
                  /\ \A j \in DOMAIN new.replayed : new.replayed[j].by = sender[i].by
                                    => new.replayed[j].sequence <= sender[i].sequence
                  /\ \A j \in DOMAIN new.replay : new.replay[j].by = sender[i].by
                                    => new.replay[j].sequence <= sender[i].sequence
        BY <1>3, <1>4, <1>7, <1>10, <1>11 DEF JoinInv
    <2> QED BY <1>5, <2>1, <2>2 DEF JoinInv
<1> QED BY <1>14, <1>15, <1>16

\* A message that comes out of the channel is newer than those that came before.
LEMMA DeliverLiveClient ==
    ASSUME OrderInv, NEW c \in Subscribers, DeliverLive(c),
           NEW old, old = conn[c], NEW new, new = conn'[c]
    PROVE  (ReplayInv(new) /\ LiveInv(new) /\ JoinInv(new))'
<1> USE DEF OrderInv
<1> DEFINE msg == sender[old.next]
<1>1. ReplayInv(old) /\ LiveInv(old) /\ JoinInv(old)
    BY DEF ClientInv
<1>2. /\ old.at = "open" /\ old.next \in 1 .. Len(sender) /\ sender \in Seq(Message)
      /\ DOMAIN sender = 1 .. Len(sender) /\ old.next \in Nat /\ Len(sender) \in Nat
    BY ConnParts, LenProperties DEF DeliverLive, Oldest, StreamTypeOK, Sequences1
<1>3. msg \in Message /\ old.live \in Seq(Message)
    BY <1>2, ElementOfSeq, ConnParts
<1>4. /\ new.at = old.at /\ new.next = old.next + 1 /\ new.live = Append(old.live, msg)
      /\ new.replay = old.replay /\ new.replayed = old.replayed
    BY ConnParts DEF DeliverLive, StreamTypeOK, Connection
<1>5. publishing' = publishing /\ sender' = sender
    BY DEF DeliverLive
<1>6. \A i \in DOMAIN new.live :
          \/ i \in DOMAIN old.live /\ new.live[i] = old.live[i]
          \/ i = Len(old.live) + 1 /\ new.live[i] = msg
    BY <1>3, <1>4, AppendElements
<1>7. \A i \in DOMAIN old.live : old.live[i].by = msg.by => old.live[i].sequence < msg.sequence
    BY <1>1, <1>2 DEF LiveInv, SentInv, SentInOrder
<1>8. Ascending(new.live)
    BY <1>1, <1>3, <1>4, <1>7, AscendingAppend DEF LiveInv
<1>9. \A j \in DOMAIN new.live : \E i \in DOMAIN sender : i < new.next /\ new.live[j] = sender[i]
    <2> TAKE j \in DOMAIN new.live
    <2>1. CASE j \in DOMAIN old.live /\ new.live[j] = old.live[j]
        <3>1. PICK i \in DOMAIN sender : i < old.next /\ old.live[j] = sender[i]
            BY <1>1, <2>1 DEF LiveInv
        <3>2. i < new.next
            BY <1>2, <1>4, <3>1
        <3> QED BY <2>1, <3>1, <3>2
    <2>2. CASE new.live[j] = msg
        <3>1. old.next \in DOMAIN sender /\ old.next < new.next
            BY <1>2, <1>4
        <3> QED BY <2>2, <3>1
    <2> QED BY <1>6, <2>1, <2>2
<1>10. LiveInv(new)'
    BY <1>5, <1>8, <1>9 DEF LiveInv, Ascending
<1>11. ReplayInv(new)'
    <2>1. Announced(new.replay)' /\ Announced(new.replayed)'
        BY <1>1, <1>4, <1>5, AnnouncedKept DEF ReplayInv
    <2>2. Ascending(new.replayed) /\ Ascending(new.replay) /\ Ahead(new.replayed, new.replay)
        BY <1>1, <1>4 DEF ReplayInv
    <2> QED BY <2>1, <2>2 DEF ReplayInv
<1>12. /\ \A j \in DOMAIN old.replayed : old.replayed[j].by = msg.by
             => old.replayed[j].sequence <= msg.sequence
       /\ \A j \in DOMAIN old.replay : old.replay[j].by = msg.by
             => old.replay[j].sequence <= msg.sequence
    BY <1>1, <1>2 DEF JoinInv
<1> HIDE DEF msg
<1>13. UpTo(new.replayed, new.live) /\ UpTo(new.replay, new.live)
    BY <1>1, <1>4, <1>6, <1>12 DEF JoinInv, UpTo
<1>14. \A i \in DOMAIN sender : i >= new.next => i >= old.next
    BY <1>2, <1>4
<1>15. new.at = "open" => \A i \in DOMAIN sender :
          i >= new.next =>
              /\ \A j \in DOMAIN new.replayed : new.replayed[j].by = sender[i].by
                                => new.replayed[j].sequence <= sender[i].sequence
              /\ \A j \in DOMAIN new.replay : new.replay[j].by = sender[i].by
                                => new.replay[j].sequence <= sender[i].sequence
    BY <1>1, <1>4, <1>14 DEF JoinInv
<1>16. JoinInv(new)'
    BY <1>5, <1>13, <1>15 DEF JoinInv, UpTo
<1> QED BY <1>10, <1>11, <1>16

\* What is said of a connection speaks of nothing but it, the publishers and the
\* channel.
LEMMA ClientFrame ==
    ASSUME NEW k, ReplayInv(k) /\ LiveInv(k) /\ JoinInv(k),
           publishing' = publishing, sender' = sender
    PROVE  (ReplayInv(k) /\ LiveInv(k) /\ JoinInv(k))'
<1>1. Announced(k.replay)' /\ Announced(k.replayed)'
    BY AnnouncedKept DEF ReplayInv
<1>2. ReplayInv(k)'
    BY <1>1 DEF ReplayInv
<1>3. LiveInv(k)' /\ JoinInv(k)'
    BY DEF LiveInv, JoinInv
<1> QED BY <1>2, <1>3

\* The other steps of a client: it copies the ring, registers its receiver, falls
\* behind or goes away.
LEMMA ConnectClient ==
    ASSUME OrderInv, NEW c \in Subscribers,
           SnapshotRing(c) \/ OpenReceiver(c) \/ SkipLagged(c) \/ Disconnect(c),
           NEW old, old = conn[c], NEW new, new = conn'[c]
    PROVE  (ReplayInv(new) /\ LiveInv(new) /\ JoinInv(new))'
<1> USE DEF OrderInv
<1>1. ReplayInv(old) /\ LiveInv(old) /\ JoinInv(old)
    BY DEF ClientInv
<1>2. /\ DOMAIN sender = 1 .. Len(sender) /\ Len(sender) \in Nat /\ old.next \in Nat
      /\ old \in Connection /\ conn \in [Subscribers -> Connection]
    BY ConnParts, LenProperties DEF StreamTypeOK, Sequences1
<1>3. publishing' = publishing /\ sender' = sender
    BY DEF SnapshotRing, OpenReceiver, SkipLagged, Disconnect
<1>4. CASE SnapshotRing(c)
    <2>1. /\ new.at = "subscribing" /\ new.replay = ring /\ new.replayed = <<>>
          /\ new.live = <<>>
        BY <1>2, <1>4 DEF SnapshotRing, Opening
    <2>2. DOMAIN new.replayed = {} /\ DOMAIN new.live = {}
        BY <2>1
    <2> QED BY <1>3, <2>1, <2>2
            DEF RingInv, ReplayInv, LiveInv, JoinInv, Ascending, Ahead, UpTo, Announced
<1>5. CASE Disconnect(c)
    <2>1. /\ new.at = "closed" /\ new.replay = <<>> /\ new.replayed = <<>> /\ new.live = <<>>
        BY <1>2, <1>5 DEF Disconnect, Closed
    <2>2. DOMAIN new.replay = {} /\ DOMAIN new.replayed = {} /\ DOMAIN new.live = {}
        BY <2>1
    <2> QED BY <2>1, <2>2
            DEF ReplayInv, LiveInv, JoinInv, Ascending, Ahead, UpTo, Announced
<1>6. CASE OpenReceiver(c) \/ SkipLagged(c)
    <2>1. /\ new.replay = old.replay /\ new.replayed = old.replayed /\ new.live = old.live
        BY <1>2, <1>6 DEF OpenReceiver, SkipLagged, Connection
    <2>2. ReplayInv(new)'
        <3>1. Announced(new.replay)' /\ Announced(new.replayed)'
            BY <1>1, <1>3, <2>1, AnnouncedKept DEF ReplayInv
        <3>2. Ascending(new.replayed) /\ Ascending(new.replay) /\ Ahead(new.replayed, new.replay)
            BY <1>1, <2>1 DEF ReplayInv
        <3> QED BY <3>1, <3>2 DEF ReplayInv
    <2>3. CASE OpenReceiver(c)
        <3>1. new.next = Len(sender) + 1 /\ new.at = "open"
            BY <1>2, <2>3 DEF OpenReceiver, Connection
        <3>2. LiveInv(new)'
            BY <1>1, <1>2, <1>3, <2>1, <3>1 DEF LiveInv, Ascending
        <3>3. JoinInv(new)'
            BY <1>1, <1>2, <1>3, <2>1, <3>1 DEF JoinInv, UpTo
        <3> QED BY <2>2, <3>2, <3>3
    <2>4. CASE SkipLagged(c)
        <3>1. new.next = Oldest /\ old.next < Oldest /\ new.at = old.at /\ Oldest \in Nat
            BY <1>2, <2>4, SizesAssumption DEF SkipLagged, Connection, Oldest
        <3>2. LiveInv(new)'
            BY <1>1, <1>2, <1>3, <2>1, <3>1 DEF LiveInv, Ascending
        <3>3. JoinInv(new)'
            BY <1>1, <1>2, <1>3, <2>1, <3>1 DEF JoinInv, UpTo
        <3> QED BY <2>2, <3>2, <3>3
    <2> QED BY <1>6, <2>3, <2>4
<1> QED BY <1>4, <1>5, <1>6

LEMMA OrderStep ==
    ASSUME OrderInv, [StreamNext]_streamVars
    PROVE  OrderInv'
<1>1. StreamTypeOK' /\ Numbered' /\ SentInv' /\ RingInv'
    BY NextType, SentStep, RingStep DEF OrderInv
<1>2. ASSUME NEW c \in Subscribers, Client(c) PROVE ClientInv'
    <2>1. ASSUME NEW d \in Subscribers \ {c}
          PROVE  (ReplayInv(conn[d]) /\ LiveInv(conn[d]) /\ JoinInv(conn[d]))'
        <3>1. conn'[d] = conn[d] /\ publishing' = publishing /\ sender' = sender
            BY <1>2 DEF Client, SnapshotRing, OpenReceiver, DeliverReplay, DeliverLive,
               SkipLagged, Disconnect, OrderInv, StreamTypeOK
        <3>2. ReplayInv(conn[d]) /\ LiveInv(conn[d]) /\ JoinInv(conn[d])
            BY DEF OrderInv, ClientInv
        <3>3. ASSUME NEW k, k = conn[d] PROVE (ReplayInv(k) /\ LiveInv(k) /\ JoinInv(k))'
            BY <3>1, <3>2, <3>3, ClientFrame
        <3> QED BY <3>1, <3>3 DEF ReplayInv, LiveInv, JoinInv, Announced
    <2>2. (ReplayInv(conn[c]) /\ LiveInv(conn[c]) /\ JoinInv(conn[c]))'
        <3>1. ASSUME NEW old, old = conn[c], NEW new, new = conn'[c]
              PROVE  (ReplayInv(new) /\ LiveInv(new) /\ JoinInv(new))'
            BY <1>2, <3>1, DeliverReplayClient, DeliverLiveClient, ConnectClient DEF Client
        <3> QED BY <3>1 DEF ReplayInv, LiveInv, JoinInv, Announced
    <2> QED BY <2>1, <2>2 DEF ClientInv
<1>3. ASSUME NEW p \in Producers, Publish(p) PROVE ClientInv'
    BY <1>3, PublishClients
<1>4. CASE UNCHANGED streamVars
    <2>1. conn' = conn /\ publishing' = publishing /\ sender' = sender
        BY <1>4 DEF streamVars, clientVars
    <2>2. ASSUME NEW c \in Subscribers
          PROVE  (ReplayInv(conn[c]) /\ LiveInv(conn[c]) /\ JoinInv(conn[c]))'
        <3>1. ReplayInv(conn[c]) /\ LiveInv(conn[c]) /\ JoinInv(conn[c])
            BY DEF OrderInv, ClientInv
        <3>2. ASSUME NEW k, k = conn[c] PROVE (ReplayInv(k) /\ LiveInv(k) /\ JoinInv(k))'
            BY <2>1, <3>1, <3>2, ClientFrame
        <3> QED BY <2>1, <3>2 DEF ReplayInv, LiveInv, JoinInv, Announced
    <2>3. ClientInv'
        BY <2>2 DEF ClientInv
    <2> QED BY <1>1, <2>3 DEF OrderInv
<1> QED BY <1>1, <1>2, <1>3, <1>4 DEF StreamNext, OrderInv

LEMMA OrderInit == StreamInit => OrderInv
<1> SUFFICES ASSUME StreamInit PROVE OrderInv
    OBVIOUS
<1>1. StreamTypeOK /\ Numbered /\ SentInv
    BY InitType DEF StreamInit, Numbered, SentInv, SentInOrder, Drawn
<1>2. RingInv
    BY DEF StreamInit, RingInv, Ascending, Announced
<1>3. ClientInv
    <2>1. ASSUME NEW c \in Subscribers
          PROVE  /\ DOMAIN conn[c].replay = {} /\ DOMAIN conn[c].replayed = {}
                 /\ DOMAIN conn[c].live = {} /\ conn[c].at = "closed"
        BY DEF StreamInit, Closed
    <2> QED BY <2>1 DEF ClientInv, ReplayInv, LiveInv, JoinInv, Ascending, Ahead, UpTo, Announced
<1> QED BY <1>1, <1>2, <1>3 DEF OrderInv

\* What the invariant says of the whole of what a connection was given.
LEMMA OrderDelivered == OrderInv => ProducerOrder
<1> SUFFICES ASSUME OrderInv, NEW c \in Subscribers,
                    NEW i \in DOMAIN Delivered(c), NEW j \in DOMAIN Delivered(c),
                    i < j, Delivered(c)[i].by = Delivered(c)[j].by
             PROVE  \/ Delivered(c)[i].sequence < Delivered(c)[j].sequence
                    \/ /\ Delivered(c)[i] = Delivered(c)[j]
                       /\ i <= Len(conn[c].replayed) /\ j > Len(conn[c].replayed)
    BY DEF ProducerOrder
<1> DEFINE A == conn[c].replayed
           B == conn[c].live
           n == Len(A)
           got == Delivered(c)
<1>1. A \in Seq(Message) /\ B \in Seq(Message) /\ n \in Nat /\ Len(B) \in Nat
      /\ DOMAIN A = 1 .. n /\ DOMAIN B = 1 .. Len(B)
    BY ConnParts, LenProperties DEF OrderInv
<1>2. /\ Ascending(A) /\ Ascending(B) /\ UpTo(A, B)
    BY DEF OrderInv, ClientInv, ReplayInv, LiveInv, JoinInv
<1>a. got = A \o B
    BY DEF Delivered
<1> HIDE DEF A, B, got
<1>3. got \in Seq(Message) /\ Len(got) = n + Len(B) /\ DOMAIN got = 1 .. n + Len(B)
      /\ \A k \in 1 .. n + Len(B) : got[k] = IF k <= n THEN A[k] ELSE B[k - n]
    BY <1>1, <1>a, ConcatProperties, LenProperties
<1>4. i \in 1 .. n + Len(B) /\ j \in 1 .. n + Len(B)
    BY <1>3 DEF got
<1> HIDE DEF n
<1>5. CASE j <= n
    <2>1. i \in DOMAIN A /\ j \in DOMAIN A /\ got[i] = A[i] /\ got[j] = A[j]
        BY <1>1, <1>3, <1>4, <1>5
    <2> QED BY <1>2, <2>1 DEF Ascending, got
<1>6. CASE i > n
    <2>1. /\ i - n \in DOMAIN B /\ j - n \in DOMAIN B /\ i - n < j - n
          /\ got[i] = B[i - n] /\ got[j] = B[j - n]
        BY <1>1, <1>3, <1>4, <1>6
    <2> QED BY <1>2, <2>1 DEF Ascending, got
<1>7. CASE i <= n /\ j > n
    <2>1. /\ i \in DOMAIN A /\ j - n \in DOMAIN B /\ got[i] = A[i] /\ got[j] = B[j - n]
          /\ A[i] \in Message /\ B[j - n] \in Message
        BY <1>1, <1>3, <1>4, <1>7, ElementOfSeq
    <2>2. A[i].sequence <= B[j - n].sequence
        BY <1>2, <2>1 DEF UpTo, got
    <2>3. A[i].sequence = B[j - n].sequence => A[i] = B[j - n]
        BY <2>1 DEF Message, got
    <2> QED BY <1>7, <2>1, <2>2, <2>3 DEF Message, Sequences1, got, n, A
<1> QED BY <1>1, <1>4, <1>5, <1>6, <1>7

\* One connection never sees the messages of one task out of order, and sees one
\* twice only when it was in the ring but not yet sent: subscribe() copies the ring
\* before it registers the receiver, and each task pushes before it sends.
THEOREM DeliveryOrder == StreamSpec => []ProducerOrder
<1>1. OrderInv /\ [StreamNext]_streamVars => OrderInv'
    BY OrderStep
<1> QED BY <1>1, OrderInit, OrderDelivered, PTL DEF StreamSpec

-----------------------------------------------------------------------------
(* What the ring still holds.                                               *)

Distinct(s) == \A i, j \in DOMAIN s : s[i].sequence = s[j].sequence => i = j

\* When a task draws a number, all that is in the ring has been drawn: behind a
\* message of a task, that task's next one is newer than all before the two.
Late(s) ==
    \A i, j, k \in DOMAIN s :
        i <= j /\ j < k /\ s[j].by = s[k].by => s[i].sequence < s[k].sequence

Numbers(s, n) == \A i \in DOMAIN s : s[i].sequence <= n

\* The same of the numbers that are drawn and not yet in the ring.
Waiting(s, tasks) ==
    /\ \A p \in Producers : tasks[p].at = "push" =>
          /\ \A i \in DOMAIN s : s[i].sequence # tasks[p].sequence
          /\ \A i, j \in DOMAIN s :
                i <= j /\ s[j].by = p => s[i].sequence < tasks[p].sequence
    /\ \A p, q \in Producers :
          /\ tasks[p].at = "push" /\ tasks[q].at = "push"
          /\ tasks[p].sequence = tasks[q].sequence
          => p = q

Kept(msg) ==
    msg.sequence + RingSize > sequence + Cardinality(Producers) - 1
        => \E j \in DOMAIN ring : ring[j] = msg

LateInv ==
    Distinct(ring) /\ Late(ring) /\ Numbers(ring, sequence) /\ Waiting(ring, publishing)

KeptInv ==
    /\ \A i \in DOMAIN sender : Kept(sender[i])
    /\ \A p \in Producers : publishing[p].at = "send" => Kept(Envelope(p))

WindowInv == StreamTypeOK /\ Numbered /\ SentInv /\ LateInv /\ KeptInv

\* The oldest of RingSize + 1 messages is older than nearly all numbers drawn: the
\* ones behind it that are older still belong to different other tasks, one each.
LEMMA Evicted ==
    ASSUME NEW s \in Seq(Message), Len(s) = RingSize + 1, Distinct(s), Late(s),
           sequence \in Nat, Numbers(s, sequence)
    PROVE  s[1].sequence + RingSize <= sequence + Cardinality(Producers) - 1
<1> DEFINE first == s[1]
           Behind == 2 .. RingSize + 1
           Older == {k \in Behind : s[k].sequence < first.sequence}
           Newer == Behind \ Older
           Others == Producers \ {first.by}
           Between == first.sequence + 1 .. sequence
<1>1. /\ RingSize \in Nat /\ RingSize > 0 /\ DOMAIN s = 1 .. RingSize + 1
      /\ 1 \in DOMAIN s /\ Behind \subseteq DOMAIN s
      /\ \A k \in DOMAIN s : s[k].sequence \in Nat /\ s[k].by \in Producers
    <2>1. RingSize \in Nat /\ RingSize > 0 /\ DOMAIN s = 1 .. RingSize + 1
        BY SizesAssumption, LenProperties
    <2>2. \A k \in DOMAIN s : s[k] \in Message
        BY ElementOfSeq, LenProperties
    <2> QED BY <2>1, <2>2 DEF Message, Sequences1
<1>2. IsFiniteSet(Behind) /\ Cardinality(Behind) = RingSize
    BY <1>1, FS_Interval
<1>3. /\ IsFiniteSet(Others) /\ Cardinality(Others) = Cardinality(Producers) - 1
      /\ Cardinality(Producers) \in Nat
    BY <1>1, ProducersAssumption, FS_RemoveElement, FS_CardinalityType
<1>4. IsFiniteSet(Between) /\ Cardinality(Between) = sequence - first.sequence
    <2>1. first.sequence \in Nat /\ first.sequence <= sequence
        BY <1>1 DEF Numbers
    <2>2. first.sequence + 1 \in Int /\ sequence \in Int
        BY <2>1
    <2>3. /\ IsFiniteSet(Between)
          /\ Cardinality(Between) = IF first.sequence + 1 > sequence THEN 0
                                    ELSE sequence - (first.sequence + 1) + 1
        BY <2>2, FS_Interval
    <2> HIDE DEF Between, first
    <2> QED BY <2>1, <2>3
<1>5. \A k \in Older : s[k].by \in Others
    <2> SUFFICES ASSUME NEW k \in Older, s[k].by = first.by PROVE FALSE
        BY <1>1
    <2>1. k \in DOMAIN s /\ 1 < k
        BY <1>1
    <2>2. first.sequence < s[k].sequence
        BY <1>1, <2>1 DEF Late
    <2> QED BY <1>1, <2>1, <2>2
<1>6. \A j, k \in Older : s[j].by = s[k].by => j = k
    <2>1. ASSUME NEW j \in Older, NEW k \in Older, j < k, s[j].by = s[k].by PROVE FALSE
        <3>1. j \in DOMAIN s /\ k \in DOMAIN s /\ 1 <= j
            BY <1>1
        <3>2. first.sequence < s[k].sequence
            BY <1>1, <2>1, <3>1 DEF Late
        <3> QED BY <1>1, <3>1, <3>2
    <2>2. \A j, k \in Older : j < k \/ j = k \/ k < j
        BY <1>1
    <2> QED BY <2>1, <2>2
<1>7. IsFiniteSet(Older) /\ Cardinality(Older) <= Cardinality(Others)
    <2> DEFINE f == [k \in Older |-> s[k].by]
    <2>1. f \in Injection(Older, Others)
        <3> HIDE DEF Older, Others
        <3>1. f \in [Older -> Others] /\ \A j, k \in Older : f[j] = f[k] => j = k
            BY <1>5, <1>6
        <3> HIDE DEF f
        <3> QED BY <3>1, Fun_IsInj
    <2> HIDE DEF f, Older, Others
    <2> QED BY <1>3, <2>1, FS_Injection
<1>8. \A k \in Newer : s[k].sequence \in Between
    <2> SUFFICES ASSUME NEW k \in Newer PROVE s[k].sequence \in Between
        OBVIOUS
    <2>1. k \in DOMAIN s /\ k # 1 /\ ~ (s[k].sequence < first.sequence)
        BY <1>1
    <2>2. s[k].sequence # first.sequence /\ s[k].sequence <= sequence
        BY <1>1, <2>1 DEF Distinct, Numbers
    <2> QED BY <1>1, <2>1, <2>2
<1>9. \A j, k \in Newer : s[j].sequence = s[k].sequence => j = k
    BY <1>1 DEF Distinct
<1>10. IsFiniteSet(Newer) /\ Cardinality(Newer) <= Cardinality(Between)
    <2> DEFINE f == [k \in Newer |-> s[k].sequence]
    <2>1. f \in Injection(Newer, Between)
        <3> HIDE DEF Newer, Between
        <3>1. f \in [Newer -> Between] /\ \A j, k \in Newer : f[j] = f[k] => j = k
            BY <1>8, <1>9
        <3> HIDE DEF f
        <3> QED BY <3>1, Fun_IsInj
    <2> HIDE DEF f, Newer, Between
    <2> QED BY <1>4, <2>1, FS_Injection
<1>11. Cardinality(Behind) = Cardinality(Older) + Cardinality(Newer)
    <2>1. Older \cup Newer = Behind /\ Older \cap Newer = {}
        OBVIOUS
    <2> HIDE DEF Older, Newer, Behind
    <2>2. /\ Cardinality(Behind)
                = Cardinality(Older) + Cardinality(Newer) - Cardinality(Older \cap Newer)
          /\ Cardinality(Older \cap Newer) = 0
        BY <1>7, <1>10, <2>1, FS_Union, FS_EmptySet
    <2>3. Cardinality(Older) \in Nat /\ Cardinality(Newer) \in Nat
        BY <1>7, <1>10, FS_CardinalityType
    <2> QED BY <2>2, <2>3
<1>12. Cardinality(Older) \in Nat /\ Cardinality(Newer) \in Nat /\ first.sequence \in Nat
    BY <1>1, <1>7, <1>10, FS_CardinalityType
<1> HIDE DEF first, Behind, Older, Newer, Others, Between
<1>13. first.sequence + RingSize <= sequence + Cardinality(Producers) - 1
    BY <1>1, <1>2, <1>3, <1>4, <1>7, <1>10, <1>11, <1>12
<1> QED BY <1>13 DEF first

LEMMA LateAppend ==
    ASSUME NEW s \in Seq(Message), NEW msg \in Message, Distinct(s), Late(s),
           \A i \in DOMAIN s : s[i].sequence # msg.sequence,
           \A i, j \in DOMAIN s : i <= j /\ s[j].by = msg.by => s[i].sequence < msg.sequence
    PROVE  Distinct(Append(s, msg)) /\ Late(Append(s, msg))
<1> DEFINE longer == Append(s, msg)
<1>1. /\ Len(s) \in Nat /\ DOMAIN longer = 1 .. Len(s) + 1 /\ DOMAIN s = 1 .. Len(s)
      /\ \A i \in 1 .. Len(s) : longer[i] = s[i]
      /\ longer[Len(s) + 1] = msg
    BY AppendProperties, LenProperties
<1> HIDE DEF longer
<1>2. Distinct(longer)
    BY <1>1 DEF Distinct
<1>3. Late(longer)
    BY <1>1 DEF Late
<1> QED BY <1>2, <1>3 DEF longer

\* All of it holds of the ring without its oldest message.
LEMMA LateRest ==
    ASSUME NEW s \in Seq(Message), s # <<>>, Distinct(s), Late(s),
           NEW n, Numbers(s, n), NEW tasks, Waiting(s, tasks)
    PROVE  Distinct(Tail(s)) /\ Late(Tail(s)) /\ Numbers(Tail(s), n) /\ Waiting(Tail(s), tasks)
<1> DEFINE rest == Tail(s)
<1>1. 1 \in DOMAIN s /\ rest = SubSeq(s, 1 + 1, Len(s))
    BY LenProperties, TailIsSubSeq
<1>2. \A i \in DOMAIN rest : i \in Nat \ {0} /\ i + 1 \in DOMAIN s /\ rest[i] = s[i + 1]
    BY <1>1, RestElements
<1> HIDE DEF rest
<1>3. Distinct(rest)
    BY <1>2 DEF Distinct
<1>4. Late(rest)
    <2> SUFFICES ASSUME NEW i \in DOMAIN rest, NEW j \in DOMAIN rest, NEW k \in DOMAIN rest,
                        i <= j, j < k, rest[j].by = rest[k].by
                 PROVE  rest[i].sequence < rest[k].sequence
        BY DEF Late
    <2>1. i + 1 <= j + 1 /\ j + 1 < k + 1 /\ s[j + 1].by = s[k + 1].by
        BY <1>2
    <2>2. s[i + 1].sequence < s[k + 1].sequence
        BY <1>2, <2>1 DEF Late
    <2> QED BY <1>2, <2>2
<1>5. Numbers(rest, n)
    BY <1>2 DEF Numbers
<1>6. Waiting(rest, tasks)
    <2>1. ASSUME NEW p \in Producers, tasks[p].at = "push",
                 NEW i \in DOMAIN rest, NEW j \in DOMAIN rest, i <= j, rest[j].by = p
          PROVE  rest[i].sequence < tasks[p].sequence
        <3>1. i + 1 \in DOMAIN s /\ j + 1 \in DOMAIN s /\ i + 1 <= j + 1 /\ s[j + 1].by = p
            BY <1>2, <2>1
        <3>2. s[i + 1].sequence < tasks[p].sequence
            BY <2>1, <3>1 DEF Waiting
        <3> QED BY <1>2, <3>2
    <2>2. ASSUME NEW p \in Producers, tasks[p].at = "push", NEW i \in DOMAIN rest
          PROVE  rest[i].sequence # tasks[p].sequence
        BY <1>2, <2>2 DEF Waiting
    <2>3. \A p, q \in Producers :
              /\ tasks[p].at = "push" /\ tasks[q].at = "push"
              /\ tasks[p].sequence = tasks[q].sequence
              => p = q
        BY DEF Waiting
    <2> QED BY <2>1, <2>2, <2>3 DEF Waiting
<1> QED BY <1>3, <1>4, <1>5, <1>6 DEF rest

\* A task draws a number that is newer than all others.
LEMMA DrawLate ==
    ASSUME WindowInv, NEW p \in Producers, FetchAdd(p)
    PROVE  LateInv'
<1> USE DEF WindowInv
<1>1. /\ ring' = ring /\ sequence' = sequence + 1 /\ sequence \in Nat
      /\ publishing \in [Producers -> Publishing]
      /\ publishing' = [publishing EXCEPT ![p] = [at |-> "push", sequence |-> sequence + 1]]
      /\ \A i \in DOMAIN ring : ring[i].sequence \in Nat
    <2>1. \A i \in DOMAIN ring : ring[i] \in Message
        BY ElementOfSeq, LenProperties DEF StreamTypeOK
    <2> QED BY <2>1 DEF FetchAdd, StreamTypeOK, Message, Sequences1
<1>2. /\ publishing'[p].at = "push" /\ publishing'[p].sequence = sequence + 1
      /\ \A q \in Producers \ {p} : publishing'[q] = publishing[q]
    BY <1>1
<1>3. \A q \in Producers : publishing[q].sequence \in Nat /\ publishing[q].sequence <= sequence
    BY <1>1 DEF SentInv, Drawn, Publishing
<1>4. \A i \in DOMAIN ring : ring[i].sequence < sequence + 1
    BY <1>1 DEF LateInv, Numbers
<1>5. Numbers(ring', sequence')
    BY <1>1, <1>4 DEF Numbers
<1>6. Waiting(ring', publishing')
    BY <1>1, <1>2, <1>3, <1>4 DEF LateInv, Waiting
<1> QED BY <1>1, <1>5, <1>6 DEF LateInv, Distinct, Late

\* The state of the ring after a push.
LEMMA PushLate ==
    ASSUME WindowInv, NEW p \in Producers, PushRing(p)
    PROVE  LET longer == Append(ring, Envelope(p)) IN
           /\ longer \in Seq(Message) /\ Len(longer) = Len(ring) + 1
           /\ Distinct(longer) /\ Late(longer)
           /\ Numbers(longer, sequence') /\ Waiting(longer, publishing')
<1> USE DEF WindowInv
<1> DEFINE msg == Envelope(p)
           longer == Append(ring, msg)
<1>1. /\ msg \in Message /\ msg.by = p /\ msg.sequence = publishing[p].sequence
      /\ ring \in Seq(Message)
    BY EnvelopeType DEF PushRing, Numbered, Envelope, StreamTypeOK
<1>2. /\ publishing[p].at = "push" /\ publishing'[p].at = "send"
      /\ \A q \in Producers \ {p} : publishing'[q] = publishing[q]
      /\ sequence' = sequence
    BY DEF PushRing, StreamTypeOK, Publishing
<1>3. publishing[p].sequence <= sequence
    BY DEF SentInv, Drawn
<1> HIDE DEF msg
<1>4. longer \in Seq(Message) /\ Len(longer) = Len(ring) + 1
    BY <1>1, AppendProperties
<1>5. Distinct(longer) /\ Late(longer)
    <2>1. /\ \A i \in DOMAIN ring : ring[i].sequence # msg.sequence
          /\ \A i, j \in DOMAIN ring : i <= j /\ ring[j].by = msg.by => ring[i].sequence < msg.sequence
        BY <1>1, <1>2 DEF LateInv, Waiting
    <2> QED BY <1>1, <2>1, LateAppend DEF LateInv
<1>6. /\ \A i \in DOMAIN longer :
              \/ i \in DOMAIN ring /\ longer[i] = ring[i]
              \/ i = Len(ring) + 1 /\ longer[i] = msg
      /\ DOMAIN ring = 1 .. Len(ring) /\ DOMAIN longer = 1 .. Len(ring) + 1 /\ Len(ring) \in Nat
    BY <1>1, AppendElements, AppendProperties, LenProperties
<1> HIDE DEF longer
<1>7. Numbers(longer, sequence')
    BY <1>1, <1>2, <1>3, <1>6 DEF LateInv, Numbers
<1>8. Waiting(longer, publishing')
    <2>1. ASSUME NEW q \in Producers, publishing'[q].at = "push", NEW i \in DOMAIN longer
          PROVE  longer[i].sequence # publishing'[q].sequence
        BY <1>1, <1>2, <1>6, <2>1 DEF LateInv, Waiting
    <2>2. ASSUME NEW q \in Producers, publishing'[q].at = "push",
                 NEW i \in DOMAIN longer, NEW j \in DOMAIN longer, i <= j, longer[j].by = q
          PROVE  longer[i].sequence < publishing'[q].sequence
        <3>1. q # p
            BY <1>2, <2>2
        <3>2. j \in DOMAIN ring /\ longer[j] = ring[j]
            BY <1>1, <1>6, <2>2, <3>1
        <3>3. i \in DOMAIN ring /\ longer[i] = ring[i]
            BY <1>6, <2>2, <3>2
        <3> QED BY <1>2, <2>2, <3>1, <3>2, <3>3 DEF LateInv, Waiting
    <2>3. \A q, r \in Producers :
              /\ publishing'[q].at = "push" /\ publishing'[r].at = "push"
              /\ publishing'[q].sequence = publishing'[r].sequence
              => q = r
        BY <1>2 DEF LateInv, Waiting
    <2> QED BY <2>1, <2>2, <2>3 DEF Waiting
<1> QED BY <1>4, <1>5, <1>7, <1>8 DEF longer, msg

LEMMA LateStep ==
    ASSUME WindowInv, [StreamNext]_streamVars
    PROVE  LateInv'
<1>1. ASSUME NEW p \in Producers, PushRing(p) PROVE LateInv'
    <2> DEFINE longer == Append(ring, Envelope(p))
    <2>1. /\ longer \in Seq(Message) /\ Len(longer) = Len(ring) + 1
          /\ Distinct(longer) /\ Late(longer)
          /\ Numbers(longer, sequence') /\ Waiting(longer, publishing')
        BY <1>1, PushLate
    <2>2. longer # <<>>
        <3>1. Len(ring) \in Nat
            BY LenProperties DEF WindowInv, StreamTypeOK
        <3> HIDE DEF longer
        <3> QED BY <2>1, <3>1
    <2>3. ring' = longer \/ ring' = Tail(longer)
        BY <1>1 DEF PushRing, Pushed
    <2> HIDE DEF longer
    <2>4. /\ Distinct(Tail(longer)) /\ Late(Tail(longer))
          /\ Numbers(Tail(longer), sequence') /\ Waiting(Tail(longer), publishing')
        BY <2>1, <2>2, LateRest
    <2> QED BY <2>1, <2>3, <2>4 DEF LateInv, Distinct, Late, Numbers, Waiting
<1>2. ASSUME NEW p \in Producers, Broadcast(p) \/ AbandonInject(p) PROVE LateInv'
    <2>1. /\ ring' = ring /\ sequence' = sequence
          /\ publishing'[p].at # "push"
          /\ \A q \in Producers \ {p} : publishing'[q] = publishing[q]
        BY <1>2 DEF Broadcast, AbandonInject, WindowInv, StreamTypeOK, Publishing
    <2>2. Waiting(ring', publishing')
        BY <2>1 DEF WindowInv, LateInv, Waiting
    <2> QED BY <2>1, <2>2 DEF WindowInv, LateInv, Distinct, Late, Numbers
<1>3. CASE UNCHANGED <<ring, sequence, publishing>>
    BY <1>3 DEF WindowInv, LateInv, Distinct, Late, Numbers, Waiting
<1>4. ASSUME NEW c \in Subscribers, Client(c) PROVE LateInv'
    BY <1>3, <1>4 DEF Client, SnapshotRing, OpenReceiver, DeliverReplay, DeliverLive,
       SkipLagged, Disconnect
<1>5. CASE UNCHANGED streamVars
    BY <1>3, <1>5 DEF streamVars
<1> QED BY <1>1, <1>2, <1>4, <1>5, DrawLate DEF StreamNext, Publish

\* A push evicts no message a client can count on, and the pushed one is in.
LEMMA PushKeeps ==
    ASSUME WindowInv, NEW p \in Producers, PushRing(p), NEW msg,
           msg = Envelope(p) \/ Kept(msg)
    PROVE  Kept(msg)'
<1> DEFINE longer == Append(ring, Envelope(p))
           counted == msg.sequence + RingSize > sequence + Cardinality(Producers) - 1
<1>1. /\ longer \in Seq(Message) /\ Len(longer) = Len(ring) + 1
      /\ Distinct(longer) /\ Late(longer) /\ Numbers(longer, sequence')
    BY PushLate
<1>2. /\ ring \in Seq(Message) /\ Len(ring) \in Nat /\ Len(ring) <= RingSize
      /\ sequence \in Nat /\ RingSize \in Nat /\ RingSize > 0 /\ sequence' = sequence
      /\ DOMAIN ring = 1 .. Len(ring) /\ DOMAIN longer = 1 .. Len(longer)
    BY <1>1, LenProperties, SizesAssumption DEF WindowInv, StreamTypeOK, PushRing
<1>3. counted => \E k \in DOMAIN longer : longer[k] = msg
    <2>1. Envelope(p) \in Message
        BY EnvelopeType DEF WindowInv, PushRing, Numbered
    <2>2. \A k \in 1 .. Len(ring) : longer[k] = ring[k]
        BY <1>2, <2>1, AppendProperties
    <2>3. longer[Len(ring) + 1] = Envelope(p)
        BY <1>2, <2>1, AppendProperties
    <2> HIDE DEF longer
    <2>4. CASE msg = Envelope(p)
        BY <1>1, <1>2, <2>3, <2>4
    <2>5. CASE Kept(msg)
        BY <1>1, <1>2, <2>2, <2>5 DEF Kept
    <2> QED BY <2>4, <2>5
<1>4. ring' = IF Len(longer) > RingSize THEN Tail(longer) ELSE longer
    BY DEF PushRing, Pushed
<1>5. ASSUME Len(longer) > RingSize, NEW k \in DOMAIN longer, longer[k] = msg, counted
      PROVE  \E j \in DOMAIN Tail(longer) : Tail(longer)[j] = msg
    <2>1. Len(longer) = RingSize + 1
        BY <1>1, <1>2, <1>5
    <2> HIDE DEF longer
    <2>2. longer[1].sequence + RingSize <= sequence + Cardinality(Producers) - 1
        BY <1>1, <1>2, <2>1, Evicted
    <2>3. longer[1].sequence \in Nat /\ Cardinality(Producers) \in Nat
        <3>1. longer[1] \in Message
            BY <1>1, <1>2, <2>1, ElementOfSeq
        <3> QED BY <3>1, ProducersAssumption, FS_CardinalityType DEF Message, Sequences1
    <2>4. k # 1
        BY <1>2, <1>5, <2>2, <2>3
    <2>5. longer # <<>>
        BY <1>2, <2>1, LenProperties
    <2>6. /\ Len(Tail(longer)) = RingSize /\ Tail(longer) \in Seq(Message)
          /\ \A i \in 1 .. Len(Tail(longer)) : Tail(longer)[i] = longer[i + 1]
        BY <1>1, <1>2, <2>1, <2>5, HeadTailProperties
    <2>7. k - 1 \in 1 .. RingSize /\ k - 1 + 1 = k
        BY <1>2, <2>1, <2>4
    <2>8. k - 1 \in DOMAIN Tail(longer) /\ Tail(longer)[k - 1] = msg
        BY <1>5, <2>6, <2>7, LenProperties
    <2> QED BY <2>8
<1>6. counted => \E j \in DOMAIN ring' : ring'[j] = msg
    <2> HIDE DEF longer, counted
    <2> QED BY <1>3, <1>4, <1>5
<1>7. counted <=> (msg.sequence + RingSize > sequence' + Cardinality(Producers) - 1)
    BY <1>2
<1> HIDE DEF counted
<1> QED BY <1>6, <1>7 DEF Kept

LEMMA KeptStep ==
    ASSUME WindowInv, [StreamNext]_streamVars
    PROVE  KeptInv'
<1>1. /\ sequence \in Nat /\ RingSize \in Nat /\ Cardinality(Producers) \in Nat
      /\ sender \in Seq(Message) /\ publishing \in [Producers -> Publishing]
      /\ \A i \in DOMAIN sender : sender[i] \in Message
    BY SizesAssumption, ProducersAssumption, FS_CardinalityType, ElementOfSeq, LenProperties
       DEF WindowInv, StreamTypeOK
<1>2. ASSUME NEW p \in Producers, FetchAdd(p) PROVE KeptInv'
    <2>1. /\ sender' = sender /\ ring' = ring /\ sequence' = sequence + 1
          /\ publishing' = [publishing EXCEPT ![p] = [at |-> "push", sequence |-> sequence + 1]]
        BY <1>2 DEF FetchAdd
    <2>2. ASSUME NEW i \in DOMAIN sender PROVE Kept(sender[i])'
        <3>1. Kept(sender[i]) /\ sender[i].sequence \in Nat
            BY <1>1 DEF WindowInv, KeptInv, Message, Sequences1
        <3> QED BY <1>1, <2>1, <3>1 DEF Kept
    <2>3. ASSUME NEW q \in Producers, publishing'[q].at = "send" PROVE Kept(Envelope(q))'
        <3>1. q # p /\ publishing'[q] = publishing[q]
            BY <1>1, <2>1, <2>3
        <3>2. Kept(Envelope(q)) /\ publishing[q].sequence \in Nat
            BY <1>1, <2>3, <3>1 DEF WindowInv, KeptInv, Publishing
        <3> QED BY <1>1, <2>1, <3>1, <3>2 DEF Kept, Envelope
    <2> QED BY <2>1, <2>2, <2>3 DEF KeptInv
<1>3. ASSUME NEW p \in Producers, PushRing(p) PROVE KeptInv'
    <2>1. /\ sender' = sender
          /\ \A q \in Producers : publishing'[q].sequence = publishing[q].sequence
          /\ \A q \in Producers \ {p} : publishing'[q] = publishing[q]
        BY <1>1, <1>3 DEF PushRing, Publishing
    <2>2. ASSUME NEW i \in DOMAIN sender PROVE Kept(sender[i])'
        <3>1. ASSUME NEW msg, msg = sender[i] PROVE Kept(msg)'
            BY <1>3, <3>1, PushKeeps DEF WindowInv, KeptInv
        <3> QED BY <2>1, <3>1 DEF Kept
    <2>3. ASSUME NEW q \in Producers, publishing'[q].at = "send" PROVE Kept(Envelope(q))'
        <3>1. ASSUME NEW msg, msg = Envelope(q) PROVE Kept(msg)'
            <4>1. msg = Envelope(p) \/ Kept(msg)
                BY <2>1, <2>3, <3>1 DEF WindowInv, KeptInv
            <4> QED BY <1>3, <4>1, PushKeeps
        <3>2. Envelope(q)' = Envelope(q)
            BY <2>1 DEF Envelope
        <3> QED BY <3>1, <3>2 DEF Kept
    <2> QED BY <2>1, <2>2, <2>3 DEF KeptInv
<1>4. ASSUME NEW p \in Producers, Broadcast(p) PROVE KeptInv'
    <2>1. /\ sender' = Append(sender, Envelope(p)) /\ ring' = ring /\ sequence' = sequence
          /\ publishing[p].at = "send" /\ publishing'[p].at = "idle"
          /\ \A q \in Producers \ {p} : publishing'[q] = publishing[q]
          /\ Envelope(p) \in Message
        BY <1>1, <1>4, EnvelopeType DEF Broadcast, WindowInv, Numbered, Publishing
    <2>2. \A i \in DOMAIN sender' :
              \/ sender'[i] = Envelope(p)
              \/ i \in DOMAIN sender /\ sender'[i] = sender[i]
        <3> DEFINE longer == Append(sender, Envelope(p))
        <3>1. \A i \in DOMAIN longer :
                  \/ i \in DOMAIN sender /\ longer[i] = sender[i]
                  \/ i = Len(sender) + 1 /\ longer[i] = Envelope(p)
            BY <1>1, <2>1, AppendElements
        <3>2. sender' = longer
            BY <2>1
        <3> HIDE DEF longer
        <3> QED BY <3>1, <3>2
    <2>3. ASSUME NEW i \in DOMAIN sender' PROVE Kept(sender'[i])
        BY <2>1, <2>2 DEF WindowInv, KeptInv
    <2>4. ASSUME NEW q \in Producers, publishing'[q].at = "send"
          PROVE  Kept(Envelope(q)) /\ Envelope(q)' = Envelope(q)
        BY <2>1, <2>4 DEF WindowInv, KeptInv, Envelope
    <2> QED BY <2>1, <2>3, <2>4 DEF KeptInv, Kept
<1>5. ASSUME NEW p \in Producers, AbandonInject(p) PROVE KeptInv'
    <2>1. /\ sender' = sender /\ ring' = ring /\ sequence' = sequence
          /\ publishing'[p].at = "idle"
          /\ \A q \in Producers \ {p} : publishing'[q] = publishing[q]
        BY <1>1, <1>5 DEF AbandonInject, Publishing
    <2>2. ASSUME NEW q \in Producers, publishing'[q].at = "send"
          PROVE  Kept(Envelope(q)) /\ Envelope(q)' = Envelope(q)
        BY <2>1, <2>2 DEF WindowInv, KeptInv, Envelope
    <2> QED BY <2>1, <2>2 DEF WindowInv, KeptInv, Kept
<1>6. CASE UNCHANGED <<ring, sender, sequence, publishing>>
    BY <1>6 DEF WindowInv, KeptInv, Kept, Envelope
<1>7. ASSUME NEW c \in Subscribers, Client(c) PROVE KeptInv'
    BY <1>6, <1>7 DEF Client, SnapshotRing, OpenReceiver, DeliverReplay, DeliverLive,
       SkipLagged, Disconnect
<1>8. CASE UNCHANGED streamVars
    BY <1>6, <1>8 DEF streamVars
<1> QED BY <1>2, <1>3, <1>4, <1>5, <1>7, <1>8 DEF StreamNext, Publish

\* A client that reconnects finds in the ring every message it can count on: the
\* tasks draw, push and send without a common lock, and still a message is evicted
\* only when RingSize newer numbers are drawn, less one for each other task.
THEOREM ReplayKept == StreamSpec => []ReplayWindow
<1>1. StreamInit => WindowInv
    BY InitType DEF StreamInit, Numbered, SentInv, SentInOrder, Drawn, WindowInv, LateInv,
       Distinct, Late, Numbers, Waiting, KeptInv
<1>2. WindowInv /\ [StreamNext]_streamVars => WindowInv'
    BY NextType, SentStep, LateStep, KeptStep DEF WindowInv
<1>3. WindowInv => ReplayWindow
    BY DEF WindowInv, KeptInv, Kept, ReplayWindow
<1> QED BY <1>1, <1>2, <1>3, PTL DEF StreamSpec

-----------------------------------------------------------------------------
(* The runtime.                                                             *)

\* Every step of the adapter is a step of the stream or leaves it alone.
LEMMA StreamStep == [Next]_vars => [StreamNext]_streamVars
<1> SUFFICES ASSUME [Next]_vars PROVE [StreamNext]_streamVars
    OBVIOUS
<1> USE NamesAssumption
<1>1. ASSUME NEW c \in Requests, PostRequest(c) \/ Waiter(c) PROVE UNCHANGED streamVars
    BY <1>1 DEF PostRequest, Waiter, Register, ReceiveReply, SenderDropped, TimeoutElapsed,
        Unregister, ExitInfo
<1>2. ASSUME NEW c \in Notices, PostNotice(c) PROVE UNCHANGED streamVars
    BY <1>2 DEF PostNotice
<1>3. ASSUME NEW c \in Posts, Handler(c) \/ Cancel(c) PROVE UNCHANGED streamVars
    BY <1>3 DEF Handler, LockStdin, WriteBody, WriteNewline, WriteFails, Cancel
<1>4. ASSUME NEW k \in Closers, BeginShutdown(k) \/ Shutdown(k) \/ CancelShutdown(k)
      PROVE  UNCHANGED streamVars
    BY <1>4 DEF BeginShutdown, Shutdown, ClearPending, KillChild, WaitKilled, CancelShutdown
<1>5. ASSUME Agent PROVE UNCHANGED streamVars
    BY <1>5 DEF Agent, AgentRead, AgentRespond, AgentNote, AgentExit
<1>6. ASSUME StdoutLoop PROVE StreamNext
    BY <1>6 DEF StdoutLoop, RouteResponse, PublishLine, StdoutPush, StdoutBroadcast,
        StreamNext, Publish
<1>7. ASSUME ExitWatcher PROVE StreamNext \/ UNCHANGED streamVars
    BY <1>7 DEF ExitWatcher, WatchChild, ReapChild, ReportExit, WatcherPublish,
        StreamNext, Publish
<1>8. ASSUME StreamOnly PROVE StreamNext
    BY <1>8 DEF StreamOnly, StreamNext
<1>9. CASE UNCHANGED vars
    BY <1>9 DEF vars
<1> QED BY <1>1, <1>2, <1>3, <1>4, <1>5, <1>6, <1>7, <1>8, <1>9 DEF Next

\* The adapter, seen from the stream, is one of the behaviours of EventStream:
\* what is proved there holds of it.
THEOREM AdapterIsStream == Spec => KeepsStream
<1>1. Init => StreamInit
    BY DEF Init
<1> QED BY <1>1, StreamStep, PTL DEF Spec, StreamSpec, KeepsStream

\* In particular the channel carries the agent's lines in the order printed.
THEOREM AdapterChannelOrder == Spec => []SentInOrder
BY AdapterIsStream, ChannelOrder, PTL DEF KeepsStream

\* And what clients of the adapter receive, and can ask for again, is in that order
\* and complete.
THEOREM AdapterDelivers == Spec => [](ProducerOrder /\ ReplayWindow)
BY AdapterIsStream, DeliveryOrder, ReplayKept, PTL DEF KeepsStream

-----------------------------------------------------------------------------
(* Types.                                                                   *)

\* The typing of what is not the stream's.
OwnTypeOK ==
    /\ at \in [Posts -> {"idle", "register", "lock", "body", "newline", "wait",
                         "unregister", "exitinfo", "done", "gone"}]
    /\ outcome \in [Posts -> {"none", "accepted", "response", "write", "timeout", "exited"}]
    /\ channel \in [Requests -> {"none", "open", "sent", "dropped", "closed"}]
    /\ reply \in [Requests -> Requests \cup {Nobody}]
    /\ pending \in [Ids -> Requests \cup {Nobody}]
    /\ routing \in BOOLEAN
    /\ stdin \in Posts \cup {Nobody}
    /\ line \in Seq(Posts)
    /\ pipe \in Seq(Seq(Posts))
    /\ working \subseteq Requests
    /\ stdout \in Seq(Requests \cup {Nobody})
    /\ notes \in Nat
    /\ agent \in {"running", "killed", "exited"}
    /\ child \in {Watcher, Nobody} \cup Closers
    /\ watcher \in {"start", "waiting", "report", "done"}
    /\ closing \in [Closers -> {"idle", "clear", "child", "kill", "done", "skipped", "gone"}]
    /\ shuttingDown \in BOOLEAN

LEMMA TypeParts == TypeOK <=> StreamTypeOK /\ OwnTypeOK
BY DEF TypeOK, OwnTypeOK

LEMMA PostTypes ==
    ASSUME OwnTypeOK, NEW c \in Posts,
           \/ c \in Requests /\ (PostRequest(c) \/ Waiter(c))
           \/ c \in Notices /\ PostNotice(c)
           \/ Handler(c)
           \/ Cancel(c)
    PROVE  OwnTypeOK'
<1> USE NamesAssumption
<1>1. CASE c \in Requests /\ PostRequest(c)
    BY <1>1 DEF PostRequest, OwnTypeOK, Goto, pipeVars, agentVars, childVars
<1>2. CASE c \in Requests /\ Register(c)
    BY <1>2 DEF Register, OwnTypeOK, Goto, pipeVars, agentVars, childVars
<1>3. CASE c \in Requests /\ ReceiveReply(c)
    BY <1>3 DEF ReceiveReply, OwnTypeOK, Goto, Return, pipeVars, agentVars, childVars
<1>4. CASE c \in Requests /\ SenderDropped(c)
    BY <1>4 DEF SenderDropped, OwnTypeOK, Goto, pipeVars, agentVars, childVars
<1>5. CASE c \in Requests /\ TimeoutElapsed(c)
    BY <1>5 DEF TimeoutElapsed, OwnTypeOK, Goto, pipeVars, agentVars, childVars
<1>6. CASE c \in Requests /\ Unregister(c)
    BY <1>6 DEF Unregister, DropSenders, OwnTypeOK, Goto, pipeVars, agentVars, childVars
<1>7. CASE c \in Requests /\ ExitInfo(c)
    BY <1>7 DEF ExitInfo, OwnTypeOK, Goto, Return, pipeVars, agentVars, childVars
<1>8. CASE c \in Notices /\ PostNotice(c)
    BY <1>8 DEF PostNotice, OwnTypeOK, Goto, pipeVars, agentVars, childVars
<1>9. CASE LockStdin(c)
    BY <1>9 DEF LockStdin, OwnTypeOK, Goto, agentVars, childVars
<1>10. CASE WriteBody(c)
    BY <1>10 DEF WriteBody, OwnTypeOK, Goto, agentVars, childVars
<1>11. CASE WriteNewline(c)
    <2>1. line' = <<>> /\ pipe' = Append(pipe, line) /\ stdin' = Nobody
        BY <1>11 DEF WriteNewline
    <2>2. pipe' \in Seq(Seq(Posts)) /\ line' \in Seq(Posts)
        BY <2>1 DEF OwnTypeOK
    <2> QED BY <1>11, <2>1, <2>2 DEF WriteNewline, OwnTypeOK, Goto, Return, agentVars, childVars
<1>12. CASE WriteFails(c)
    BY <1>12 DEF WriteFails, OwnTypeOK, Goto, agentVars, childVars
<1>13. CASE Cancel(c)
    BY <1>13 DEF Cancel, OwnTypeOK, Goto, agentVars, childVars
<1> QED BY <1>1, <1>2, <1>3, <1>4, <1>5, <1>6, <1>7, <1>8, <1>9, <1>10, <1>11, <1>12, <1>13
        DEF Waiter, Handler

LEMMA AgentTypes ==
    ASSUME OwnTypeOK, Agent
    PROVE  OwnTypeOK'
<1>1. CASE AgentRead
    <2>1. working' \subseteq Requests
        BY <1>1 DEF AgentRead, OwnTypeOK
    <2>2. pipe' \in Seq(Seq(Posts))
        BY <1>1, HeadTailProperties DEF AgentRead, OwnTypeOK
    <2> QED BY <1>1, <2>1, <2>2 DEF AgentRead, OwnTypeOK, postVars, childVars
<1>2. CASE \E c \in Requests : AgentRespond(c)
    BY <1>2 DEF AgentRespond, OwnTypeOK, postVars, pipeVars, childVars
<1>3. CASE AgentNote
    BY <1>3 DEF AgentNote, OwnTypeOK, postVars, pipeVars, childVars
<1>4. CASE AgentExit
    BY <1>4 DEF AgentExit, OwnTypeOK, postVars, pipeVars, childVars
<1> QED BY <1>1, <1>2, <1>3, <1>4 DEF Agent

LEMMA StdoutTypes ==
    ASSUME OwnTypeOK, StdoutLoop
    PROVE  OwnTypeOK'
<1> USE NamesAssumption
<1>1. CASE \E c \in Requests : RouteResponse(c)
    <2>1. PICK c \in Requests : RouteResponse(c)
        BY <1>1
    <2>2. stdout' \in Seq(Requests \cup {Nobody})
        BY <2>1, HeadTailProperties DEF RouteResponse, OwnTypeOK
    <2>3. channel' \in [Requests -> {"none", "open", "sent", "dropped", "closed"}]
          /\ reply' \in [Requests -> Requests \cup {Nobody}]
        <3> DEFINE owner == pending[IdOf[c]]
        <3>1. \/ channel' = channel /\ reply' = reply
              \/ channel' = [channel EXCEPT ![owner] = "sent"]
                 /\ reply' = [reply EXCEPT ![owner] = c]
            BY <2>1 DEF RouteResponse
        <3> HIDE DEF owner
        <3>2. channel' \in [Requests -> {"none", "open", "sent", "dropped", "closed"}]
            BY <3>1 DEF OwnTypeOK
        <3>3. reply' \in [Requests -> Requests \cup {Nobody}]
            BY <3>1 DEF OwnTypeOK
        <3> QED BY <3>2, <3>3
    <2>4. pending' \in [Ids -> Requests \cup {Nobody}]
        BY <2>1 DEF RouteResponse, OwnTypeOK
    <2> QED BY <2>1, <2>2, <2>3, <2>4 DEF RouteResponse, OwnTypeOK, pipeVars, childVars
<1>2. CASE PublishLine
    <2>1. stdout' \in Seq(Requests \cup {Nobody})
        BY <1>2, HeadTailProperties DEF PublishLine, OwnTypeOK
    <2> QED BY <1>2, <2>1 DEF PublishLine, OwnTypeOK, postVars, pipeVars, childVars
<1>3. CASE StdoutPush
    BY <1>3 DEF StdoutPush, OwnTypeOK, postVars, pipeVars, agentVars, childVars
<1>4. CASE StdoutBroadcast
    BY <1>4 DEF StdoutBroadcast, OwnTypeOK, postVars, pipeVars, agentVars, childVars
<1> QED BY <1>1, <1>2, <1>3, <1>4 DEF StdoutLoop

LEMMA ChildTypes ==
    ASSUME OwnTypeOK,
           \/ ExitWatcher
           \/ StreamOnly
           \/ \E k \in Closers : BeginShutdown(k) \/ Shutdown(k) \/ CancelShutdown(k)
    PROVE  OwnTypeOK'
<1> USE NamesAssumption
<1>1. CASE ExitWatcher
    BY <1>1 DEF ExitWatcher, WatchChild, ReapChild, ReportExit, WatcherPublish, OwnTypeOK,
        postVars, pipeVars, agentVars, childVars
<1>2. CASE StreamOnly
    BY <1>2 DEF StreamOnly, OwnTypeOK, postVars, pipeVars, agentVars, childVars
<1>3. ASSUME NEW k \in Closers, BeginShutdown(k) PROVE OwnTypeOK'
    BY <1>3 DEF BeginShutdown, OwnTypeOK, postVars, pipeVars, agentVars
<1>4. ASSUME NEW k \in Closers, ClearPending(k) PROVE OwnTypeOK'
    BY <1>4 DEF ClearPending, DropSenders, OwnTypeOK, pipeVars, agentVars
<1>5. ASSUME NEW k \in Closers, KillChild(k) PROVE OwnTypeOK'
    BY <1>5 DEF KillChild, OwnTypeOK, postVars, pipeVars
<1>6. ASSUME NEW k \in Closers, WaitKilled(k) PROVE OwnTypeOK'
    BY <1>6 DEF WaitKilled, OwnTypeOK, postVars, pipeVars, agentVars
<1>7. ASSUME NEW k \in Closers, CancelShutdown(k) PROVE OwnTypeOK'
    BY <1>7 DEF CancelShutdown, OwnTypeOK, postVars, pipeVars, agentVars
<1> QED BY <1>1, <1>2, <1>3, <1>4, <1>5, <1>6, <1>7 DEF Shutdown

LEMMA OwnTypeStep == OwnTypeOK /\ [Next]_vars => OwnTypeOK'
<1> SUFFICES ASSUME OwnTypeOK, [Next]_vars PROVE OwnTypeOK'
    OBVIOUS
<1>1. ASSUME NEW c \in Requests, PostRequest(c) \/ Waiter(c) PROVE OwnTypeOK'
    <2>1. c \in Posts
        BY DEF Posts
    <2>2. c \in Requests /\ (PostRequest(c) \/ Waiter(c))
        BY <1>1
    <2> QED BY <2>1, <2>2, PostTypes
<1>2. ASSUME NEW c \in Notices, PostNotice(c) PROVE OwnTypeOK'
    <2>1. c \in Posts
        BY DEF Posts
    <2>2. c \in Notices /\ PostNotice(c)
        BY <1>2
    <2> QED BY <2>1, <2>2, PostTypes
<1>3. ASSUME NEW c \in Posts, Handler(c) \/ Cancel(c) PROVE OwnTypeOK'
    BY <1>3, PostTypes
<1>4. ASSUME NEW k \in Closers, BeginShutdown(k) \/ Shutdown(k) \/ CancelShutdown(k)
      PROVE  OwnTypeOK'
    BY <1>4, ChildTypes
<1>5. CASE UNCHANGED vars
    BY <1>5 DEF vars, OwnTypeOK, postVars, pipeVars, agentVars, childVars
<1> QED BY <1>1, <1>2, <1>3, <1>4, <1>5, AgentTypes, StdoutTypes, ChildTypes DEF Next

LEMMA OwnTypeInit == Init => OwnTypeOK
<1> SUFFICES ASSUME Init PROVE OwnTypeOK
    OBVIOUS
<1>1. line \in Seq(Posts) /\ pipe \in Seq(Seq(Posts)) /\ stdout \in Seq(Requests \cup {Nobody})
    BY DEF Init
<1> QED BY <1>1 DEF Init, OwnTypeOK

\* In every behaviour of the adapter the state has its type: every mutex has one
\* owner at most, every channel one of its five states.
THEOREM AdapterTypeCorrect == Spec => []TypeOK
<1>1. Init => OwnTypeOK
    BY OwnTypeInit
<1>2. OwnTypeOK /\ [Next]_vars => OwnTypeOK'
    BY OwnTypeStep
<1>3. Spec => []StreamTypeOK
    BY AdapterIsStream, TypeCorrect, PTL DEF KeepsStream
<1> QED BY <1>1, <1>2, <1>3, TypeParts, PTL DEF Spec

-----------------------------------------------------------------------------
(* The pending map, the channels and the ids.                               *)

\* The inductive invariant.  An entry is filed under the id of its request and
\* its channel has not been used; an open channel is the registered one; what
\* went through a channel carries the id of its receiver; a post that reports a
\* response has returned and has one.
Registered ==
    \A i \in Ids : pending[i] \in Requests =>
        IdOf[pending[i]] = i /\ channel[pending[i]] \in {"open", "closed"}
Reachable == \A c \in Requests : channel[c] = "open" => pending[IdOf[c]] = c
Carried == \A c \in Requests :
    channel[c] = "sent" => reply[c] \in Requests /\ IdOf[reply[c]] = IdOf[c]
Reported == \A c \in Requests :
    outcome[c] = "response" => at[c] = "done" /\ channel[c] = "sent"

ReplyInv == Registered /\ Reachable /\ Carried /\ Reported

\* A step that leaves the posts and their channels alone keeps the invariant.
LEMMA ReplyFrame ==
    ASSUME ReplyInv, UNCHANGED postVars
    PROVE  ReplyInv'
BY DEF ReplyInv, Registered, Reachable, Carried, Reported, postVars

\* Dropping the senders of some ids keeps the first three conjuncts.
LEMMA DropKeeps ==
    ASSUME OwnTypeOK, Registered, Reachable, Carried, NEW S \in SUBSET Ids,
           DropSenders(S), reply' = reply
    PROVE  Registered' /\ Reachable' /\ Carried'
           /\ \A c \in Requests : channel[c] = "sent" => channel'[c] = "sent"
<1> USE NamesAssumption
<1>1. /\ pending' = [i \in Ids |-> IF i \in S THEN Nobody ELSE pending[i]]
      /\ channel' = [c \in Requests |->
                       IF (\E i \in S : pending[i] = c) /\ channel[c] = "open"
                       THEN "dropped" ELSE channel[c]]
    BY DEF DropSenders
<1>2. Nobody \notin Requests
    BY DEF Posts
<1>3. Registered'
    BY <1>1, <1>2 DEF Registered
<1>4. Reachable'
    BY <1>1, <1>2 DEF Reachable, Registered, OwnTypeOK
<1>5. Carried' /\ \A c \in Requests : channel[c] = "sent" => channel'[c] = "sent"
    BY <1>1 DEF Carried
<1> QED BY <1>3, <1>4, <1>5

LEMMA ReplyPost ==
    ASSUME OwnTypeOK, ReplyInv, NEW c \in Posts,
           \/ c \in Requests /\ (PostRequest(c) \/ Waiter(c))
           \/ c \in Notices /\ PostNotice(c)
           \/ Handler(c)
           \/ Cancel(c)
    PROVE  ReplyInv'
<1> USE NamesAssumption DEF ReplyInv
<1>0. Nobody \notin Requests /\ \A d \in Requests : d \in Posts /\ IdOf[d] \in Ids
    BY DEF Posts
<1>1. CASE c \in Requests /\ PostRequest(c)
    BY <1>0, <1>1 DEF PostRequest, Goto, OwnTypeOK, Registered, Reachable, Carried, Reported
<1>2. CASE c \in Requests /\ Register(c)
    <2>1. /\ pending' = [pending EXCEPT ![IdOf[c]] = c]
          /\ channel' = [d \in Requests |->
                     IF d = c THEN "open"
                     ELSE IF d = pending[IdOf[c]] /\ channel[d] = "open" THEN "dropped"
                     ELSE channel[d]]
          /\ reply' = reply /\ outcome' = outcome
          /\ at[c] = "register" /\ at' = [at EXCEPT ![c] = "lock"]
        BY <1>2 DEF Register, Goto
    <2>2. Registered'
        BY <1>0, <1>2, <2>1 DEF OwnTypeOK, Registered
    <2>3. Reachable'
        BY <1>0, <1>2, <2>1 DEF OwnTypeOK, Reachable
    <2>4. Carried' /\ Reported'
        BY <1>0, <1>2, <2>1 DEF OwnTypeOK, Carried, Reported
    <2> QED BY <2>2, <2>3, <2>4
<1>3. CASE c \in Requests /\ ReceiveReply(c)
    BY <1>0, <1>3 DEF ReceiveReply, Return, Goto, OwnTypeOK, Registered, Reachable, Carried, Reported
<1>4. CASE c \in Requests /\ SenderDropped(c)
    BY <1>0, <1>4 DEF SenderDropped, Goto, OwnTypeOK, Registered, Reachable, Carried, Reported
<1>5. CASE c \in Requests /\ TimeoutElapsed(c)
    BY <1>0, <1>5 DEF TimeoutElapsed, Goto, OwnTypeOK, Registered, Reachable, Carried, Reported
<1>6. CASE c \in Requests /\ Unregister(c)
    <2>1. /\ DropSenders({IdOf[c]}) /\ reply' = reply /\ outcome' = outcome
          /\ at[c] = "unregister" /\ at' = [at EXCEPT ![c] = "exitinfo"]
        BY <1>6 DEF Unregister, Goto
    <2>2. /\ Registered' /\ Reachable' /\ Carried'
          /\ \A d \in Requests : channel[d] = "sent" => channel'[d] = "sent"
        BY <1>0, <1>6, <2>1, DropKeeps
    <2>3. Reported'
        BY <1>0, <2>1, <2>2 DEF OwnTypeOK, Reported
    <2> QED BY <2>2, <2>3
<1>7. CASE c \in Requests /\ ExitInfo(c)
    BY <1>0, <1>7 DEF ExitInfo, Return, Goto, OwnTypeOK, Registered, Reachable, Carried, Reported
<1>8. CASE c \in Notices /\ PostNotice(c)
    BY <1>0, <1>8 DEF PostNotice, Goto, OwnTypeOK, Registered, Reachable, Carried, Reported
<1>9. CASE LockStdin(c)
    BY <1>0, <1>9 DEF LockStdin, Goto, OwnTypeOK, Registered, Reachable, Carried, Reported
<1>10. CASE WriteBody(c)
    BY <1>0, <1>10 DEF WriteBody, Goto, OwnTypeOK, Registered, Reachable, Carried, Reported
<1>11. CASE WriteNewline(c)
    BY <1>0, <1>11 DEF WriteNewline, Return, Goto, OwnTypeOK, Registered, Reachable, Carried, Reported
<1>12. CASE WriteFails(c)
    BY <1>0, <1>12 DEF WriteFails, Goto, OwnTypeOK, Registered, Reachable, Carried, Reported
<1>13. CASE Cancel(c)
    <2>1. /\ at[c] \notin {"idle", "done", "gone"} /\ at' = [at EXCEPT ![c] = "gone"]
          /\ channel' = [d \in Requests |-> IF d = c THEN "closed" ELSE channel[d]]
          /\ UNCHANGED <<outcome, reply, pending>>
        BY <1>13 DEF Cancel, Goto
    <2> QED BY <1>0, <2>1 DEF OwnTypeOK, Registered, Reachable, Carried, Reported
<1> QED BY <1>1, <1>2, <1>3, <1>4, <1>5, <1>6, <1>7, <1>8, <1>9, <1>10, <1>11, <1>12, <1>13
        DEF Waiter, Handler

LEMMA ReplyRoute ==
    ASSUME OwnTypeOK, ReplyInv, NEW c \in Requests, RouteResponse(c)
    PROVE  ReplyInv'
<1> USE NamesAssumption DEF ReplyInv
<1> DEFINE owner == pending[IdOf[c]]
<1>0. Nobody \notin Requests /\ \A d \in Requests : IdOf[d] \in Ids
    BY DEF Posts
<1>1. /\ owner \in Requests /\ IdOf[owner] = IdOf[c]
      /\ pending' = [pending EXCEPT ![IdOf[c]] = Nobody]
      /\ at' = at /\ outcome' = outcome
    BY <1>0 DEF RouteResponse, OwnTypeOK, Registered
<1>2. CASE channel[owner] = "open"
    <2>1. channel' = [channel EXCEPT ![owner] = "sent"] /\ reply' = [reply EXCEPT ![owner] = c]
        BY <1>2 DEF RouteResponse
    <2> HIDE DEF owner
    <2>2. Registered'
        BY <1>0, <1>1, <2>1 DEF OwnTypeOK, Registered
    <2>3. Reachable'
        BY <1>0, <1>1, <1>2, <2>1 DEF OwnTypeOK, Reachable, owner
    <2>4. Carried' /\ Reported'
        BY <1>0, <1>1, <1>2, <2>1 DEF OwnTypeOK, Carried, Reported
    <2> QED BY <2>2, <2>3, <2>4
<1>3. CASE channel[owner] # "open"
    <2>1. channel' = channel /\ reply' = reply
        BY <1>3 DEF RouteResponse
    <2> QED BY <1>0, <1>1, <1>3, <2>1 DEF OwnTypeOK, Registered, Reachable, Carried, Reported
<1> QED BY <1>2, <1>3

LEMMA ReplyStep == OwnTypeOK /\ ReplyInv /\ [Next]_vars => ReplyInv'
<1> SUFFICES ASSUME OwnTypeOK, ReplyInv, [Next]_vars PROVE ReplyInv'
    OBVIOUS
<1>1. ASSUME NEW c \in Requests, PostRequest(c) \/ Waiter(c) PROVE ReplyInv'
    <2>1. c \in Posts
        BY DEF Posts
    <2>2. c \in Requests /\ (PostRequest(c) \/ Waiter(c))
        BY <1>1
    <2> QED BY <2>1, <2>2, ReplyPost
<1>2. ASSUME NEW c \in Notices, PostNotice(c) PROVE ReplyInv'
    <2>1. c \in Posts
        BY DEF Posts
    <2>2. c \in Notices /\ PostNotice(c)
        BY <1>2
    <2> QED BY <2>1, <2>2, ReplyPost
<1>3. ASSUME NEW c \in Posts, Handler(c) \/ Cancel(c) PROVE ReplyInv'
    BY <1>3, ReplyPost
<1>4. ASSUME NEW k \in Closers, ClearPending(k) PROVE ReplyInv'
    <2>1. DropSenders(Ids) /\ UNCHANGED <<at, outcome, reply>>
        BY <1>4 DEF ClearPending
    <2>2. /\ Registered' /\ Reachable' /\ Carried'
          /\ \A d \in Requests : channel[d] = "sent" => channel'[d] = "sent"
        BY <2>1, DropKeeps DEF ReplyInv
    <2>3. Reported'
        BY <2>1, <2>2 DEF ReplyInv, Reported
    <2> QED BY <2>2, <2>3 DEF ReplyInv
<1>5. ASSUME NEW k \in Closers,
             BeginShutdown(k) \/ KillChild(k) \/ WaitKilled(k) \/ CancelShutdown(k)
      PROVE  ReplyInv'
    BY <1>5, ReplyFrame DEF BeginShutdown, KillChild, WaitKilled, CancelShutdown
<1>6. CASE Agent
    BY <1>6, ReplyFrame DEF Agent, AgentRead, AgentRespond, AgentNote, AgentExit
<1>7. CASE StdoutLoop
    BY <1>7, ReplyRoute, ReplyFrame
       DEF StdoutLoop, PublishLine, StdoutPush, StdoutBroadcast
<1>8. CASE ExitWatcher
    BY <1>8, ReplyFrame DEF ExitWatcher, WatchChild, ReapChild, ReportExit, WatcherPublish
<1>9. CASE StreamOnly
    BY <1>9, ReplyFrame DEF StreamOnly
<1>10. CASE UNCHANGED vars
    BY <1>10, ReplyFrame DEF vars
<1> QED BY <1>1, <1>2, <1>3, <1>4, <1>5, <1>6, <1>7, <1>8, <1>9, <1>10 DEF Next, Shutdown

LEMMA ReplyInit == Init => ReplyInv
BY NamesAssumption DEF Init, ReplyInv, Registered, Reachable, Carried, Reported, Posts

\* In every behaviour, for any clients and any choice of ids, reused or not.
THEOREM ReplyInvariant == Spec => []ReplyInv
<1>1. Init => OwnTypeOK /\ ReplyInv
    BY OwnTypeInit, ReplyInit
<1>2. OwnTypeOK /\ ReplyInv /\ [Next]_vars => (OwnTypeOK /\ ReplyInv)'
    BY OwnTypeStep, ReplyStep
<1> QED BY <1>1, <1>2, PTL DEF Spec

\* A post never returns an answer that carries another id than its own.
THEOREM RepliesAreOwn == Spec => []OwnReply
<1>1. ReplyInv => OwnReply
    BY DEF ReplyInv, Carried, Reported, OwnReply, Answered
<1> QED BY <1>1, ReplyInvariant, PTL

\* No wakeup is lost: a post that still listens is the one the next response
\* with its id is routed to.
THEOREM WaitersAreReachable == Spec => []WaiterReachable
<1>1. ReplyInv => WaiterReachable
    BY DEF ReplyInv, Reachable, WaiterReachable
<1> QED BY <1>1, ReplyInvariant, PTL

-----------------------------------------------------------------------------
(* The promise.                                                             *)

\* Where a request may be on its way to its answer: on the unterminated line,
\* in the pipe, with the agent, printed, or gone through a channel.
OnLine(c)  == \E i \in DOMAIN line : line[i] = c
InPipe(c)  == \E i \in DOMAIN pipe : \E k \in DOMAIN pipe[i] : pipe[i][k] = c
Printed(c) == \E i \in DOMAIN stdout : stdout[i] = c
Used(c)    == \E d \in Requests : reply[d] = c

\* The points of post() before the envelope is written.
Unwritten == {"idle", "register", "lock", "body"}

\* A request leaves post() once, so it is at one of those places at most ...
InOnePlace == \A c \in Requests :
    /\ OnLine(c) => ~ (InPipe(c) \/ c \in working \/ Printed(c) \/ Used(c))
    /\ InPipe(c) => ~ (c \in working \/ Printed(c) \/ Used(c))
    /\ c \in working => ~ (Printed(c) \/ Used(c))
    /\ Printed(c) => ~ Used(c)
    /\ OnLine(c) \/ InPipe(c) \/ c \in working \/ Printed(c) \/ Used(c)
            => at[c] \notin Unwritten

\* ... and once at that place.
OnceInPipe == \A i, j \in DOMAIN pipe : i # j =>
    \A k \in DOMAIN pipe[i], l \in DOMAIN pipe[j] :
        pipe[i][k] \in Requests => pipe[i][k] # pipe[j][l]
OncePrinted == \A i, j \in DOMAIN stdout :
    i # j /\ stdout[i] \in Requests => stdout[i] # stdout[j]
OnceUsed == \A d, e \in Requests :
    d # e /\ reply[d] \in Requests => reply[d] # reply[e]

TravelInv == InOnePlace /\ OnceInPipe /\ OncePrinted /\ OnceUsed

LEMMA AfterAppend ==
    ASSUME NEW S, NEW s \in Seq(S), NEW e \in S
    PROVE  /\ DOMAIN s = 1 .. Len(s) /\ Len(s) \in Nat
           /\ DOMAIN Append(s, e) = DOMAIN s \cup {Len(s) + 1}
           /\ Len(s) + 1 \notin DOMAIN s
           /\ \A i \in DOMAIN s : Append(s, e)[i] = s[i]
           /\ Append(s, e)[Len(s) + 1] = e
<1>1. DOMAIN s = 1 .. Len(s) /\ Len(s) \in Nat
    BY LenProperties
<1>2. Append(s, e) \in Seq(S) /\ Len(Append(s, e)) = Len(s) + 1
    BY AppendProperties
<1>3. DOMAIN Append(s, e) = 1 .. Len(s) + 1
    BY <1>2, LenProperties
<1>4. 1 .. Len(s) + 1 = 1 .. Len(s) \cup {Len(s) + 1}
    BY <1>1
<1> QED BY <1>1, <1>3, <1>4, AppendProperties

LEMMA AfterTail ==
    ASSUME NEW S, NEW s \in Seq(S), s # <<>>
    PROVE  /\ 1 \in DOMAIN s /\ Head(s) = s[1]
           /\ \A i \in DOMAIN Tail(s) :
                  i + 1 \in DOMAIN s /\ i + 1 # 1 /\ Tail(s)[i] = s[i + 1]
           /\ \A i, j \in DOMAIN Tail(s) : i # j => i + 1 # j + 1
<1>1. DOMAIN s = 1 .. Len(s) /\ Len(s) \in Nat
    BY LenProperties
<1>2. Len(s) # 0
    BY EmptySeq, LenProperties
<1>3. /\ Tail(s) \in Seq(S) /\ Len(Tail(s)) = Len(s) - 1
      /\ \A i \in 1 .. Len(Tail(s)) : Tail(s)[i] = s[i + 1]
    BY HeadTailProperties
<1>4. DOMAIN Tail(s) = 1 .. Len(s) - 1
    BY <1>3, LenProperties
<1>5. Head(s) = s[1]
    OBVIOUS
<1> QED BY <1>1, <1>2, <1>3, <1>4, <1>5

\* Steps that move no request, and let no post come back to its beginning.
LEMMA TravelFrame ==
    ASSUME TravelInv, UNCHANGED <<line, pipe, working, stdout, reply>>,
           \A c \in Requests : at[c] \notin Unwritten => at'[c] \notin Unwritten
    PROVE  TravelInv'
<1>1. \A c \in Requests : /\ OnLine(c)' <=> OnLine(c)
                          /\ InPipe(c)' <=> InPipe(c)
                          /\ Printed(c)' <=> Printed(c)
                          /\ Used(c)' <=> Used(c)
    BY DEF OnLine, InPipe, Printed, Used
<1>2. InOnePlace'
    BY <1>1 DEF TravelInv, InOnePlace
<1>3. OnceInPipe' /\ OncePrinted' /\ OnceUsed'
    BY DEF TravelInv, OnceInPipe, OncePrinted, OnceUsed
<1> QED BY <1>2, <1>3 DEF TravelInv

LEMMA WriteTravels ==
    ASSUME OwnTypeOK, TravelInv, NEW c \in Posts, WriteBody(c)
    PROVE  TravelInv'
<1>0. /\ at[c] = "body" /\ at' = [at EXCEPT ![c] = "newline"]
      /\ line' = Append(line, c) /\ UNCHANGED <<pipe, working, stdout, reply>>
    BY DEF WriteBody, Goto, agentVars
<1>1. \A d \in Requests : /\ OnLine(d)' <=> OnLine(d) \/ d = c
                          /\ InPipe(d)' <=> InPipe(d)
                          /\ Printed(d)' <=> Printed(d)
                          /\ Used(d)' <=> Used(d)
    <2>1. line \in Seq(Posts)
        BY DEF OwnTypeOK
    <2>2. \A d \in Requests : OnLine(d)' <=> OnLine(d) \/ d = c
        BY <1>0, <2>1, AfterAppend DEF OnLine
    <2> QED BY <1>0, <2>2 DEF InPipe, Printed, Used
<1>2. \A d \in Requests : d # c => at'[d] = at[d]
    BY <1>0 DEF OwnTypeOK
<1>3. c \in Requests => ~ (OnLine(c) \/ InPipe(c) \/ c \in working \/ Printed(c) \/ Used(c))
                        /\ at'[c] = "newline"
    BY <1>0 DEF OwnTypeOK, TravelInv, InOnePlace, Unwritten
<1>4. InOnePlace'
    <2> SUFFICES ASSUME NEW d \in Requests
                 PROVE  /\ OnLine(d)' => ~ (InPipe(d) \/ d \in working \/ Printed(d) \/ Used(d))'
                        /\ InPipe(d)' => ~ (d \in working \/ Printed(d) \/ Used(d))'
                        /\ (d \in working)' => ~ (Printed(d) \/ Used(d))'
                        /\ Printed(d)' => ~ Used(d)'
                        /\ (OnLine(d) \/ InPipe(d) \/ d \in working \/ Printed(d) \/ Used(d))'
                                => (at[d] \notin Unwritten)'
        BY DEF InOnePlace
    <2>1. CASE d = c
        BY <1>0, <1>1, <1>3, <2>1 DEF Unwritten
    <2>2. CASE d # c
        BY <1>0, <1>1, <1>2, <2>2 DEF TravelInv, InOnePlace
    <2> QED BY <2>1, <2>2
<1>5. OnceInPipe' /\ OncePrinted' /\ OnceUsed'
    BY <1>0 DEF TravelInv, OnceInPipe, OncePrinted, OnceUsed
<1> QED BY <1>4, <1>5 DEF TravelInv

LEMMA LineTravels ==
    ASSUME OwnTypeOK, TravelInv, NEW c \in Posts, WriteNewline(c)
    PROVE  TravelInv'
<1>0. /\ at[c] = "newline" /\ at' \in {[at EXCEPT ![c] = "wait"], [at EXCEPT ![c] = "done"]}
      /\ line' = <<>> /\ pipe' = Append(pipe, line) /\ UNCHANGED <<working, stdout, reply>>
    BY DEF WriteNewline, Goto, Return, agentVars
<1>1. /\ DOMAIN pipe' = DOMAIN pipe \cup {Len(pipe) + 1} /\ Len(pipe) + 1 \notin DOMAIN pipe
      /\ \A i \in DOMAIN pipe : pipe'[i] = pipe[i]
      /\ pipe'[Len(pipe) + 1] = line
    <2>1. line \in Seq(Posts) /\ pipe \in Seq(Seq(Posts))
        BY DEF OwnTypeOK
    <2> QED BY <1>0, <2>1, AfterAppend
<1>2. \A d \in Requests : /\ ~ OnLine(d)'
                          /\ InPipe(d)' <=> InPipe(d) \/ OnLine(d)
                          /\ Printed(d)' <=> Printed(d)
                          /\ Used(d)' <=> Used(d)
    <2>1. \A d \in Requests : ~ OnLine(d)'
        BY <1>0 DEF OnLine
    <2>2. \A d \in Requests : InPipe(d)' <=> InPipe(d) \/ OnLine(d)
        BY <1>1 DEF InPipe, OnLine
    <2> QED BY <1>0, <2>1, <2>2 DEF Printed, Used
<1>3. \A d \in Requests : at[d] \notin Unwritten => at'[d] \notin Unwritten
    BY <1>0 DEF OwnTypeOK, Unwritten, Posts
<1>4. InOnePlace'
    BY <1>0, <1>2, <1>3 DEF TravelInv, InOnePlace
<1>5. OnceInPipe'
    <2> SUFFICES ASSUME NEW i \in DOMAIN pipe', NEW j \in DOMAIN pipe', i # j,
                        NEW k \in DOMAIN pipe'[i], NEW l \in DOMAIN pipe'[j],
                        pipe'[i][k] \in Requests, pipe'[i][k] = pipe'[j][l]
                 PROVE  FALSE
        BY DEF OnceInPipe
    <2>1. CASE i \in DOMAIN pipe /\ j \in DOMAIN pipe
        BY <1>1, <2>1 DEF TravelInv, OnceInPipe
    <2>2. CASE i = Len(pipe) + 1
        <3>1. j \in DOMAIN pipe
            BY <1>1, <2>2
        <3>2. OnLine(pipe'[i][k]) /\ InPipe(pipe'[i][k])
            BY <1>1, <2>2, <3>1 DEF OnLine, InPipe
        <3> QED BY <3>2 DEF TravelInv, InOnePlace
    <2>3. CASE j = Len(pipe) + 1
        <3>1. i \in DOMAIN pipe
            BY <1>1, <2>3
        <3>2. OnLine(pipe'[i][k]) /\ InPipe(pipe'[i][k])
            BY <1>1, <2>3, <3>1 DEF OnLine, InPipe
        <3> QED BY <3>2 DEF TravelInv, InOnePlace
    <2> QED BY <1>1, <2>1, <2>2, <2>3
<1>6. OncePrinted' /\ OnceUsed'
    BY <1>0 DEF TravelInv, OncePrinted, OnceUsed
<1> QED BY <1>4, <1>5, <1>6 DEF TravelInv

\* The agent takes the first line out of the pipe, and works on the request if
\* it is one.
LEMMA ReadTravels ==
    ASSUME OwnTypeOK, TravelInv, AgentRead
    PROVE  TravelInv'
<1>0. /\ pipe # <<>> /\ pipe' = Tail(pipe)
      /\ working' = IF Len(Head(pipe)) = 1
                    THEN working \cup ({Head(pipe)[1]} \cap Requests) ELSE working
      /\ UNCHANGED <<at, line, stdout, reply>>
    BY DEF AgentRead, postVars
<1>1. /\ 1 \in DOMAIN pipe /\ Head(pipe) = pipe[1]
      /\ \A i \in DOMAIN pipe' : i + 1 \in DOMAIN pipe /\ i + 1 # 1 /\ pipe'[i] = pipe[i + 1]
      /\ \A i, j \in DOMAIN pipe' : i # j => i + 1 # j + 1
    <2>1. pipe \in Seq(Seq(Posts))
        BY DEF OwnTypeOK
    <2> QED BY <1>0, <2>1, AfterTail
<1>2. \A d \in Requests : /\ OnLine(d)' <=> OnLine(d)
                          /\ InPipe(d)' => InPipe(d)
                          /\ Printed(d)' <=> Printed(d)
                          /\ Used(d)' <=> Used(d)
    BY <1>0, <1>1 DEF OnLine, InPipe, Printed, Used
<1>3. \A d \in Requests : d \in working' /\ d \notin working => InPipe(d) /\ ~ InPipe(d)'
    <2> SUFFICES ASSUME NEW d \in Requests, d \in working', d \notin working
                 PROVE  InPipe(d) /\ ~ InPipe(d)'
        OBVIOUS
    <2>1. Len(pipe[1]) = 1 /\ pipe[1][1] = d
        BY <1>0, <1>1
    <2>2. pipe[1] \in Seq(Posts)
        BY <1>1, ElementOfSeq, LenProperties DEF OwnTypeOK
    <2>3. 1 \in DOMAIN pipe[1]
        BY <2>1, <2>2, LenProperties
    <2>4. InPipe(d)
        BY <1>1, <2>1, <2>3 DEF InPipe
    <2>5. ASSUME NEW i \in DOMAIN pipe', NEW k \in DOMAIN pipe'[i], pipe'[i][k] = d
          PROVE  FALSE
        BY <1>1, <2>1, <2>3, <2>5 DEF TravelInv, OnceInPipe
    <2> QED BY <2>4, <2>5 DEF InPipe
<1>4. InOnePlace'
    <2> SUFFICES ASSUME NEW d \in Requests
                 PROVE  /\ OnLine(d)' => ~ (InPipe(d) \/ d \in working \/ Printed(d) \/ Used(d))'
                        /\ InPipe(d)' => ~ (d \in working \/ Printed(d) \/ Used(d))'
                        /\ (d \in working)' => ~ (Printed(d) \/ Used(d))'
                        /\ Printed(d)' => ~ Used(d)'
                        /\ (OnLine(d) \/ InPipe(d) \/ d \in working \/ Printed(d) \/ Used(d))'
                                => (at[d] \notin Unwritten)'
        BY DEF InOnePlace
    <2> QED BY <1>0, <1>2, <1>3 DEF TravelInv, InOnePlace
<1>5. OnceInPipe'
    <2> SUFFICES ASSUME NEW i \in DOMAIN pipe', NEW j \in DOMAIN pipe', i # j,
                        NEW k \in DOMAIN pipe'[i], NEW l \in DOMAIN pipe'[j],
                        pipe'[i][k] \in Requests
                 PROVE  pipe'[i][k] # pipe'[j][l]
        BY DEF OnceInPipe
    <2> QED BY <1>1 DEF TravelInv, OnceInPipe
<1>6. OncePrinted' /\ OnceUsed'
    BY <1>0 DEF TravelInv, OncePrinted, OnceUsed
<1> QED BY <1>4, <1>5, <1>6 DEF TravelInv

\* A line is printed: the answer to a request the agent works on, or none.
LEMMA PrintTravels ==
    ASSUME OwnTypeOK, TravelInv, NEW e \in Requests \cup {Nobody},
           stdout' = Append(stdout, e), working' = working \ {e},
           e \in Requests => e \in working,
           UNCHANGED <<at, line, pipe, reply>>
    PROVE  TravelInv'
<1>0. Nobody \notin Requests
    BY NamesAssumption DEF Posts
<1>1. /\ DOMAIN stdout' = DOMAIN stdout \cup {Len(stdout) + 1}
      /\ Len(stdout) + 1 \notin DOMAIN stdout
      /\ \A i \in DOMAIN stdout : stdout'[i] = stdout[i]
      /\ stdout'[Len(stdout) + 1] = e
    <2>1. stdout \in Seq(Requests \cup {Nobody})
        BY DEF OwnTypeOK
    <2> QED BY <2>1, AfterAppend
<1>2. \A d \in Requests : /\ OnLine(d)' <=> OnLine(d)
                          /\ InPipe(d)' <=> InPipe(d)
                          /\ Printed(d)' <=> Printed(d) \/ d = e
                          /\ Used(d)' <=> Used(d)
    <2>1. \A d \in Requests : Printed(d)' <=> Printed(d) \/ d = e
        BY <1>1 DEF Printed
    <2> QED BY <2>1 DEF OnLine, InPipe, Used
<1>3. InOnePlace'
    <2> SUFFICES ASSUME NEW d \in Requests
                 PROVE  /\ OnLine(d)' => ~ (InPipe(d) \/ d \in working \/ Printed(d) \/ Used(d))'
                        /\ InPipe(d)' => ~ (d \in working \/ Printed(d) \/ Used(d))'
                        /\ (d \in working)' => ~ (Printed(d) \/ Used(d))'
                        /\ Printed(d)' => ~ Used(d)'
                        /\ (OnLine(d) \/ InPipe(d) \/ d \in working \/ Printed(d) \/ Used(d))'
                                => (at[d] \notin Unwritten)'
        BY DEF InOnePlace
    <2>1. CASE d = e
        BY <1>2, <2>1 DEF TravelInv, InOnePlace
    <2>2. CASE d # e
        BY <1>2, <2>2 DEF TravelInv, InOnePlace
    <2> QED BY <2>1, <2>2
<1>4. OncePrinted'
    <2> SUFFICES ASSUME NEW i \in DOMAIN stdout', NEW j \in DOMAIN stdout', i # j,
                        stdout'[i] \in Requests, stdout'[i] = stdout'[j]
                 PROVE  FALSE
        BY DEF OncePrinted
    <2>1. CASE i \in DOMAIN stdout /\ j \in DOMAIN stdout
        BY <1>1, <2>1 DEF TravelInv, OncePrinted
    <2>2. CASE i \notin DOMAIN stdout \/ j \notin DOMAIN stdout
        <3>1. e \in Requests /\ Printed(e)
            BY <1>1, <2>2 DEF Printed
        <3> QED BY <3>1 DEF TravelInv, InOnePlace
    <2> QED BY <2>1, <2>2
<1>5. OnceInPipe' /\ OnceUsed'
    BY DEF TravelInv, OnceInPipe, OnceUsed
<1> QED BY <1>3, <1>4, <1>5 DEF TravelInv

\* A line leaves stdout: its answer went through a channel that was given none
\* before, or nowhere.
LEMMA StdoutTravels ==
    ASSUME OwnTypeOK, TravelInv, stdout # <<>>, stdout' = Tail(stdout),
           UNCHANGED <<at, line, pipe, working>>,
           \/ reply' = reply
           \/ \E d \in Requests : Head(stdout) \in Requests
                                  /\ reply' = [reply EXCEPT ![d] = Head(stdout)]
    PROVE  TravelInv'
<1>0. /\ 1 \in DOMAIN stdout /\ Head(stdout) = stdout[1]
      /\ \A i \in DOMAIN stdout' :
            i + 1 \in DOMAIN stdout /\ i + 1 # 1 /\ stdout'[i] = stdout[i + 1]
      /\ \A i, j \in DOMAIN stdout' : i # j => i + 1 # j + 1
    <2>1. stdout \in Seq(Requests \cup {Nobody})
        BY DEF OwnTypeOK
    <2> QED BY <2>1, AfterTail
<1> DEFINE a == Head(stdout)
<1>1. \A c \in Requests : /\ OnLine(c)' <=> OnLine(c)
                          /\ InPipe(c)' <=> InPipe(c)
                          /\ Printed(c)' => Printed(c) /\ c # a
    <2>1. ASSUME NEW c \in Requests, Printed(c)' PROVE Printed(c) /\ c # a
        <3>1. PICK i \in DOMAIN stdout' : stdout'[i] = c
            BY <2>1 DEF Printed
        <3> QED BY <1>0, <3>1 DEF Printed, TravelInv, OncePrinted
    <2> QED BY <2>1 DEF OnLine, InPipe
<1>2. a \in Requests => Printed(a)
    BY <1>0 DEF Printed
<1>3. \A c \in Requests : Used(c)' => Used(c) \/ c = a
    BY DEF Used, OwnTypeOK
<1> HIDE DEF a
<1>4. InOnePlace'
    <2> SUFFICES ASSUME NEW d \in Requests
                 PROVE  /\ OnLine(d)' => ~ (InPipe(d) \/ d \in working \/ Printed(d) \/ Used(d))'
                        /\ InPipe(d)' => ~ (d \in working \/ Printed(d) \/ Used(d))'
                        /\ (d \in working)' => ~ (Printed(d) \/ Used(d))'
                        /\ Printed(d)' => ~ Used(d)'
                        /\ (OnLine(d) \/ InPipe(d) \/ d \in working \/ Printed(d) \/ Used(d))'
                                => (at[d] \notin Unwritten)'
        BY DEF InOnePlace
    <2>1. CASE d = a
        BY <1>1, <1>2, <1>3, <2>1 DEF TravelInv, InOnePlace
    <2>2. CASE d # a
        BY <1>1, <1>3, <2>2 DEF TravelInv, InOnePlace
    <2> QED BY <2>1, <2>2
<1>5. OncePrinted'
    BY <1>0 DEF TravelInv, OncePrinted
<1>6. OnceUsed'
    <2>1. CASE reply' = reply
        BY <2>1 DEF TravelInv, OnceUsed
    <2>2. ASSUME NEW d \in Requests, a \in Requests, reply' = [reply EXCEPT ![d] = a]
          PROVE  OnceUsed'
        <3>1. \A e \in Requests : reply[e] # a
            BY <1>2, <2>2 DEF TravelInv, InOnePlace, Used
        <3>2. \A e \in Requests : reply'[e] = IF e = d THEN a ELSE reply[e]
            BY <2>2 DEF OwnTypeOK
        <3> QED BY <3>1, <3>2 DEF TravelInv, OnceUsed
    <2> QED BY <2>1, <2>2 DEF a
<1>7. OnceInPipe'
    BY DEF TravelInv, OnceInPipe
<1> QED BY <1>4, <1>5, <1>6, <1>7 DEF TravelInv

LEMMA TravelPost ==
    ASSUME OwnTypeOK, TravelInv, NEW c \in Posts,
           \/ c \in Requests /\ (PostRequest(c) \/ Waiter(c))
           \/ c \in Notices /\ PostNotice(c)
           \/ Handler(c)
           \/ Cancel(c)
    PROVE  TravelInv'
<1>1. CASE c \in Requests /\ (PostRequest(c) \/ Waiter(c))
    <2>1. /\ UNCHANGED <<line, pipe, working, stdout, reply>>
          /\ at[c] \notin Unwritten => at'[c] \notin Unwritten
          /\ \A d \in Requests : d # c => at'[d] = at[d]
        BY <1>1 DEF PostRequest, Waiter, Register, ReceiveReply, SenderDropped, TimeoutElapsed,
            Unregister, ExitInfo, Return, Goto, OwnTypeOK, Unwritten, Posts, pipeVars, agentVars
    <2> QED BY <2>1, TravelFrame
<1>2. CASE c \in Notices /\ PostNotice(c)
    <2>1. /\ UNCHANGED <<line, pipe, working, stdout, reply>>
          /\ \A d \in Requests : at'[d] = at[d]
        BY <1>2, NamesAssumption DEF PostNotice, Goto, OwnTypeOK, Posts, pipeVars, agentVars
    <2> QED BY <2>1, TravelFrame
<1>3. CASE LockStdin(c) \/ WriteFails(c) \/ Cancel(c)
    <2>1. /\ UNCHANGED <<line, pipe, working, stdout, reply>>
          /\ at[c] \notin Unwritten => at'[c] \notin Unwritten
          /\ \A d \in Requests : d # c => at'[d] = at[d]
        BY <1>3 DEF LockStdin, WriteFails, Cancel, Goto, OwnTypeOK, Unwritten, Posts, agentVars
    <2> QED BY <2>1, TravelFrame
<1>4. CASE WriteBody(c)
    BY <1>4, WriteTravels
<1>5. CASE WriteNewline(c)
    BY <1>5, LineTravels
<1> QED BY <1>1, <1>2, <1>3, <1>4, <1>5 DEF Handler

LEMMA TravelStep == OwnTypeOK /\ TravelInv /\ [Next]_vars => TravelInv'
<1> SUFFICES ASSUME OwnTypeOK, TravelInv, [Next]_vars PROVE TravelInv'
    OBVIOUS
<1>0. Nobody \notin Requests
    BY NamesAssumption DEF Posts
<1>1. ASSUME NEW c \in Requests, PostRequest(c) \/ Waiter(c) PROVE TravelInv'
    <2>1. c \in Posts /\ c \in Requests /\ (PostRequest(c) \/ Waiter(c))
        BY <1>1 DEF Posts
    <2> QED BY <2>1, TravelPost
<1>2. ASSUME NEW c \in Notices, PostNotice(c) PROVE TravelInv'
    <2>1. c \in Posts /\ c \in Notices /\ PostNotice(c)
        BY <1>2 DEF Posts
    <2> QED BY <2>1, TravelPost
<1>3. ASSUME NEW c \in Posts, Handler(c) \/ Cancel(c) PROVE TravelInv'
    BY <1>3, TravelPost
<1>4. ASSUME NEW k \in Closers, BeginShutdown(k) \/ Shutdown(k) \/ CancelShutdown(k)
      PROVE  TravelInv'
    <2>1. UNCHANGED <<at, line, pipe, working, stdout, reply>>
        BY <1>4 DEF BeginShutdown, Shutdown, ClearPending, KillChild, WaitKilled, CancelShutdown,
            postVars, pipeVars, agentVars
    <2> QED BY <2>1, TravelFrame
<1>5. CASE AgentRead
    BY <1>5, ReadTravels
<1>6. ASSUME NEW c \in Requests, AgentRespond(c) PROVE TravelInv'
    <2>1. /\ c \in Requests \cup {Nobody} /\ c \in working
          /\ stdout' = Append(stdout, c) /\ working' = working \ {c}
          /\ UNCHANGED <<at, line, pipe, reply>>
        BY <1>6 DEF AgentRespond, postVars, pipeVars
    <2> QED BY <2>1, PrintTravels
<1>7. CASE AgentNote
    <2>1. /\ stdout' = Append(stdout, Nobody) /\ working' = working \ {Nobody}
          /\ UNCHANGED <<at, line, pipe, reply>>
        BY <1>0, <1>7 DEF AgentNote, postVars, pipeVars, OwnTypeOK
    <2> QED BY <1>0, <2>1, PrintTravels
<1>8. CASE AgentExit
    BY <1>8, TravelFrame DEF AgentExit, postVars, pipeVars
<1>9. ASSUME NEW c \in Requests, RouteResponse(c) PROVE TravelInv'
    <2>1. /\ stdout # <<>> /\ stdout' = Tail(stdout) /\ Head(stdout) = c
          /\ UNCHANGED <<at, line, pipe, working>>
        BY <1>9 DEF RouteResponse, pipeVars
    <2>2. \/ reply' = reply
          \/ reply' = [reply EXCEPT ![pending[IdOf[c]]] = Head(stdout)]
        BY <1>9 DEF RouteResponse
    <2>3. pending[IdOf[c]] \in Requests
        BY <1>9, NamesAssumption DEF RouteResponse, OwnTypeOK
    <2> QED BY <2>1, <2>2, <2>3, StdoutTravels
<1>10. CASE PublishLine
    <2>1. /\ stdout # <<>> /\ stdout' = Tail(stdout)
          /\ UNCHANGED <<at, line, pipe, working, reply>>
        BY <1>10 DEF PublishLine, postVars, pipeVars
    <2> QED BY <2>1, StdoutTravels
<1>11. CASE StdoutPush \/ StdoutBroadcast \/ ExitWatcher \/ StreamOnly \/ UNCHANGED vars
    <2>1. UNCHANGED <<at, line, pipe, working, stdout, reply>>
        BY <1>11 DEF StdoutPush, StdoutBroadcast, ExitWatcher, WatchChild, ReapChild, ReportExit,
            WatcherPublish, StreamOnly, vars, postVars, pipeVars, agentVars
    <2> QED BY <2>1, TravelFrame
<1> QED BY <1>1, <1>2, <1>3, <1>4, <1>5, <1>6, <1>7, <1>8, <1>9, <1>10, <1>11
        DEF Next, Agent, StdoutLoop

LEMMA TravelInit == Init => TravelInv
BY NamesAssumption DEF Init, TravelInv, InOnePlace, OnceInPipe, OncePrinted, OnceUsed, OnLine,
    InPipe, Printed, Used, Posts

\* In every behaviour the answer to a request is given out once at most,
\* whatever ids the clients chose and however posts were cancelled.
THEOREM TravelInvariant == Spec => []TravelInv
<1>1. Init => OwnTypeOK /\ TravelInv
    BY OwnTypeInit, TravelInit
<1>2. OwnTypeOK /\ TravelInv /\ [Next]_vars => (OwnTypeOK /\ TravelInv)'
    BY OwnTypeStep, TravelStep
<1> QED BY <1>1, <1>2, PTL DEF Spec

\* The state and the answer of RequestReply, as the refinement maps them.
StateMap == [c \in Requests |-> StateOf(c)]
AnswerMap == [c \in Requests |-> IF Answered(c) THEN reply[c] ELSE Nobody]

\* A step that changes neither is a stuttering step of the promise.
LEMMA MapFrame ==
    ASSUME \A d \in Requests : StateOf(d)' = StateOf(d) /\ (Answered(d)' <=> Answered(d)),
           \A d \in Requests : Answered(d) => reply'[d] = reply[d]
    PROVE  UNCHANGED <<StateMap, AnswerMap>>
BY DEF StateMap, AnswerMap

\* A step of one request.
LEMMA MapOne ==
    ASSUME NEW c \in Requests,
           \A d \in Requests : d # c =>
                StateOf(d)' = StateOf(d) /\ (Answered(d)' <=> Answered(d)),
           UNCHANGED reply
    PROVE  /\ StateMap' = [StateMap EXCEPT ![c] = StateOf(c)']
           /\ AnswerMap' = [AnswerMap EXCEPT ![c] = IF Answered(c)' THEN reply[c] ELSE Nobody]
BY DEF StateMap, AnswerMap

LEMMA PromiseStart == Init => Promise!PromiseInit
BY NamesAssumption DEF Init, Promise!PromiseInit, StateOf, Answered, Posts

\* What a post does to the promise.
LEMMA PromisePost ==
    ASSUME OwnTypeOK, ReplyInv, TravelInv, NEW c \in Requests,
           PostRequest(c) \/ Waiter(c) \/ Handler(c) \/ Cancel(c)
    PROVE  Promise!PromiseNext \/ UNCHANGED <<StateMap, AnswerMap>>
<1>0. c \in Posts /\ Nobody \notin Requests /\ \A d \in Requests : d \in Posts
    BY NamesAssumption DEF Posts
<1>1. UNCHANGED reply
    BY DEF PostRequest, Waiter, Handler, Cancel, Register, ReceiveReply, SenderDropped,
        TimeoutElapsed, Unregister, ExitInfo, LockStdin, WriteBody, WriteNewline, WriteFails
<1>2. \A d \in Requests : d # c => at'[d] = at[d] /\ outcome'[d] = outcome[d]
    BY <1>0 DEF PostRequest, Waiter, Handler, Cancel, Register, ReceiveReply, SenderDropped,
        TimeoutElapsed, Unregister, ExitInfo, LockStdin, WriteBody, WriteNewline, WriteFails,
        Return, Goto, OwnTypeOK
<1>3. \A d \in Requests : d # c => StateOf(d)' = StateOf(d) /\ (Answered(d)' <=> Answered(d))
    BY <1>2 DEF StateOf, Answered
<1>4. /\ StateMap' = [StateMap EXCEPT ![c] = StateOf(c)']
      /\ AnswerMap' = [AnswerMap EXCEPT ![c] = IF Answered(c)' THEN reply[c] ELSE Nobody]
    BY <1>1, <1>3, MapOne
<1>5. ASSUME StateOf(c)' = StateOf(c), Answered(c)' <=> Answered(c)
      PROVE  UNCHANGED <<StateMap, AnswerMap>>
    BY <1>1, <1>3, <1>5, MapFrame
<1>6. ASSUME StateOf(c) = "asked", StateOf(c)' = "failed"
      PROVE  Promise!Fail(c)
    <2>1. ~ Answered(c) /\ ~ Answered(c)'
        BY <1>6 DEF StateOf, Answered
    <2>2. AnswerMap' = AnswerMap
        BY <1>4, <2>1 DEF AnswerMap
    <2>3. StateMap[c] = "asked" /\ StateMap' = [StateMap EXCEPT ![c] = "failed"]
        BY <1>4, <1>6 DEF StateMap
    <2> QED BY <2>2, <2>3 DEF Promise!Fail, StateMap, AnswerMap
<1>7. CASE PostRequest(c)
    <2>1. at[c] = "idle" /\ at'[c] = "register"
        BY <1>0, <1>7 DEF PostRequest, Goto, OwnTypeOK
    <2>2. StateOf(c) = "new" /\ StateOf(c)' = "asked" /\ ~ Answered(c) /\ ~ Answered(c)'
        BY <2>1 DEF StateOf, Answered
    <2>3. AnswerMap' = AnswerMap
        BY <1>4, <2>2 DEF AnswerMap
    <2>4. StateMap[c] = "new" /\ StateMap' = [StateMap EXCEPT ![c] = "asked"]
        BY <1>4, <2>2 DEF StateMap
    <2> QED BY <2>3, <2>4 DEF Promise!PromiseNext, Promise!Ask, StateMap, AnswerMap
<1>8. CASE ReceiveReply(c)
    <2>1. /\ at[c] = "wait" /\ channel[c] = "sent"
          /\ at'[c] = "done" /\ outcome'[c] = "response"
        BY <1>0, <1>8 DEF ReceiveReply, Return, Goto, OwnTypeOK
    <2>2. StateOf(c) = "asked" /\ StateOf(c)' = "answered" /\ Answered(c)'
        BY <2>1 DEF StateOf, Answered
    <2>3. PICK a \in Requests : a = reply[c] /\ IdOf[a] = IdOf[c]
        BY <2>1 DEF ReplyInv, Carried
    <2>4. StateMap[a] # "new"
        <3>1. Used(a)
            BY <2>3 DEF Used
        <3>2. at[a] # "idle"
            BY <2>3, <3>1 DEF TravelInv, InOnePlace, Unwritten
        <3> QED BY <2>3, <3>2 DEF StateMap, StateOf
    <2>5. \A d \in Requests : AnswerMap[d] # a
        <3>1. ~ Answered(c)
            BY <2>1 DEF Answered
        <3>2. \A d \in Requests : d # c => reply[d] # a
            BY <2>3 DEF TravelInv, OnceUsed
        <3> QED BY <1>0, <2>3, <3>1, <3>2 DEF AnswerMap
    <2>6. /\ StateMap[c] = "asked" /\ StateMap' = [StateMap EXCEPT ![c] = "answered"]
          /\ AnswerMap' = [AnswerMap EXCEPT ![c] = a]
        BY <1>4, <2>2, <2>3 DEF StateMap
    <2>7. Promise!Answer(c, a)
        BY <2>3, <2>4, <2>5, <2>6 DEF Promise!Answer, StateMap, AnswerMap
    <2> QED BY <2>7 DEF Promise!PromiseNext
<1>9. CASE ExitInfo(c)
    <2>1. at[c] = "exitinfo" /\ at'[c] = "done"
          /\ outcome'[c] \in {"exited", outcome[c]}
        BY <1>0, <1>9 DEF ExitInfo, Return, Goto, OwnTypeOK
    <2>2. outcome[c] # "response"
        BY <2>1 DEF ReplyInv, Reported
    <2>3. StateOf(c) = "asked" /\ StateOf(c)' = "failed"
        BY <2>1, <2>2 DEF StateOf, Answered
    <2> QED BY <1>6, <2>3 DEF Promise!PromiseNext
<1>10. CASE Cancel(c)
    <2>1. at[c] \notin {"idle", "done", "gone"} /\ at'[c] = "gone"
        BY <1>0, <1>10 DEF Cancel, Goto, OwnTypeOK
    <2>2. StateOf(c) = "asked" /\ StateOf(c)' = "failed"
        BY <2>1 DEF StateOf, Answered
    <2> QED BY <1>6, <2>2 DEF Promise!PromiseNext
<1>11. CASE \/ Register(c) \/ SenderDropped(c) \/ TimeoutElapsed(c) \/ Unregister(c)
            \/ Handler(c)
    <2>1. at[c] \notin {"idle", "done", "gone"} /\ at'[c] \notin {"idle", "done", "gone"}
        BY <1>0, <1>11 DEF Handler, Register, SenderDropped, TimeoutElapsed, Unregister,
            LockStdin, WriteBody, WriteNewline, WriteFails, Goto, OwnTypeOK
    <2>2. StateOf(c)' = StateOf(c) /\ ~ Answered(c) /\ ~ Answered(c)'
        BY <2>1 DEF StateOf, Answered
    <2> QED BY <1>5, <2>2
<1> QED BY <1>7, <1>8, <1>9, <1>10, <1>11 DEF Waiter

\* Every step of the runtime is a step of the promise or changes nothing in it.
LEMMA PromiseStep ==
    ASSUME OwnTypeOK, ReplyInv, TravelInv, [Next]_vars
    PROVE  Promise!PromiseNext \/ UNCHANGED <<StateMap, AnswerMap>>
<1>0. Nobody \notin Requests /\ \A d \in Requests : d \in Posts
    BY NamesAssumption DEF Posts
<1>1. ASSUME UNCHANGED <<at, outcome>>, \A d \in Requests : Answered(d) => reply'[d] = reply[d]
      PROVE  UNCHANGED <<StateMap, AnswerMap>>
    <2>1. \A d \in Requests : StateOf(d)' = StateOf(d) /\ (Answered(d)' <=> Answered(d))
        BY <1>1 DEF StateOf, Answered
    <2> QED BY <1>1, <2>1, MapFrame
<1>2. ASSUME NEW c \in Requests, PostRequest(c) \/ Waiter(c) \/ Handler(c) \/ Cancel(c)
      PROVE  Promise!PromiseNext \/ UNCHANGED <<StateMap, AnswerMap>>
    BY <1>2, PromisePost
<1>3. ASSUME NEW c \in Notices, PostNotice(c) \/ Handler(c) \/ Cancel(c)
      PROVE  UNCHANGED <<StateMap, AnswerMap>>
    <2>1. \A d \in Requests : d # c
        BY NamesAssumption
    <2>2. \A d \in Requests : at'[d] = at[d] /\ outcome'[d] = outcome[d] /\ reply'[d] = reply[d]
        BY <1>0, <1>3, <2>1 DEF PostNotice, Handler, Cancel, LockStdin, WriteBody, WriteNewline,
            WriteFails, Return, Goto, OwnTypeOK, Posts
    <2>3. \A d \in Requests : StateOf(d)' = StateOf(d) /\ (Answered(d)' <=> Answered(d))
        BY <2>2 DEF StateOf, Answered
    <2> QED BY <2>2, <2>3, MapFrame
<1>4. ASSUME NEW k \in Closers, BeginShutdown(k) \/ Shutdown(k) \/ CancelShutdown(k)
      PROVE  UNCHANGED <<StateMap, AnswerMap>>
    <2>1. UNCHANGED <<at, outcome, reply>>
        BY <1>4 DEF BeginShutdown, Shutdown, ClearPending, KillChild, WaitKilled, CancelShutdown,
            postVars
    <2> QED BY <1>1, <2>1
<1>5. ASSUME NEW c \in Requests, RouteResponse(c)
      PROVE  UNCHANGED <<StateMap, AnswerMap>>
    <2>1. UNCHANGED <<at, outcome>>
        BY <1>5 DEF RouteResponse
    <2>2. \/ reply' = reply
          \/ /\ channel[pending[IdOf[c]]] = "open"
             /\ reply' = [reply EXCEPT ![pending[IdOf[c]]] = c]
        BY <1>5 DEF RouteResponse
    <2>3. \A d \in Requests : Answered(d) => channel[d] = "sent"
        BY DEF ReplyInv, Reported, Answered
    <2>4. \A d \in Requests : Answered(d) => reply'[d] = reply[d]
        BY <2>2, <2>3 DEF OwnTypeOK
    <2> QED BY <1>1, <2>1, <2>4
<1>6. CASE \/ Agent \/ PublishLine \/ StdoutPush \/ StdoutBroadcast \/ ExitWatcher
           \/ StreamOnly \/ UNCHANGED vars
    <2>1. UNCHANGED <<at, outcome, reply>>
        BY <1>6 DEF Agent, AgentRead, AgentRespond, AgentNote, AgentExit, PublishLine, StdoutPush,
            StdoutBroadcast, ExitWatcher, WatchChild, ReapChild, ReportExit, WatcherPublish,
            StreamOnly, vars, postVars
    <2> QED BY <1>1, <2>1
<1> QED BY <1>2, <1>3, <1>4, <1>5, <1>6 DEF Next, Posts, StdoutLoop

\* The adapter implements RequestReply: a post ends in one way, an answer belongs
\* to a request that was posted under the same id, and no answer of the agent is
\* handed out twice.
THEOREM AdapterKeepsPromise == Spec => KeepsPromise
<1>1. Init => Promise!PromiseInit
    BY PromiseStart
<1>2. OwnTypeOK /\ ReplyInv /\ TravelInv /\ [Next]_vars
        => [Promise!PromiseNext]_(Promise!promiseVars)
    BY PromiseStep DEF StateMap, AnswerMap, Promise!promiseVars
<1>3. Init => OwnTypeOK /\ ReplyInv /\ TravelInv
    BY OwnTypeInit, ReplyInit, TravelInit
<1>4. OwnTypeOK /\ ReplyInv /\ TravelInv /\ [Next]_vars => (OwnTypeOK /\ ReplyInv /\ TravelInv)'
    BY OwnTypeStep, ReplyStep, TravelStep
<1> QED BY <1>1, <1>2, <1>3, <1>4, PTL DEF Spec, KeepsPromise, Promise!PromiseSpec

=============================================================================
