------------------------ MODULE TypeScriptSdk_proofs ------------------------
(***************************************************************************)
(* What holds of the TypeScript SDK: of its transport, AcpHttpClient, for  *)
(* any requests, any sizes of the ring and of the memory of responses, and *)
(* any number of failures; and of its sessions, SdkSessions, for any       *)
(* calls, sessions and connections.                                        *)
(*                                                                         *)
(* Three arguments about the transport: where each event is between the    *)
(* publisher that drew its number and the last event id (EventInv: in the  *)
(* ring's copy, behind the receiver or on the wire it is Coming, unless    *)
(* the server left it out, and what is Coming Follows what has come but    *)
(* for ids that were overtaken); that the memory of response ids is the    *)
(* tail of the responses in the inbox (SeenIsTail); and that an instance   *)
(* and its agent are gone once the DELETE was answered (Ends).             *)
(*                                                                         *)
(* Three about the sessions: that those that wait on a connection stand in *)
(* the order of their requests (Queued); that each open connection is live *)
(* or held by a dispose() that will close it (Accounted); and that the     *)
(* history of a restored session waits for its first prompt (Replayed).    *)
(* All three need to know what each call and connection refers to (Wired). *)
(***************************************************************************)
EXTENDS AcpHttpClient, SdkSessions, FiniteSetTheorems, SequenceTheorems, TLAPS

-----------------------------------------------------------------------------
(* The end of the connection.                                               *)

\* What close() finds and leaves.
Ends ==
    /\ postedOnce \/ \A r \in Requests : post[r] = "unsent"
    /\ registered \/ agent = "runs" => postedOnce
    /\ (delete \in {"none", "sent"} /\ agent = "runs") => registered
    /\ (delete = "stopping" /\ ~overtaken) => ~registered
    /\ (delete = "served" /\ ~overtaken) => ~registered /\ agent # "runs"
    /\ readable # "open" \/ closing # "no" => closed
    /\ closing = "deleting" => delete # "none"
    /\ closing = "no" => delete = "none"
    /\ (readable = "closed" /\ delete = "none") => ~postedOnce

-----------------------------------------------------------------------------
(* The events.                                                              *)

\* Where y may follow x.
Follows(x, y) == y < x => y \in contended

\* A number that is not yet sent is the last one, or was overtaken.
Drawn ==
    \A p \in Publishers : publishing[p].at # "idle" =>
        /\ publishing[p].sequence \in 1 .. sequence
        /\ publishing[p].sequence # sequence => publishing[p].sequence \in contended

\* Messages in the order of their numbers, but for those overtaken.
InOrder(messages) ==
    /\ \A k \in DOMAIN messages : messages[k].sequence \in 1 .. sequence
    /\ \A a, b \in DOMAIN messages :
          a < b => Follows(messages[a].sequence, messages[b].sequence)

sub == subscription[Me]

\* The last event id, and behind it what is on the wire.
Ahead(m) == IF m = 0 THEN lastEventId ELSE wire[m]

\* What an open stream will bring comes in order.
Queue ==
    /\ sub.next \in 1 .. Len(sender) + 1
    /\ \A m \in 1 .. Len(wire) : wire[m] \in 1 .. sequence
    /\ \A a, b \in 0 .. Len(wire) : a < b => Follows(Ahead(a), Ahead(b))
    /\ \A m \in 0 .. Len(wire), k \in Stream!Wanted(Me) :
          Follows(Ahead(m), sub.replay[k].sequence)
    /\ \A m \in 0 .. Len(wire), n \in sub.next .. Len(sender) :
          Follows(Ahead(m), sender[n].sequence)
    /\ \A k \in DOMAIN sub.replay, n \in sub.next .. Len(sender) :
          Follows(sub.replay[k].sequence, sender[n].sequence)

\* Where the stream is, on both sides.
Loop ==
    /\ closed => sse = "none"
    /\ sse = "open" <=> sub.at = "open"
    /\ sub.at = "subscribing" => sse = "connecting" /\ sub.from = lastEventId
    /\ sub.at = "closed" => delivered[Me] = lastEventId
    /\ sse # "open" => wire = <<>>
    /\ lastEventId <= sequence
    /\ InOrder(sub.replay)
    /\ sse = "open" => Queue

\* The event i was passed on, or is a response.
Done(i) ==
    \/ log[i].kind = "response"
    \/ \E k \in 1 .. Len(inbox) : inbox[k] = [kind |-> log[i].kind, req |-> log[i].req, id |-> i]

\* What an open stream will bring.
Coming ==
    {wire[m] : m \in 1 .. Len(wire)}
    \cup {sub.replay[k].sequence : k \in Stream!Wanted(Me)}
    \cup {sender[n].sequence : n \in sub.next .. Len(sender)}

\* An open stream will bring what is not passed on, or the server loses it.
Complete ==
    \A i \in 1 .. sequence : i \in lost \cup contended \cup Unsent \cup Coming \/ Done(i)

\* The last event id went back, if at all, to an id that was overtaken.
Passed ==
    /\ \A k \in 1 .. Len(inbox) : inbox[k].kind # "response" =>
          /\ inbox[k].id \in 1 .. sequence
          /\ inbox[k].id > lastEventId => \E c \in contended : c <= lastEventId
    /\ EventsInOrder

EventInv ==
    /\ Drawn
    /\ InOrder(ring)
    /\ InOrder(sender)
    /\ Loop
    /\ sse = "open" => Complete
    /\ Passed

-----------------------------------------------------------------------------
(* The responses.                                                           *)

\* The responses that came after the i-th entry and before the j-th.
Between(box, i, j) == {k \in i + 1 .. j - 1 : box[k].kind = "response"}

\* The memory is the tail of the responses that were passed on.
SeenIsTail ==
    \A i \in 1 .. Len(inbox) : inbox[i].kind = "response" =>
        LET after == Cardinality(Between(inbox, i, Len(inbox) + 1)) IN
        /\ after < Len(seen) => seen[Len(seen) - after] = inbox[i].req
        /\ after < Len(seen) \/ Len(seen) = Window

SeenInv == SeenIsTail /\ AnsweredOnce

-----------------------------------------------------------------------------
(* Types.                                                                   *)

LEMMA Sizes ==
    /\ RingSize \in Nat \ {0} /\ ChannelSize \in Nat \ {0} /\ Window \in Nat \ {0}
    /\ MaxFailures \in Nat
BY ClientAssumption

\* The subscription and the sequences of messages have their types.
LEMMA StreamTyped ==
    ASSUME TypeOK
    PROVE  /\ sequence \in Nat
           /\ ring \in Seq(Stream!Message) /\ sender \in Seq(Stream!Message)
           /\ Len(ring) \in Nat /\ Len(sender) \in Nat
           /\ publishing \in [Publishers -> Stream!Publishing]
           /\ subscription \in [{Me} -> Stream!Connection]
           /\ sub \in Stream!Connection
           /\ sub.at \in {"closed", "subscribing", "open"}
           /\ sub.from \in Nat /\ sub.next \in Nat \ {0}
           /\ sub.replay \in Seq(Stream!Message) /\ Len(sub.replay) \in Nat
           /\ sub.replayed \in Seq(Stream!Message) /\ sub.live \in Seq(Stream!Message)
           /\ delivered \in [{Me} -> Nat] /\ delivered[Me] \in Nat
           /\ \A k \in DOMAIN sub.replay : sub.replay[k].sequence \in Nat \ {0}
           /\ \A k \in DOMAIN ring : ring[k].sequence \in Nat \ {0}
           /\ \A n \in DOMAIN sender : sender[n].sequence \in Nat \ {0}
<1>1. /\ sequence \in Nat
      /\ ring \in Seq(Stream!Message) /\ sender \in Seq(Stream!Message)
      /\ publishing \in [Publishers -> Stream!Publishing]
      /\ subscription \in [{Me} -> Stream!Connection]
      /\ delivered \in [{Me} -> Nat]
    BY DEF TypeOK, Stream!StreamTypeOK
<1>2. sub \in Stream!Connection  BY <1>1 DEF sub
<1>3. /\ sub.at \in {"closed", "subscribing", "open"}
      /\ sub.from \in Nat /\ sub.next \in Nat \ {0}
      /\ sub.replay \in Seq(Stream!Message)
      /\ sub.replayed \in Seq(Stream!Message) /\ sub.live \in Seq(Stream!Message)
    BY <1>2 DEF Stream!Connection, Stream!Sequences1
<1>4. ASSUME NEW s \in Seq(Stream!Message)
      PROVE  Len(s) \in Nat /\ \A k \in DOMAIN s : s[k].sequence \in Nat \ {0}
    <2>1. Len(s) \in Nat /\ \A k \in DOMAIN s : s[k] \in Stream!Message
        BY LenProperties, ElementOfSeq
    <2> QED BY <2>1 DEF Stream!Message, Stream!Sequences1
<1>5. /\ Len(ring) \in Nat /\ Len(sender) \in Nat /\ Len(sub.replay) \in Nat
      /\ \A k \in DOMAIN sub.replay : sub.replay[k].sequence \in Nat \ {0}
      /\ \A k \in DOMAIN ring : ring[k].sequence \in Nat \ {0}
      /\ \A n \in DOMAIN sender : sender[n].sequence \in Nat \ {0}
    BY <1>1, <1>3, <1>4
<1>6. delivered[Me] \in Nat  BY <1>1
<1> QED BY <1>1, <1>2, <1>3, <1>5, <1>6

\* A message that is being published can be kept.
LEMMA EnvelopeTyped ==
    ASSUME TypeOK, Drawn, NEW p \in Publishers, publishing[p].at # "idle"
    PROVE  /\ Stream!Envelope(p) \in Stream!Message
           /\ Stream!Envelope(p).sequence = publishing[p].sequence
<1>1. publishing[p].sequence \in Nat \ {0}  BY StreamTyped DEF Drawn
<1> QED BY <1>1 DEF Stream!Envelope, Stream!Message, Stream!Sequences1

\* Pushing keeps the ring within its size, and its order.
LEMMA Pushes ==
    ASSUME TypeOK, NEW msg \in Stream!Message
    PROVE  /\ Stream!Pushed(msg) \in Seq(Stream!Message)
           /\ Len(Stream!Pushed(msg)) <= RingSize
           /\ \/ Stream!Pushed(msg) = Append(ring, msg)
              \/ /\ Len(Stream!Pushed(msg)) = Len(ring)
                 /\ \A k \in 1 .. Len(ring) :
                       Stream!Pushed(msg)[k] = Append(ring, msg)[k + 1]
<1> DEFINE longer == Append(ring, msg)
<1>1. longer \in Seq(Stream!Message) /\ Len(longer) = Len(ring) + 1 /\ Len(ring) \in Nat
    BY StreamTyped
<1>2. Len(ring) <= RingSize /\ RingSize \in Nat
    BY Sizes DEF TypeOK, Stream!StreamTypeOK
<1>3. Stream!Pushed(msg) = IF Len(longer) > RingSize THEN Tail(longer) ELSE longer
    BY DEF Stream!Pushed
<1> HIDE DEF longer
<1>4. CASE Len(longer) > RingSize
    <2>1. longer # <<>>  BY <1>1
    <2>2. /\ Tail(longer) \in Seq(Stream!Message) /\ Len(Tail(longer)) = Len(ring)
          /\ \A k \in 1 .. Len(ring) : Tail(longer)[k] = longer[k + 1]
        BY <1>1, <2>1, HeadTailProperties
    <2> QED BY <1>2, <1>3, <1>4, <2>2 DEF longer
<1>5. CASE ~(Len(longer) > RingSize)  BY <1>1, <1>2, <1>3, <1>5 DEF longer
<1> QED BY <1>4, <1>5

\* The rest of a sequence, and its elements.
LEMMA Remainder ==
    ASSUME NEW Elements, NEW s \in Seq(Elements), NEW k \in DOMAIN s
    PROVE  /\ SubSeq(s, k + 1, Len(s)) \in Seq(Elements)
           /\ DOMAIN SubSeq(s, k + 1, Len(s)) = 1 .. Len(s) - k
           /\ \A j \in 1 .. Len(s) - k :
                 SubSeq(s, k + 1, Len(s))[j] = s[k + j] /\ k + j \in DOMAIN s
<1>1. k + 1 \in 1 .. Len(s) + 1 /\ Len(s) \in 0 .. Len(s) /\ k \in Nat /\ Len(s) \in Nat
      /\ k >= 1 /\ DOMAIN s = 1 .. Len(s)
    BY LenProperties
<1>2. SubSeq(s, k + 1, Len(s)) \in Seq(Elements)  BY <1>1, SubSeqProperties
<1>3. Len(SubSeq(s, k + 1, Len(s))) = Len(s) - k  BY <1>1
<1>4. \A j \in 1 .. Len(s) - k : SubSeq(s, k + 1, Len(s))[j] = s[k + j]  BY <1>1
<1> QED BY <1>1, <1>2, <1>3, <1>4, LenProperties

StreamStep ==
    \/ \E p \in Publishers : \/ Stream!FetchAdd(p) \/ Stream!PushRing(p)
                             \/ Stream!Broadcast(p) \/ Stream!AbandonInject(p)
    \/ Stream!SnapshotRing(Me) \/ Stream!OpenReceiver(Me)
    \/ Stream!DeliverReplay(Me) \/ Stream!DeliverLive(Me) \/ Stream!SkipLagged(Me)
    \/ \E next \in {"none", "waiting"} : HangUp(next)
    \/ UNCHANGED streamVars

\* Every step of the event stream keeps its types.
LEMMA StreamType ==
    ASSUME TypeOK, Drawn, StreamStep
    PROVE  Stream!StreamTypeOK'
<1> USE DEF Stream!clientVars
<1>0. Stream!StreamTypeOK  BY DEF TypeOK
<1>1. ASSUME NEW p \in Publishers, Stream!FetchAdd(p) PROVE Stream!StreamTypeOK'
    <2>1. sequence \in Nat  BY StreamTyped
    <2>2. [at |-> "push", sequence |-> sequence + 1] \in Stream!Publishing
        BY <2>1 DEF Stream!Publishing
    <2> QED BY <1>0, <1>1, <2>1, <2>2 DEF Stream!FetchAdd, Stream!StreamTypeOK
<1>2. ASSUME NEW p \in Publishers, NEW place \in {"idle", "send"},
             publishing' = [publishing EXCEPT ![p].at = place]
      PROVE  publishing' \in [Publishers -> Stream!Publishing]
    BY <1>0, <1>2 DEF Stream!StreamTypeOK, Stream!Publishing
<1>3. ASSUME NEW p \in Publishers, Stream!PushRing(p) PROVE Stream!StreamTypeOK'
    <2>1. Stream!Envelope(p) \in Stream!Message  BY <1>3, EnvelopeTyped DEF Stream!PushRing
    <2>2. ring' \in Seq(Stream!Message) /\ Len(ring') <= RingSize
        BY <1>3, <2>1, Pushes DEF Stream!PushRing
    <2> QED BY <1>0, <1>2, <1>3, <2>2 DEF Stream!PushRing, Stream!StreamTypeOK
<1>4. ASSUME NEW p \in Publishers, Stream!Broadcast(p) PROVE Stream!StreamTypeOK'
    <2>1. Stream!Envelope(p) \in Stream!Message  BY <1>4, EnvelopeTyped DEF Stream!Broadcast
    <2>2. sender' \in Seq(Stream!Message)  BY <1>4, <2>1, StreamTyped DEF Stream!Broadcast
    <2> QED BY <1>0, <1>2, <1>4, <2>2 DEF Stream!Broadcast, Stream!StreamTypeOK
<1>5. ASSUME NEW p \in Publishers, Stream!AbandonInject(p) PROVE Stream!StreamTypeOK'
    BY <1>0, <1>2, <1>5 DEF Stream!AbandonInject, Stream!StreamTypeOK
<1>6. CASE Stream!SnapshotRing(Me)
    <2>1. Stream!Opening(Me) \in Stream!Connection
        BY StreamTyped DEF Stream!Opening, Stream!Connection, Stream!Sequences1
    <2>2. subscription' \in [{Me} -> Stream!Connection]
        BY <1>6, <2>1, StreamTyped DEF Stream!SnapshotRing
    <2>3. connects' \in [{Me} -> Nat]
        BY <1>0, <1>6 DEF Stream!SnapshotRing, Stream!StreamTypeOK
    <2> QED BY <1>0, <1>6, <2>2, <2>3 DEF Stream!SnapshotRing, Stream!StreamTypeOK
<1>7. CASE Stream!OpenReceiver(Me)
    <2>1. Len(sender) + 1 \in Stream!Sequences1  BY StreamTyped DEF Stream!Sequences1
    <2>2. [subscription[Me] EXCEPT !.at = "open", !.next = Len(sender) + 1] \in Stream!Connection
        BY <2>1, StreamTyped DEF sub, Stream!Connection
    <2>3. subscription' \in [{Me} -> Stream!Connection]
        BY <1>7, <2>2, StreamTyped DEF Stream!OpenReceiver
    <2> QED BY <1>0, <1>7, <2>3 DEF Stream!OpenReceiver, Stream!StreamTypeOK
<1>8. CASE Stream!DeliverReplay(Me)
    <2>1. PICK k \in DOMAIN sub.replay :
            /\ subscription' = [subscription EXCEPT
                    ![Me].replay = SubSeq(@, k + 1, Len(@)),
                    ![Me].replayed = Append(@, sub.replay[k])]
            /\ delivered' = [delivered EXCEPT ![Me] = sub.replay[k].sequence]
        BY <1>8 DEF Stream!DeliverReplay, Stream!Wanted, sub
    <2>2. sub.replay[k] \in Stream!Message /\ sub.replay[k].sequence \in Nat
        BY StreamTyped, LenProperties, ElementOfSeq
    <2>3. SubSeq(sub.replay, k + 1, Len(sub.replay)) \in Seq(Stream!Message)
        BY StreamTyped, Remainder
    <2>4. Append(sub.replayed, sub.replay[k]) \in Seq(Stream!Message)
        BY <2>2, StreamTyped
    <2>5. subscription' \in [{Me} -> Stream!Connection]
        BY <2>1, <2>3, <2>4, StreamTyped DEF sub, Stream!Connection
    <2>6. delivered' \in [{Me} -> Nat]  BY <2>1, <2>2, StreamTyped
    <2> QED BY <1>0, <1>8, <2>5, <2>6 DEF Stream!DeliverReplay, Stream!StreamTypeOK
<1>9. Stream!Oldest \in Nat \ {0} /\ Stream!Oldest <= Len(sender) + 1
    BY StreamTyped, Sizes DEF Stream!Oldest
<1>10. CASE Stream!DeliverLive(Me)
    <2>1. sub.next \in 1 .. Len(sender)
        BY <1>9, <1>10, StreamTyped DEF Stream!DeliverLive, sub
    <2>2. sender[sub.next] \in Stream!Message /\ sender[sub.next].sequence \in Nat
        BY <2>1, StreamTyped, LenProperties, ElementOfSeq
    <2>3. Append(sub.live, sender[sub.next]) \in Seq(Stream!Message)
          /\ sub.next + 1 \in Stream!Sequences1
        BY <2>1, <2>2, StreamTyped DEF Stream!Sequences1
    <2>4. /\ subscription' = [subscription EXCEPT
                    ![Me].next = @ + 1, ![Me].live = Append(@, sender[sub.next])]
          /\ delivered' = [delivered EXCEPT ![Me] = sender[sub.next].sequence]
        BY <1>10 DEF Stream!DeliverLive, sub
    <2>5. subscription' \in [{Me} -> Stream!Connection]
        BY <2>3, <2>4, StreamTyped DEF sub, Stream!Connection
    <2>6. delivered' \in [{Me} -> Nat]  BY <2>2, <2>4, StreamTyped
    <2> QED BY <1>0, <1>10, <2>5, <2>6 DEF Stream!DeliverLive, Stream!StreamTypeOK
<1>11. CASE Stream!SkipLagged(Me)
    <2>1. Stream!Oldest \in Stream!Sequences1  BY <1>9 DEF Stream!Sequences1
    <2>2. subscription' \in [{Me} -> Stream!Connection]
        BY <1>11, <2>1, StreamTyped DEF Stream!SkipLagged, sub, Stream!Connection
    <2> QED BY <1>0, <1>11, <2>2 DEF Stream!SkipLagged, Stream!StreamTypeOK
<1>12. ASSUME NEW next, HangUp(next) PROVE Stream!StreamTypeOK'
    <2>1. Stream!Closed \in Stream!Connection
        BY DEF Stream!Closed, Stream!Connection, Stream!Sequences1
    <2>2. lastEventId \in Nat  BY DEF TypeOK
    <2>3. subscription' \in [{Me} -> Stream!Connection] /\ delivered' \in [{Me} -> Nat]
        BY <1>12, <2>1, <2>2, StreamTyped DEF HangUp
    <2> QED BY <1>0, <1>12, <2>3 DEF HangUp, Stream!StreamTypeOK
<1>13. CASE UNCHANGED streamVars  BY <1>0, <1>13 DEF streamVars, Stream!StreamTypeOK
<1> QED
    BY <1>1, <1>3, <1>4, <1>5, <1>6, <1>7, <1>8, <1>10, <1>11, <1>12, <1>13 DEF StreamStep

\* What the readable side is given keeps its type.
LEMMA PushedType ==
    ASSUME TypeOK, NEW kind \in Kinds, NEW r \in Requests \cup {"none"}, NEW id \in Nat,
           kind = "response" => r \in Requests,
           PushInbound(kind, r, id)
    PROVE  /\ inbox' \in Seq(Entry)
           /\ seen' \in Seq(Requests) /\ Len(seen') <= Window
<1>1. CASE UNCHANGED inboxVars  BY <1>1 DEF inboxVars, TypeOK
<1>2. [kind |-> kind, req |-> r, id |-> id] \in Entry  BY DEF Entry
<1>3. ASSUME Remember(r), kind = "response",
             inbox' = Append(inbox, [kind |-> kind, req |-> r, id |-> 0])
      PROVE  /\ inbox' \in Seq(Entry)
             /\ seen' \in Seq(Requests) /\ Len(seen') <= Window
    <2>1. [kind |-> kind, req |-> r, id |-> 0] \in Entry  BY DEF Entry
    <2>2. inbox' \in Seq(Entry)  BY <1>3, <2>1 DEF TypeOK
    <2>3. Append(seen, r) \in Seq(Requests) /\ Len(Append(seen, r)) = Len(seen) + 1
        BY <1>3 DEF TypeOK
    <2>4. Append(seen, r) # <<>>
          /\ Tail(Append(seen, r)) \in Seq(Requests)
          /\ Len(Tail(Append(seen, r))) = Len(seen)
        BY <1>3, <2>3, AppendProperties, HeadTailProperties, LenProperties DEF TypeOK
    <2>5. Len(seen) \in Nat /\ Len(seen) <= Window /\ Window \in Nat
        BY ClientAssumption DEF TypeOK
    <2> QED BY <1>3, <2>2, <2>3, <2>4, <2>5 DEF Remember
<1>4. ASSUME inbox' = Append(inbox, [kind |-> kind, req |-> r, id |-> id]), UNCHANGED seen
      PROVE  /\ inbox' \in Seq(Entry)
             /\ seen' \in Seq(Requests) /\ Len(seen') <= Window
    BY <1>2, <1>4 DEF TypeOK
<1> QED BY <1>1, <1>3, <1>4 DEF PushInbound

\* What a logged event says.
LEMMA SaidTyped ==
    ASSUME TypeOK, NEW i \in 1 .. sequence
    PROVE  /\ log[i].kind \in Kinds
           /\ log[i].req \in Requests \cup {"none"}
           /\ log[i].kind # "exit" => log[i].req \in Requests
<1>1. log[i] \in Said  BY LenProperties, ElementOfSeq DEF TypeOK
<1> QED BY <1>1 DEF Said, Kinds

\* The event on the way is a logged one.
LEMMA HeadOfWire ==
    ASSUME TypeOK, EventInv, sse = "open", wire # <<>>
    PROVE  /\ Head(wire) = wire[1] /\ Head(wire) \in 1 .. sequence /\ Head(wire) \in Nat
           /\ Tail(wire) \in Seq(Nat) /\ Len(wire) \in Nat \ {0}
           /\ Len(Tail(wire)) = Len(wire) - 1
           /\ \A m \in 1 .. Len(wire) - 1 : Tail(wire)[m] = wire[m + 1]
<1>1. wire \in Seq(Nat) /\ sequence \in Nat  BY StreamTyped DEF TypeOK
<1>2. Len(wire) \in Nat /\ Len(wire) >= 1 /\ Head(wire) = wire[1]  BY <1>1, <1>1
<1>3. wire[1] \in 1 .. sequence  BY <1>2 DEF EventInv, Loop, Queue
<1>4. /\ Tail(wire) \in Seq(Nat) /\ Len(Tail(wire)) = Len(wire) - 1
      /\ \A m \in 1 .. Len(wire) - 1 : Tail(wire)[m] = wire[m + 1]
    BY <1>1, HeadTailProperties
<1> QED BY <1>1, <1>2, <1>3, <1>4

LEMMA UnsentTyped ==
    ASSUME TypeOK, Drawn
    PROVE  Unsent \subseteq 1 .. sequence
BY DEF Drawn, Unsent

\* The types of what the server keeps of its events.
EventsTyped ==
    /\ Stream!StreamTypeOK
    /\ log \in Seq(Said) /\ Len(log) = sequence
    /\ contended \subseteq 1 .. sequence
    /\ lost \subseteq 1 .. sequence

LEMMA PublishType ==
    ASSUME TypeOK, Drawn, NEW p \in Publishers, NEW kind, NEW r,
           [kind |-> kind, req |-> r] \in Said, Publish(p, kind, r)
    PROVE  EventsTyped'
<1>1. Stream!FetchAdd(p)  BY DEF Publish
<1>2. Stream!StreamTypeOK'  BY <1>1, StreamType DEF StreamStep
<1>3. sequence' = sequence + 1 /\ sequence \in Nat
    BY <1>1, StreamTyped DEF Stream!FetchAdd
<1>4. log' \in Seq(Said) /\ Len(log') = sequence + 1
    BY <1>3, AppendProperties DEF Publish, TypeOK
<1>5. contended \cup Unsent \subseteq 1 .. sequence /\ lost \subseteq 1 .. sequence
    BY UnsentTyped DEF TypeOK
<1>6. 1 .. sequence \subseteq 1 .. sequence'  BY <1>3
<1> QED BY <1>2, <1>3, <1>4, <1>5, <1>6 DEF Publish, EventsTyped

LEMMA HangUpType ==
    ASSUME TypeOK, Drawn, NEW next \in {"none", "waiting"}, HangUp(next)
    PROVE  EventsTyped' /\ sse' = next /\ wire' = <<>> /\ UNCHANGED lastEventId
<1>1. Stream!StreamTypeOK'  BY StreamType DEF StreamStep
<1> QED BY <1>1 DEF HangUp, TypeOK, EventsTyped

LEMMA FailReadableType ==
    ASSUME TypeOK, Drawn, FailReadable
    PROVE  /\ EventsTyped' /\ closed' \in BOOLEAN /\ readable' \in {"open", "closed", "errored"}
           /\ sse' \in {"none", "connecting", "open", "waiting"}
           /\ wire' \in Seq(Nat)
           /\ UNCHANGED <<closing, lastEventId>>
<1>1. CASE closed
    <2>1. UNCHANGED <<endVars, loopVars, eventVars>>  BY <1>1 DEF FailReadable
    <2>2. Stream!StreamTypeOK'
        BY <2>1, StreamType DEF StreamStep, eventVars
    <2> QED BY <2>1, <2>2 DEF endVars, loopVars, eventVars, streamVars, TypeOK, EventsTyped
<1>2. CASE ~closed
    <2>1. HangUp("none") /\ closed' = TRUE /\ readable' = "errored" /\ UNCHANGED closing
        BY <1>2 DEF FailReadable
    <2>2. EventsTyped' /\ sse' = "none" /\ wire' = <<>> /\ UNCHANGED lastEventId
        BY <2>1, HangUpType
    <2>3. <<>> \in Seq(Nat)  OBVIOUS
    <2> QED BY <2>1, <2>2, <2>3
<1> QED BY <1>1, <1>2

LEMMA InitType == Init => TypeOK
<1> SUFFICES ASSUME Init PROVE TypeOK  OBVIOUS
<1>1. <<>> \in Seq(Entry) /\ <<>> \in Seq(Requests) /\ <<>> \in Seq(Nat) /\ <<>> \in Seq(Said)
    OBVIOUS
<1>2. 0 <= Window /\ 0 \in 0 .. MaxFailures  BY ClientAssumption
<1>3. seen \in Seq(Requests) /\ Len(seen) <= Window  BY <1>1, <1>2 DEF Init
<1>4. /\ post \in [Requests -> Places]
      /\ bootstrap \in [Requests -> BOOLEAN]
      /\ question \in [Requests -> {"none", "asked", "heard", "sent", "over"}]
    BY DEF Init, Places
<1>5. Stream!StreamTypeOK
    <2>1. Stream!Closed \in Stream!Connection
        BY DEF Stream!Closed, Stream!Connection, Stream!Sequences1
    <2>2. <<>> \in Seq(Stream!Message) /\ Len(<<>>) <= RingSize  BY Sizes
    <2>3. [at |-> "idle", sequence |-> 0] \in Stream!Publishing  BY DEF Stream!Publishing
    <2> QED BY <2>1, <2>2, <2>3 DEF Init, Stream!StreamInit, Stream!StreamTypeOK
<1>6. Len(log) = sequence /\ sequence = 0  BY DEF Init, Stream!StreamInit
<1> QED BY <1>1, <1>2, <1>3, <1>4, <1>5, <1>6 DEF Init, TypeOK

\* What the client has, and what the server has besides its events.
ClientTyped ==
    /\ post \in [Requests -> Places]
    /\ bootstrap \in [Requests -> BOOLEAN]
    /\ question \in [Requests -> {"none", "asked", "heard", "sent", "over"}]
    /\ informed \subseteq Requests
    /\ postedOnce \in BOOLEAN
    /\ closed \in BOOLEAN
    /\ closing \in {"no", "deleting", "done"}
    /\ readable \in {"open", "closed", "errored"}
    /\ inbox \in Seq(Entry)
    /\ seen \in Seq(Requests) /\ Len(seen) <= Window
    /\ sse \in {"none", "connecting", "open", "waiting"}
    /\ lastEventId \in Nat
    /\ wire \in Seq(Nat)
    /\ registered \in BOOLEAN
    /\ agent \in {"none", "runs", "exited"}
    /\ delete \in {"none", "sent", "stopping", "served", "lost"}
    /\ overtaken \in BOOLEAN
    /\ failures \in 0 .. MaxFailures

LEMMA TypeParts == TypeOK <=> ClientTyped /\ EventsTyped
BY DEF TypeOK, ClientTyped, EventsTyped

LEMMA NextType == TypeOK /\ EventInv /\ [Next]_vars => TypeOK'
<1> SUFFICES ASSUME TypeOK, EventInv, [Next]_vars PROVE TypeOK'
    OBVIOUS
<1>0. ClientTyped /\ EventsTyped /\ Drawn  BY TypeParts DEF EventInv
<1> SUFFICES ClientTyped' /\ EventsTyped'
    BY DEF TypeOK, ClientTyped, EventsTyped
<1> USE DEF postVars, endVars, inboxVars, loopVars, agentVars, deleteVars
<1>1. ASSUME UNCHANGED eventVars PROVE EventsTyped'
    <2>1. Stream!StreamTypeOK'  BY <1>0, <1>1, StreamType DEF StreamStep, eventVars
    <2> QED BY <1>0, <1>1, <2>1 DEF eventVars, streamVars, EventsTyped
<1>2. ASSUME UNCHANGED <<log, contended>>, StreamStep, sequence' = sequence,
             lost' \subseteq 1 .. sequence
      PROVE  EventsTyped'
    BY <1>0, <1>2, StreamType DEF EventsTyped
<1>3. ASSUME Fail PROVE failures' \in 0 .. MaxFailures
    <2>1. failures \in Nat /\ MaxFailures \in Nat  BY ClientAssumption DEF TypeOK
    <2> QED BY <1>3, <2>1 DEF Fail
<1>4. ASSUME NEW r \in Requests, WriteMessage(r) PROVE ClientTyped' /\ EventsTyped'
    BY <1>0, <1>1, <1>4 DEF WriteMessage, EnsureSseLoop, ClientTyped, Places
<1>5. ASSUME NEW r \in Requests, WriteAnswer(r) PROVE ClientTyped' /\ EventsTyped'
    BY <1>0, <1>1, <1>5 DEF WriteAnswer, EnsureSseLoop, ClientTyped
<1>6. ASSUME NEW r \in Requests, PostReplied(r) PROVE ClientTyped' /\ EventsTyped'
    <2>1. /\ inbox' \in Seq(Entry)
          /\ seen' \in Seq(Requests) /\ Len(seen') <= Window
        BY <1>6, PushedType DEF PostReplied, Kinds
    <2>2. post' \in [Requests -> Places]  BY <1>0, <1>6 DEF PostReplied, ClientTyped, Places
    <2> QED BY <1>0, <1>1, <1>6, <2>1, <2>2 DEF PostReplied, ClientTyped
<1>7. ASSUME NEW r \in Requests, NEW place \in Places, post' = [post EXCEPT ![r] = place]
      PROVE  post' \in [Requests -> Places]
    BY <1>0, <1>7 DEF ClientTyped
<1>8. ASSUME NEW r \in Requests, PostRefused(r) PROVE ClientTyped' /\ EventsTyped'
    <2>1. post' \in [Requests -> Places]  BY <1>7, <1>8 DEF PostRefused, Places
    <2> QED BY <1>0, <1>8, <2>1, FailReadableType DEF PostRefused, ClientTyped
<1>9. ASSUME NEW r \in Requests, PostFails(r) PROVE ClientTyped' /\ EventsTyped'
    <2>1. post' \in [Requests -> Places]  BY <1>7, <1>9 DEF PostFails, Places
    <2>2. failures' \in 0 .. MaxFailures  BY <1>3, <1>9 DEF PostFails
    <2> QED BY <1>0, <1>9, <2>1, <2>2, FailReadableType DEF PostFails, ClientTyped
<1>10. ASSUME NEW r \in Requests, AnswerFails(r) PROVE ClientTyped' /\ EventsTyped'
    <2>1. question' \in [Requests -> {"none", "asked", "heard", "sent", "over"}]
        BY <1>0, <1>10 DEF AnswerFails, ClientTyped
    <2>2. failures' \in 0 .. MaxFailures  BY <1>0, <1>3, <1>10 DEF AnswerFails, ClientTyped
    <2> QED BY <1>0, <1>10, <2>1, <2>2, FailReadableType DEF AnswerFails, ClientTyped
<1>11. ASSUME NEW r \in Requests, PostArrives(r) PROVE ClientTyped' /\ EventsTyped'
    <2>1. post' \in [Requests -> Places]
        BY <1>7, <1>11 DEF PostArrives, PostServed, PostStarts, PostTurnedAway, PostIs, Places
    <2>2. /\ registered' \in BOOLEAN /\ agent' \in {"none", "runs", "exited"}
          /\ overtaken' \in BOOLEAN /\ failures' \in 0 .. MaxFailures
        BY <1>0, <1>3, <1>11 DEF PostArrives, PostServed, PostStarts, PostTurnedAway, ClientTyped
    <2> QED BY <1>0, <1>1, <1>11, <2>1, <2>2 DEF PostArrives, ClientTyped
<1>12. ASSUME NEW r \in Requests, AnswerArrives(r) PROVE ClientTyped' /\ EventsTyped'
    BY <1>0, <1>1, <1>12 DEF AnswerArrives, ClientTyped
<1>13. ASSUME NEW r \in Requests, RequestTimesOut(r) \/ StrandedReturns(r) \/ SlashReplies(r)
       PROVE  ClientTyped' /\ EventsTyped'
    <2>1. post' \in [Requests -> Places]
        BY <1>7, <1>13 DEF RequestTimesOut, StrandedReturns, SlashReplies, PostIs, Places
    <2> QED BY <1>0, <1>1, <1>13, <2>1
            DEF RequestTimesOut, StrandedReturns, SlashReplies, ClientTyped
<1>14. ASSUME NEW r \in Requests, AgentNotifies(r) \/ AgentAsks(r) \/ AgentAnswers(r)
       PROVE  ClientTyped' /\ EventsTyped'
    <2>1. \A kind \in Kinds \ {"exit"} : [kind |-> kind, req |-> r] \in Said  BY DEF Said
    <2>2. "stdout" \in Publishers  BY DEF Publishers
    <2>3. EventsTyped'
        BY <1>0, <1>14, <2>1, <2>2, PublishType DEF AgentNotifies, AgentAsks, AgentAnswers, Kinds
    <2>4. post' \in [Requests -> Places]
        <3>1. UNCHANGED post \/ post' = [post EXCEPT ![r] = "replied"]
            BY <1>14 DEF AgentNotifies, AgentAsks, AgentAnswers
        <3> QED BY <1>0, <1>7, <3>1 DEF ClientTyped, Places
    <2>5. question' \in [Requests -> {"none", "asked", "heard", "sent", "over"}]
        BY <1>0, <1>14 DEF AgentNotifies, AgentAsks, AgentAnswers, ClientTyped
    <2>6. UNCHANGED <<bootstrap, informed, postedOnce, endVars, inboxVars, loopVars, agentVars,
                      deleteVars, failures>>
        BY <1>14 DEF AgentNotifies, AgentAsks, AgentAnswers
    <2> QED BY <1>0, <2>3, <2>4, <2>5, <2>6 DEF ClientTyped
<1>15. ASSUME NEW r \in Requests, InjectNotification(r) PROVE ClientTyped' /\ EventsTyped'
    <2>1. [kind |-> "note", req |-> r] \in Said  BY DEF Said, Kinds
    <2>2. r \in Publishers  BY <1>15 DEF InjectNotification, Publishers
    <2>3. EventsTyped'  BY <1>0, <1>15, <2>1, <2>2, PublishType DEF InjectNotification
    <2> QED BY <1>0, <1>15, <2>3 DEF InjectNotification, ClientTyped
<1>16. ASSUME NEW r \in Requests, InjectDropped(r) PROVE ClientTyped' /\ EventsTyped'
    <2>1. r \in Publishers /\ publishing[r].at # "idle"
        BY <1>16 DEF InjectDropped, Stream!AbandonInject, Publishers
    <2>2. publishing[r].sequence \in 1 .. sequence  BY <1>0, <2>1 DEF Drawn
    <2>3. StreamStep /\ sequence' = sequence
        BY <1>16, <2>1 DEF InjectDropped, StreamStep, Stream!AbandonInject
    <2>4. lost' \subseteq 1 .. sequence  BY <1>0, <1>16, <2>2 DEF InjectDropped, EventsTyped
    <2>5. EventsTyped'  BY <1>2, <1>16, <2>3, <2>4 DEF InjectDropped
    <2> QED BY <1>0, <1>16, <2>5 DEF InjectDropped, ClientTyped
<1>17. ASSUME NEW p \in Publishers, PublishGoesOn(p) PROVE ClientTyped' /\ EventsTyped'
    <2>1. StreamStep /\ sequence' = sequence
        BY <1>17 DEF PublishGoesOn, StreamStep, Stream!PushRing, Stream!Broadcast
    <2>2. EventsTyped'  BY <1>0, <1>2, <1>17, <2>1 DEF PublishGoesOn, EventsTyped
    <2> QED BY <1>0, <1>17, <2>2 DEF PublishGoesOn, ClientTyped
<1>18. CASE SseArrives
    <2>1. StreamStep /\ sequence' = sequence
        BY <1>18 DEF SseArrives, StreamStep, Stream!SnapshotRing
    <2>2. EventsTyped'  BY <1>0, <1>2, <1>18, <2>1 DEF SseArrives, EventsTyped
    <2> QED BY <1>0, <1>18, <2>2 DEF SseArrives, ClientTyped
<1>19. CASE SseRefused \/ SseAgain
    BY <1>0, <1>1, <1>19 DEF SseRefused, SseAgain, ClientTyped
<1>20. CASE SseOpens
    <2>1. StreamStep /\ sequence' = sequence
        BY <1>20 DEF SseOpens, StreamStep, Stream!OpenReceiver
    <2>2. lost' \subseteq 1 .. sequence  BY <1>20 DEF SseOpens
    <2>3. EventsTyped'  BY <1>2, <1>20, <2>1, <2>2 DEF SseOpens
    <2> QED BY <1>0, <1>20, <2>3 DEF SseOpens, ClientTyped
<1>21. CASE SseSend
    <2>1. StreamStep /\ sequence' = sequence
        BY <1>21 DEF SseSend, StreamStep, Stream!DeliverReplay, Stream!DeliverLive
    <2>2. EventsTyped'  BY <1>0, <1>2, <1>21, <2>1 DEF SseSend, EventsTyped
    <2>3. delivered'[Me] \in Nat  BY <2>2 DEF EventsTyped, Stream!StreamTypeOK
    <2>4. wire' \in Seq(Nat)  BY <1>0, <1>21, <2>3 DEF SseSend, ClientTyped
    <2> QED BY <1>0, <1>21, <2>2, <2>4 DEF SseSend, ClientTyped
<1>22. CASE SseLags
    <2>1. StreamStep /\ sequence' = sequence
        BY <1>22 DEF SseLags, StreamStep, Stream!SkipLagged
    <2>2. \A n \in sub.next .. Stream!Oldest - 1 : n \in 1 .. Len(sender)
        BY StreamTyped, Sizes DEF Stream!Oldest
    <2>3. \A n \in 1 .. Len(sender) : sender[n].sequence \in 1 .. sequence
        BY StreamTyped, LenProperties DEF EventInv, InOrder
    <2>4. lost' \subseteq 1 .. sequence
        BY <1>0, <1>22, <2>2, <2>3 DEF SseLags, EventsTyped, sub
    <2>5. EventsTyped'  BY <1>2, <1>22, <2>1, <2>4 DEF SseLags
    <2> QED BY <1>0, <1>22, <2>5 DEF SseLags, ClientTyped
<1>23. CASE ProcessSseEvent
    <2> DEFINE h == Head(wire)
    <2>1. h \in Nat /\ h \in 1 .. sequence /\ wire' \in Seq(Nat)
        BY <1>23, HeadOfWire DEF ProcessSseEvent
    <2>2. /\ log[h].kind \in Kinds /\ log[h].req \in Requests \cup {"none"}
          /\ log[h].kind # "exit" => log[h].req \in Requests
        BY <2>1, SaidTyped
    <2>3. PushInbound(log[h].kind, log[h].req, h) /\ Heard(h)
        BY <1>23 DEF ProcessSseEvent
    <2> HIDE DEF h
    <2>4. /\ inbox' \in Seq(Entry)
          /\ seen' \in Seq(Requests) /\ Len(seen') <= Window
        BY <2>1, <2>2, <2>3, PushedType
    <2>5. question' \in [Requests -> {"none", "asked", "heard", "sent", "over"}]
        BY <1>0, <2>2, <2>3 DEF Heard, ClientTyped
    <2>6. lastEventId' \in Nat  BY <1>23, <2>1 DEF ProcessSseEvent, h
    <2> QED BY <1>0, <1>1, <1>23, <2>1, <2>4, <2>5, <2>6 DEF ProcessSseEvent, ClientTyped
<1>24. CASE SseEnds \/ SseFails
    <2>1. failures' \in 0 .. MaxFailures  BY <1>3, <1>24 DEF SseEnds, SseFails
    <2>2. /\ EventsTyped' /\ sse' \in {"none", "waiting"} /\ wire' = <<>>
          /\ UNCHANGED lastEventId
        BY <1>0, <1>24, HangUpType DEF SseEnds, SseFails
    <2>3. <<>> \in Seq(Nat)  OBVIOUS
    <2> QED BY <1>0, <1>24, <2>1, <2>2, <2>3 DEF SseEnds, SseFails, ClientTyped
<1>25. CASE Close
    <2>1. CASE closed  BY <1>0, <1>1, <1>25, <2>1 DEF Close, ClientTyped
    <2>2. CASE ~closed
        <3>1. EventsTyped' /\ sse' = "none" /\ wire' = <<>> /\ UNCHANGED lastEventId
            BY <1>0, <1>25, <2>2, HangUpType DEF Close
        <3>2. <<>> \in Seq(Nat)  OBVIOUS
        <3>3. /\ closing' \in {"no", "deleting", "done"}
              /\ readable' \in {"open", "closed", "errored"}
              /\ delete' \in {"none", "sent", "stopping", "served", "lost"}
            BY <1>0, <1>25, <2>2 DEF Close, ClientTyped
        <3> QED BY <1>0, <1>25, <3>1, <3>2, <3>3 DEF Close, ClientTyped
    <2> QED BY <2>1, <2>2
<1>26. CASE CloseReturns
    <2>1. failures' \in 0 .. MaxFailures  BY <1>0, <1>3, <1>26 DEF CloseReturns, ClientTyped
    <2>2. delete' \in {"none", "sent", "stopping", "served", "lost"}
        BY <1>0, <1>26 DEF CloseReturns, ClientTyped
    <2> QED BY <1>0, <1>1, <1>26, <2>1, <2>2 DEF CloseReturns, ClientTyped
<1>27. CASE DeleteArrives
    <2>1. post' \in [Requests -> Places]  BY <1>0, <1>27 DEF DeleteArrives, ClientTyped, Places
    <2> QED BY <1>0, <1>1, <1>27, <2>1 DEF DeleteArrives, ClientTyped
<1>28. CASE DeleteAnswered \/ AgentExits
    BY <1>0, <1>1, <1>28 DEF DeleteAnswered, AgentExits, ClientTyped
<1>29. CASE ExitPublished
    <2>1. [kind |-> "exit", req |-> "none"] \in Said /\ "exit" \in Publishers
        BY <1>29 DEF ExitPublished, Said, Publishers
    <2>2. EventsTyped'  BY <1>0, <1>29, <2>1, PublishType DEF ExitPublished
    <2> QED BY <1>0, <1>29, <2>2 DEF ExitPublished, ClientTyped
<1>30. CASE UNCHANGED vars  BY <1>0, <1>1, <1>30 DEF vars, ClientTyped
<1> QED
    BY <1>4, <1>5, <1>6, <1>8, <1>9, <1>10, <1>11, <1>12, <1>13, <1>14, <1>15, <1>16, <1>17,
       <1>18, <1>19, <1>20, <1>21, <1>22, <1>23, <1>24, <1>25, <1>26, <1>27, <1>28, <1>29, <1>30
    DEF Next

-----------------------------------------------------------------------------
(* The end, step by step.                                                   *)

LEMMA EndsStep == TypeOK /\ EventInv /\ Ends /\ [Next]_vars => Ends'
<1> SUFFICES ASSUME TypeOK, EventInv, Ends, [Next]_vars PROVE Ends'
    OBVIOUS
<1> USE DEF postVars, endVars, inboxVars, loopVars, agentVars, deleteVars
<1>0. post \in [Requests -> Places]  BY DEF TypeOK
<1>1. ASSUME FailReadable, UNCHANGED <<postedOnce, agentVars, deleteVars>>,
             postedOnce \/ \A r \in Requests : post'[r] = "unsent"
      PROVE  Ends'
    BY <1>1 DEF FailReadable, Ends
<1>2. ASSUME NEW r \in Requests, post[r] # "unsent" PROVE postedOnce
    BY <1>2 DEF Ends
<1>3. ASSUME NEW r \in Requests, WriteMessage(r) PROVE Ends'
    BY <1>3 DEF WriteMessage, Ends
<1>4. ASSUME NEW r \in Requests, WriteAnswer(r) \/ AnswerArrives(r) PROVE Ends'
    BY <1>4 DEF WriteAnswer, AnswerArrives, Ends
<1>5. ASSUME NEW r \in Requests, PostReplied(r) PROVE Ends'
    BY <1>2, <1>5 DEF PostReplied, Ends
<1>6. ASSUME NEW r \in Requests, PostRefused(r) \/ PostFails(r) PROVE Ends'
    BY <1>1, <1>2, <1>6 DEF PostRefused, PostFails
<1>7. ASSUME NEW r \in Requests, AnswerFails(r) PROVE Ends'
    BY <1>1, <1>7 DEF AnswerFails, Ends
<1>8. ASSUME NEW r \in Requests, PostArrives(r) PROVE Ends'
    <2>1. postedOnce  BY <1>2, <1>8 DEF PostArrives, PostServed, PostStarts, PostTurnedAway
    <2>2. CASE PostServed(r) \/ PostTurnedAway(r)
        BY <1>8, <2>1, <2>2 DEF PostArrives, PostServed, PostTurnedAway, Ends
    <2>3. CASE PostStarts(r)
        BY <1>8, <2>1, <2>3 DEF PostArrives, PostStarts, Ends
    <2> QED BY <1>8, <2>2, <2>3 DEF PostArrives
<1>9. ASSUME NEW r \in Requests, RequestTimesOut(r) \/ StrandedReturns(r) \/ SlashReplies(r)
      PROVE  Ends'
    BY <1>2, <1>9 DEF RequestTimesOut, StrandedReturns, SlashReplies, Ends
<1>10. ASSUME NEW r \in Requests,
              AgentNotifies(r) \/ AgentAsks(r) \/ InjectNotification(r) \/ InjectDropped(r)
       PROVE  Ends'
    BY <1>10 DEF AgentNotifies, AgentAsks, InjectNotification, InjectDropped, Ends
<1>11. ASSUME NEW r \in Requests, AgentAnswers(r) PROVE Ends'
    BY <1>2, <1>11 DEF AgentAnswers, Reached, Ends
<1>12. ASSUME NEW p \in Publishers, PublishGoesOn(p) PROVE Ends'
    BY <1>12 DEF PublishGoesOn, Ends
<1>13. CASE SseArrives \/ SseRefused \/ SseOpens \/ SseSend \/ SseLags \/ SseEnds \/ SseAgain
            \/ SseFails \/ ExitPublished \/ UNCHANGED vars
    BY <1>13 DEF SseArrives, SseRefused, SseOpens, SseSend, SseLags, SseEnds, SseAgain, SseFails,
                 ExitPublished, vars, Ends
<1>14. CASE ProcessSseEvent  BY <1>14 DEF ProcessSseEvent, Ends
<1>15. CASE Close  BY <1>15 DEF Close, Ends
<1>16. CASE CloseReturns  BY <1>16 DEF CloseReturns, Ends
<1>17. CASE DeleteArrives
    <2>1. postedOnce \/ \A r \in Requests : post'[r] = "unsent"
        BY <1>2, <1>17 DEF DeleteArrives, Ends
    <2> QED BY <1>17, <2>1 DEF DeleteArrives, Ends
<1>18. CASE DeleteAnswered  BY <1>18 DEF DeleteAnswered, Ends
<1>19. CASE AgentExits  BY <1>19 DEF AgentExits, Ends
<1> QED
    BY <1>3, <1>4, <1>5, <1>6, <1>7, <1>8, <1>9, <1>10, <1>11, <1>12, <1>13, <1>14, <1>15,
       <1>16, <1>17, <1>18, <1>19
    DEF Next

-----------------------------------------------------------------------------
(* The events, step by step.                                                *)

\* What else the server and the client may do while the inbox gets at most a
\* response.
Steady ==
    /\ sequence' \in Nat /\ sequence <= sequence' /\ contended \subseteq contended'
    /\ \A i \in 1 .. sequence : log'[i] = log[i]
    /\ \/ UNCHANGED inbox
       \/ \E r \in Requests :
             inbox' = Append(inbox, [kind |-> "response", req |-> r, id |-> 0])

\* What was passed on stays passed on.
LEMMA SteadyBox ==
    ASSUME TypeOK, Steady
    PROVE  /\ Len(inbox) \in Nat /\ Len(inbox') \in Nat /\ Len(inbox) <= Len(inbox')
           /\ \A k \in 1 .. Len(inbox) : inbox'[k] = inbox[k]
           /\ \A k \in 1 .. Len(inbox') : inbox'[k].kind # "response" => k \in 1 .. Len(inbox)
           /\ \A i \in 1 .. sequence : Done(i) => Done(i)'
<1>1. inbox \in Seq(Entry)  BY DEF TypeOK
<1>2. /\ Len(inbox) \in Nat /\ Len(inbox') \in Nat /\ Len(inbox) <= Len(inbox')
      /\ \A k \in 1 .. Len(inbox) : inbox'[k] = inbox[k]
      /\ \A k \in 1 .. Len(inbox') : inbox'[k].kind # "response" => k \in 1 .. Len(inbox)
    <2>1. CASE UNCHANGED inbox  BY <1>1, <2>1, LenProperties
    <2>2. ASSUME NEW r \in Requests,
                 inbox' = Append(inbox, [kind |-> "response", req |-> r, id |-> 0])
          PROVE  <1>2!:
        <3>1. [kind |-> "response", req |-> r, id |-> 0] \in Entry  BY DEF Entry, Kinds
        <3> QED BY <1>1, <2>2, <3>1, AppendProperties, LenProperties
    <2> QED BY <2>1, <2>2 DEF Steady
<1>3. ASSUME NEW i \in 1 .. sequence, Done(i) PROVE Done(i)'
    <2>1. log'[i] = log[i]  BY DEF Steady
    <2>2. CASE log[i].kind = "response"  BY <2>1, <2>2 DEF Done
    <2>3. ASSUME NEW k \in 1 .. Len(inbox),
                 inbox[k] = [kind |-> log[i].kind, req |-> log[i].req, id |-> i]
          PROVE  Done(i)'
        <3>1. k \in 1 .. Len(inbox')  BY <1>2
        <3> QED BY <1>2, <2>1, <2>3, <3>1 DEF Done
    <2> QED BY <1>3, <2>2, <2>3 DEF Done
<1> QED BY <1>2, <1>3

LEMMA PassedKept ==
    ASSUME TypeOK, Passed, Steady, lastEventId <= sequence, UNCHANGED lastEventId,
           \A i \in 1 .. lastEventId : i \in lost => i \in lost'
    PROVE  Passed'
<1>1. lastEventId \in Nat /\ sequence \in Nat  BY StreamTyped DEF TypeOK
<1>2. \A k \in 1 .. Len(inbox') : inbox'[k].kind # "response" =>
          k \in 1 .. Len(inbox) /\ inbox'[k] = inbox[k]
    BY SteadyBox
<1>3. ASSUME NEW k \in 1 .. Len(inbox'), inbox'[k].kind # "response"
      PROVE  /\ inbox'[k].id \in 1 .. sequence'
             /\ inbox'[k].id > lastEventId' => \E c \in contended' : c <= lastEventId'
    <2>1. k \in 1 .. Len(inbox) /\ inbox'[k] = inbox[k]  BY <1>2, <1>3
    <2>2. /\ inbox[k].id \in 1 .. sequence
          /\ inbox[k].id > lastEventId => \E c \in contended : c <= lastEventId
        BY <1>3, <2>1 DEF Passed
    <2>3. inbox[k].id \in 1 .. sequence'
        BY <1>1, <2>2 DEF Steady
    <2> QED BY <2>1, <2>2, <2>3 DEF Steady
<1>4. ASSUME NEW i \in 1 .. Len(inbox'), NEW j \in 1 .. Len(inbox'),
             i < j, inbox'[i].kind # "response", inbox'[j].kind # "response",
             inbox'[i].id > inbox'[j].id
      PROVE  \E c \in contended' : c <= inbox'[j].id
    <2>1. /\ i \in 1 .. Len(inbox) /\ inbox'[i] = inbox[i]
          /\ j \in 1 .. Len(inbox) /\ inbox'[j] = inbox[j]
        BY <1>2, <1>4
    <2>2. \E c \in contended : c <= inbox[j].id
        BY <1>4, <2>1 DEF Passed, EventsInOrder
    <2> QED BY <2>1, <2>2 DEF Steady
<1>5. ASSUME NEW i \in 1 .. lastEventId' \ (lost' \cup contended')
      PROVE  Done(i)'
    <2>1. i \in 1 .. lastEventId /\ i \notin lost /\ i \notin contended /\ i \in 1 .. sequence
        BY <1>1 DEF Steady
    <2>2. Done(i)  BY <2>1 DEF Passed, EventsInOrder, Done
    <2> QED BY <2>1, <2>2, SteadyBox
<1>6. EventsInOrder'  BY <1>4, <1>5 DEF EventsInOrder, Done
<1> QED BY <1>3, <1>6 DEF Passed

LEMMA Within ==
    ASSUME TypeOK, EventInv
    PROVE  sequence \in Nat /\ lastEventId \in Nat /\ lastEventId <= sequence /\ Passed
<1>1. sequence \in Nat /\ lastEventId \in Nat  BY StreamTyped DEF TypeOK
<1>2. lastEventId <= sequence /\ Passed  BY DEF EventInv, Loop
<1> QED BY <1>1, <1>2

\* Nothing happens to the events.
LEMMA Still ==
    ASSUME TypeOK, EventInv, UNCHANGED <<eventVars, lastEventId, wire>>,
           \/ UNCHANGED inbox
           \/ \E r \in Requests :
                 inbox' = Append(inbox, [kind |-> "response", req |-> r, id |-> 0]),
           sse' = "open" <=> sse = "open",
           closed' => sse' = "none",
           sub.at = "subscribing" => sse' = "connecting"
    PROVE  EventInv'
<1>1. /\ UNCHANGED <<sequence, ring, sender, publishing, subscription, delivered, log, contended>>
      /\ UNCHANGED <<lost, lastEventId, wire>>
    BY DEF eventVars, streamVars
<1>2. sequence \in Nat /\ lastEventId <= sequence /\ Passed
    BY Within
<1>3. Steady
    <2>1. /\ sequence' \in Nat /\ sequence <= sequence' /\ contended \subseteq contended'
          /\ \A i \in 1 .. sequence : log'[i] = log[i]
        BY <1>1, <1>2
    <2> QED BY <2>1, Zenon DEF Steady
<1>4. Passed'  BY <1>1, <1>2, <1>3, PassedKept
<1>5. Drawn' /\ InOrder(ring)' /\ InOrder(sender)'
    BY <1>1 DEF EventInv, Drawn, InOrder, Follows
<1>6. sub' = sub /\ Stream!Wanted(Me)' = Stream!Wanted(Me)
    BY <1>1 DEF sub, Stream!Wanted
<1>7. InOrder(sub.replay)'
    BY <1>1, <1>6 DEF EventInv, Loop, InOrder, Follows
<1>8. sse = "open" => Queue'
    BY <1>1, <1>6 DEF EventInv, Loop, Queue, Ahead, Follows
<1>9. Loop'
    BY <1>1, <1>6, <1>7, <1>8 DEF EventInv, Loop
<1>10. sse = "open" => Complete'
    <2>1. Unsent' = Unsent /\ Coming' = Coming
        BY <1>1, <1>6 DEF Unsent, Coming
    <2> QED BY <1>1, <1>3, <2>1, SteadyBox DEF EventInv, Complete
<1> QED BY <1>4, <1>5, <1>9, <1>10 DEF EventInv

\* The stream breaks.
LEMMA Breaks ==
    ASSUME TypeOK, EventInv, NEW next \in {"none", "waiting"}, HangUp(next),
           UNCHANGED inbox, closed' => next = "none"
    PROVE  EventInv'
<1>1. /\ UNCHANGED <<sequence, ring, sender, publishing, log, contended, lost, lastEventId>>
      /\ sse' = next /\ wire' = <<>>
      /\ subscription' = [subscription EXCEPT ![Me] = Stream!Closed]
      /\ delivered' = [delivered EXCEPT ![Me] = lastEventId]
    BY DEF HangUp
<1>2. sequence \in Nat /\ lastEventId <= sequence /\ Passed
    BY Within
<1>3. Steady  BY <1>1, <1>2 DEF Steady
<1>4. Passed'  BY <1>1, <1>2, <1>3, PassedKept
<1>5. Drawn' /\ InOrder(ring)' /\ InOrder(sender)'
    BY <1>1 DEF EventInv, Drawn, InOrder, Follows
<1>6. sub' = Stream!Closed /\ delivered'[Me] = lastEventId  BY <1>1, StreamTyped DEF sub
<1>7. sub'.at = "closed" /\ sub'.replay = <<>>  BY <1>6 DEF Stream!Closed
<1>8. InOrder(sub.replay)'  BY <1>7 DEF InOrder
<1>9. Loop'
    BY <1>1, <1>2, <1>6, <1>7, <1>8 DEF Loop
<1> QED BY <1>1, <1>4, <1>5, <1>9 DEF EventInv

\* A number is drawn.
LEMMA Draws ==
    ASSUME TypeOK, EventInv, NEW p \in Publishers, NEW kind, NEW r,
           [kind |-> kind, req |-> r] \in Said, Publish(p, kind, r),
           UNCHANGED <<loopVars, closed, inbox>>
    PROVE  EventInv'
<1> USE DEF loopVars
<1>1. /\ publishing[p].at = "idle" /\ sequence' = sequence + 1
      /\ publishing' = [publishing EXCEPT ![p] = [at |-> "push", sequence |-> sequence + 1]]
      /\ UNCHANGED <<ring, sender, subscription, delivered, lost>>
      /\ log' = Append(log, [kind |-> kind, req |-> r])
      /\ contended' = contended \cup Unsent
    BY DEF Publish, Stream!FetchAdd, Stream!clientVars
<1>2. sequence \in Nat /\ lastEventId \in Nat /\ lastEventId <= sequence /\ Passed
    BY Within
<1>3. publishing \in [Publishers -> Stream!Publishing]  BY StreamTyped
<1>4. \A i \in 1 .. sequence : log'[i] = log[i]
    <2> DEFINE e == [kind |-> kind, req |-> r]
    <2>1. log \in Seq(Said) /\ Len(log) = sequence /\ e \in Said /\ log' = Append(log, e)
        BY <1>1 DEF TypeOK
    <2> HIDE DEF e
    <2>2. \A i \in 1 .. Len(log) : Append(log, e)[i] = log[i]
        BY <2>1, AppendProperties
    <2> QED BY <2>1, <2>2
<1>5. Steady
    <2>1. sequence' \in Nat /\ sequence <= sequence' /\ contended \subseteq contended'
        BY <1>1, <1>2
    <2> QED BY <1>4, <2>1 DEF Steady
<1>6. Passed'  BY <1>1, <1>2, <1>5, PassedKept
<1>7. 1 .. sequence \subseteq 1 .. sequence' /\ sequence' \in 1 .. sequence'  BY <1>1, <1>2
<1>8. Drawn'
    <2> SUFFICES ASSUME NEW q \in Publishers, publishing'[q].at # "idle"
                 PROVE  /\ publishing'[q].sequence \in 1 .. sequence'
                        /\ publishing'[q].sequence # sequence'
                           => publishing'[q].sequence \in contended'
        BY DEF Drawn
    <2>1. CASE q = p  BY <1>1, <1>2, <1>3, <1>7, <2>1
    <2>2. CASE q # p
        <3>1. publishing'[q] = publishing[q]  BY <1>1, <1>3, <2>2
        <3>2. publishing[q].sequence \in 1 .. sequence  BY <3>1 DEF EventInv, Drawn
        <3>3. publishing[q].sequence \in Unsent  BY <3>1 DEF Unsent
        <3> QED BY <1>1, <1>7, <3>1, <3>2, <3>3
    <2> QED BY <2>1, <2>2
<1>9. \A x, y : Follows(x, y) => Follows(x, y)'  BY <1>1 DEF Follows
<1>10. InOrder(ring)' /\ InOrder(sender)'
    BY <1>1, <1>7, <1>9 DEF EventInv, InOrder
<1>11. sub' = sub /\ Stream!Wanted(Me)' = Stream!Wanted(Me)
    BY <1>1 DEF sub, Stream!Wanted
<1>12. InOrder(sub.replay)'
    BY <1>7, <1>9, <1>11 DEF EventInv, Loop, InOrder
<1>13. sse = "open" => Queue'
    <2> SUFFICES ASSUME sse = "open" PROVE Queue'  OBVIOUS
    <2>1. Queue  BY DEF EventInv, Loop
    <2>2. \A m : Ahead(m)' = Ahead(m)  BY DEF Ahead
    <2> QED BY <1>1, <1>7, <1>9, <1>11, <2>1, <2>2 DEF Queue
<1>14. Loop'
    BY <1>1, <1>2, <1>11, <1>12, <1>13 DEF EventInv, Loop
<1>15. sse = "open" => Complete'
    <2> SUFFICES ASSUME sse = "open", NEW i \in 1 .. sequence'
                 PROVE  i \in lost' \cup contended' \cup Unsent' \cup Coming' \/ Done(i)'
        BY DEF Complete
    <2>1. CASE i \in 1 .. sequence
        <3>1. i \in lost \cup contended \cup Unsent \cup Coming \/ Done(i)
            BY <2>1 DEF EventInv, Complete
        <3>2. Coming' = Coming  BY <1>1, <1>11 DEF Coming
        <3>3. Done(i) => Done(i)'  BY <1>5, <2>1, SteadyBox
        <3> QED BY <1>1, <3>1, <3>2, <3>3
    <2>2. CASE i = sequence'
        <3>1. publishing'[p].at # "idle" /\ publishing'[p].sequence = sequence'
            BY <1>1, <1>3
        <3> QED BY <2>2, <3>1 DEF Unsent
    <2>3. i \in 1 .. sequence \/ i = sequence'  BY <1>1, <1>2
    <2> QED BY <2>1, <2>2, <2>3
<1> QED BY <1>6, <1>8, <1>10, <1>14, <1>15 DEF EventInv

\* What is kept when numbers are only moved.
LEMMA Moves ==
    ASSUME TypeOK, EventInv, UNCHANGED <<loopVars, closed, inbox, log, contended, sequence, lost>>
    PROVE  /\ Passed' /\ (\A i \in 1 .. sequence : Done(i) => Done(i)')
           /\ \A x, y : Follows(x, y) => Follows(x, y)'
<1>1. sequence \in Nat /\ lastEventId \in Nat /\ lastEventId <= sequence /\ Passed
    BY Within
<1>2. Steady  BY <1>1 DEF Steady
<1>3. Passed'  BY <1>1, <1>2, PassedKept DEF loopVars
<1> QED BY <1>2, <1>3, SteadyBox DEF Follows

\* A number that is moved on by its publisher stays a drawn one.
LEMMA DrawnKept ==
    ASSUME TypeOK, Drawn, NEW p \in Publishers, NEW place,
           publishing' = [publishing EXCEPT ![p].at = place], publishing[p].at # "idle",
           UNCHANGED <<contended, sequence>>
    PROVE  /\ Drawn'
           /\ Unsent' \subseteq Unsent
           /\ place # "idle" => Unsent' = Unsent
           /\ Unsent \subseteq Unsent' \cup {publishing[p].sequence}
<1>1. \A q \in Publishers :
          /\ publishing'[q].sequence = publishing[q].sequence
          /\ q # p => publishing'[q] = publishing[q]
          /\ q = p => publishing'[q].at = place
    BY StreamTyped DEF Stream!Publishing
<1>2. Drawn'  BY <1>1 DEF Drawn
<1>3. Unsent' \subseteq Unsent /\ (place # "idle" => Unsent' = Unsent)  BY <1>1 DEF Unsent
<1>4. Unsent \subseteq Unsent' \cup {publishing[p].sequence}  BY <1>1 DEF Unsent
<1> QED BY <1>2, <1>3, <1>4

\* A message that joins others follows them.
LEMMA Joins ==
    ASSUME TypeOK, Drawn, NEW p \in Publishers, publishing[p].at # "idle",
           NEW s \in Seq(Stream!Message), InOrder(s)
    PROVE  /\ InOrder(Append(s, Stream!Envelope(p)))
           /\ \A x \in 1 .. sequence : Follows(x, publishing[p].sequence)
<1> DEFINE n == publishing[p].sequence
           more == Append(s, Stream!Envelope(p))
<1>1. sequence \in Nat  BY StreamTyped
<1>2. n \in 1 .. sequence /\ (n # sequence => n \in contended)  BY DEF Drawn
<1>3. \A x \in 1 .. sequence : Follows(x, n)  BY <1>1, <1>2 DEF Follows
<1>4. Stream!Envelope(p) \in Stream!Message /\ Stream!Envelope(p).sequence = n
    BY EnvelopeTyped
<1>5. /\ Len(s) \in Nat /\ DOMAIN s = 1 .. Len(s) /\ DOMAIN more = 1 .. Len(s) + 1
      /\ \A k \in 1 .. Len(s) : more[k] = s[k]
      /\ more[Len(s) + 1].sequence = n
    BY <1>4, AppendProperties, LenProperties
<1> HIDE DEF more, n
<1>6. \A k \in DOMAIN more : k \in DOMAIN s \/ k = Len(s) + 1  BY <1>5
<1>7. \A k \in DOMAIN more : more[k].sequence \in 1 .. sequence
    BY <1>2, <1>5, <1>6 DEF InOrder
<1>8. ASSUME NEW a \in DOMAIN more, NEW b \in DOMAIN more, a < b
      PROVE  Follows(more[a].sequence, more[b].sequence)
    <2>1. a \in DOMAIN s  BY <1>5, <1>8
    <2>2. CASE b \in DOMAIN s
        BY <1>5, <1>8, <2>1, <2>2 DEF InOrder
    <2>3. CASE b = Len(s) + 1  BY <1>3, <1>5, <1>7, <1>8, <2>3
    <2> QED BY <1>6, <2>2, <2>3
<1>9. InOrder(more)  BY <1>7, <1>8 DEF InOrder
<1> QED BY <1>3, <1>9 DEF more, n

\* It is pushed into the ring, where it may push out the oldest.
LEMMA PushesOn ==
    ASSUME TypeOK, EventInv, NEW p \in Publishers, Stream!PushRing(p),
           UNCHANGED <<loopVars, closed, inbox, log, contended, lost>>
    PROVE  EventInv'
<1> USE DEF loopVars
<1>1. /\ publishing[p].at = "push" /\ publishing[p].at # "idle"
      /\ publishing' = [publishing EXCEPT ![p].at = "send"]
      /\ ring' = Stream!Pushed(Stream!Envelope(p))
      /\ UNCHANGED <<sequence, sender, subscription, delivered>>
    BY DEF Stream!PushRing, Stream!clientVars
<1>2. /\ Passed' /\ (\A i \in 1 .. sequence : Done(i) => Done(i)')
      /\ \A x, y : Follows(x, y) => Follows(x, y)'
    BY <1>1, Moves
<1>3. Drawn /\ InOrder(ring)  BY DEF EventInv
<1>4. Drawn' /\ Unsent' = Unsent
    <2>1. "send" # "idle"  OBVIOUS
    <2> QED BY <1>1, <1>3, <2>1, DrawnKept
<1>5. InOrder(ring')
    <2> DEFINE more == Append(ring, Stream!Envelope(p))
    <2>1. InOrder(more)  BY <1>1, <1>3, StreamTyped, Joins
    <2>2. Stream!Envelope(p) \in Stream!Message  BY <1>1, <1>3, EnvelopeTyped
    <2>3. /\ ring' \in Seq(Stream!Message)
          /\ \/ ring' = more
             \/ Len(ring') = Len(ring) /\ \A k \in 1 .. Len(ring) : ring'[k] = more[k + 1]
        BY <1>1, <2>2, Pushes
    <2>4. DOMAIN ring' = 1 .. Len(ring') /\ DOMAIN more = 1 .. Len(ring) + 1
          /\ Len(ring) \in Nat
        BY <2>2, <2>3, StreamTyped, AppendProperties, LenProperties
    <2> HIDE DEF more
    <2>5. CASE ring' = more  BY <2>1, <2>5
    <2>6. CASE Len(ring') = Len(ring) /\ \A k \in 1 .. Len(ring) : ring'[k] = more[k + 1]
        <3>1. \A k \in DOMAIN ring' : ring'[k] = more[k + 1] /\ k + 1 \in DOMAIN more
            BY <2>4, <2>6
        <3>2. \A k \in DOMAIN ring' : ring'[k].sequence \in 1 .. sequence
            BY <2>1, <3>1 DEF InOrder
        <3>3. ASSUME NEW a \in DOMAIN ring', NEW b \in DOMAIN ring', a < b
              PROVE  Follows(ring'[a].sequence, ring'[b].sequence)
            <4>1. a + 1 < b + 1  BY <2>4, <3>3
            <4> QED BY <2>1, <3>1, <4>1 DEF InOrder
        <3> QED BY <3>2, <3>3 DEF InOrder
    <2> QED BY <2>3, <2>5, <2>6
<1>6. InOrder(ring)'  BY <1>1, <1>5 DEF InOrder, Follows
<1>7. InOrder(sender)'  BY <1>1 DEF EventInv, InOrder, Follows
<1>8. sub' = sub /\ Stream!Wanted(Me)' = Stream!Wanted(Me)
    BY <1>1 DEF sub, Stream!Wanted
<1>9. InOrder(sub.replay)'
    BY <1>1, <1>8 DEF EventInv, Loop, InOrder, Follows
<1>10. sse = "open" => Queue'
    BY <1>1, <1>8 DEF EventInv, Loop, Queue, Ahead, Follows
<1>11. Loop'
    BY <1>1, <1>8, <1>9, <1>10 DEF EventInv, Loop
<1>12. sse = "open" => Complete'
    <2>1. Coming' = Coming  BY <1>1, <1>8 DEF Coming
    <2> QED BY <1>1, <1>2, <1>4, <2>1 DEF EventInv, Complete
<1> QED BY <1>2, <1>4, <1>6, <1>7, <1>11, <1>12 DEF EventInv

\* It is sent.
LEMMA Sends ==
    ASSUME TypeOK, EventInv, NEW p \in Publishers, Stream!Broadcast(p),
           UNCHANGED <<loopVars, closed, inbox, log, contended, lost>>
    PROVE  EventInv'
<1> USE DEF loopVars
<1> DEFINE n == publishing[p].sequence
           L == Len(sender)
<1>1. /\ publishing[p].at = "send" /\ publishing[p].at # "idle"
      /\ publishing' = [publishing EXCEPT ![p].at = "idle"]
      /\ sender' = Append(sender, Stream!Envelope(p))
      /\ UNCHANGED <<sequence, ring, subscription, delivered>>
    BY DEF Stream!Broadcast, Stream!clientVars
<1>2. /\ Passed' /\ (\A i \in 1 .. sequence : Done(i) => Done(i)')
      /\ \A x, y : Follows(x, y) => Follows(x, y)'
    BY <1>1, Moves
<1>3. Drawn /\ InOrder(sender)  BY DEF EventInv
<1>4. Drawn' /\ Unsent \subseteq Unsent' \cup {n}  BY <1>1, <1>3, DrawnKept
<1>5. InOrder(sender') /\ \A x \in 1 .. sequence : Follows(x, n)
    BY <1>1, <1>3, StreamTyped, Joins
<1>6. InOrder(sender)'  BY <1>1, <1>5 DEF InOrder, Follows
<1>7. InOrder(ring)'  BY <1>1 DEF EventInv, InOrder, Follows
<1>8. sub' = sub /\ Stream!Wanted(Me)' = Stream!Wanted(Me)
    BY <1>1 DEF sub, Stream!Wanted
<1>9. InOrder(sub.replay)'
    BY <1>1, <1>8 DEF EventInv, Loop, InOrder, Follows
<1>10. /\ L \in Nat /\ Len(sender') = L + 1
       /\ \A k \in 1 .. L : sender'[k] = sender[k]
       /\ sender'[L + 1].sequence = n
    <2>1. Stream!Envelope(p) \in Stream!Message /\ Stream!Envelope(p).sequence = n
        BY <1>1, <1>3, EnvelopeTyped
    <2> QED BY <1>1, <2>1, StreamTyped, AppendProperties, LenProperties
<1> HIDE DEF n, L
<1>11. ASSUME sse = "open" PROVE Queue'
    <2>1. Queue  BY <1>11 DEF EventInv, Loop
    <2>2. sub.next \in 1 .. L + 1  BY <2>1 DEF Queue, L
    <2>3. \A k \in sub.next .. L + 1 : k \in sub.next .. L \/ k = L + 1  BY <1>10, <2>2
    <2>4. sub.next .. L \subseteq 1 .. L  BY <1>10, <2>2
    <2>5. ASSUME NEW m \in 0 .. Len(wire) PROVE Follows(Ahead(m), n)
        <3>1. lastEventId \in Nat /\ lastEventId <= sequence /\ sequence \in Nat  BY Within
        <3>2. CASE m = 0
            <4>1. Ahead(m) = lastEventId  BY <3>2 DEF Ahead
            <4>2. n \in 1 .. sequence  BY <1>1, <1>3 DEF Drawn, n
            <4>3. CASE lastEventId = 0  BY <4>1, <4>2, <4>3 DEF Follows
            <4>4. CASE lastEventId # 0
                <5>1. lastEventId \in 1 .. sequence  BY <3>1, <4>4
                <5> QED BY <1>5, <4>1, <5>1
            <4> QED BY <4>3, <4>4
        <3>3. CASE m # 0
            <4>1. wire[m] \in 1 .. sequence  BY <2>1, <3>3, LenProperties DEF Queue, TypeOK
            <4> QED BY <1>5, <3>3, <4>1 DEF Ahead
        <3> QED BY <3>2, <3>3
    <2>6. \A k \in DOMAIN sub.replay : Follows(sub.replay[k].sequence, n)
        BY <1>5 DEF EventInv, Loop, InOrder
    <2>7. \A m : Ahead(m)' = Ahead(m)  BY DEF Ahead
    <2>8. sub.next \in 1 .. Len(sender') + 1  BY <1>10, <2>2
    <2>9. ASSUME NEW k \in sub.next .. Len(sender')
          PROVE  /\ \A m \in 0 .. Len(wire) : Follows(Ahead(m), sender'[k].sequence)
                 /\ \A j \in DOMAIN sub.replay :
                       Follows(sub.replay[j].sequence, sender'[k].sequence)
        <3>1. CASE k \in sub.next .. L
            BY <1>10, <2>1, <2>4, <3>1 DEF Queue, L
        <3>2. CASE k = L + 1  BY <1>10, <2>5, <2>6, <3>2
        <3> QED BY <1>10, <2>3, <3>1, <3>2
    <2> QED BY <1>1, <1>2, <1>8, <2>1, <2>7, <2>8, <2>9 DEF Queue
<1>12. Loop'
    BY <1>1, <1>8, <1>9, <1>11 DEF EventInv, Loop
<1>13. ASSUME sse = "open" PROVE Complete'
    <2>1. sub.next \in 1 .. L + 1  BY <1>13 DEF EventInv, Loop, Queue, L
    <2>2. L + 1 \in sub.next .. Len(sender')  BY <1>10, <2>1
    <2>3. n \in Coming'  BY <1>8, <1>10, <2>2 DEF Coming
    <2>4. Coming \subseteq Coming'
        <3>1. \A k \in sub.next .. L : sender'[k] = sender[k] /\ k \in sub.next .. Len(sender')
            BY <1>10, <2>1
        <3> QED BY <1>8, <3>1 DEF Coming, L
    <2> QED BY <1>1, <1>2, <1>4, <1>13, <2>3, <2>4 DEF EventInv, Complete
<1> QED BY <1>2, <1>4, <1>6, <1>7, <1>12, <1>13 DEF EventInv

\* Or it is never sent.
LEMMA Drops ==
    ASSUME TypeOK, EventInv, NEW p \in Publishers, Stream!AbandonInject(p),
           lost' = lost \cup {publishing[p].sequence},
           UNCHANGED <<loopVars, closed, inbox, log, contended>>
    PROVE  EventInv'
<1> USE DEF loopVars
<1>1. /\ publishing[p].at # "idle"
      /\ publishing' = [publishing EXCEPT ![p].at = "idle"]
      /\ UNCHANGED <<sequence, ring, sender, subscription, delivered>>
    BY DEF Stream!AbandonInject, Stream!clientVars
<1>2. sequence \in Nat /\ lastEventId \in Nat /\ lastEventId <= sequence /\ Passed
    BY Within
<1>3. Steady  BY <1>1, <1>2 DEF Steady
<1>4. Passed'  BY <1>1, <1>2, <1>3, PassedKept
<1>5. Drawn  BY DEF EventInv
<1>6. Drawn' /\ Unsent \subseteq Unsent' \cup {publishing[p].sequence}
    BY <1>1, <1>5, DrawnKept
<1>7. InOrder(ring)' /\ InOrder(sender)'
    BY <1>1 DEF EventInv, InOrder, Follows
<1>8. sub' = sub /\ Stream!Wanted(Me)' = Stream!Wanted(Me)
    BY <1>1 DEF sub, Stream!Wanted
<1>9. InOrder(sub.replay)'
    BY <1>1, <1>8 DEF EventInv, Loop, InOrder, Follows
<1>10. sse = "open" => Queue'
    BY <1>1, <1>8 DEF EventInv, Loop, Queue, Ahead, Follows
<1>11. Loop'
    BY <1>1, <1>8, <1>9, <1>10 DEF EventInv, Loop
<1>12. sse = "open" => Complete'
    <2>1. Coming' = Coming  BY <1>1, <1>8 DEF Coming
    <2>2. \A i \in 1 .. sequence : Done(i) => Done(i)'  BY <1>3, SteadyBox
    <2> QED BY <1>1, <1>6, <2>1, <2>2 DEF EventInv, Complete
<1> QED BY <1>4, <1>6, <1>7, <1>11, <1>12 DEF EventInv

\* The ring is copied.
LEMMA Copies ==
    ASSUME TypeOK, EventInv, SseArrives
    PROVE  EventInv'
<1> USE DEF loopVars, inboxVars, endVars
<1>1. /\ sub.at = "closed" /\ sse = "connecting"
      /\ subscription' = [subscription EXCEPT ![Me] = Stream!Opening(Me)]
      /\ UNCHANGED <<sequence, ring, sender, publishing, delivered, log, contended, lost>>
      /\ UNCHANGED <<loopVars, closed, inbox>>
    BY DEF SseArrives, Stream!SnapshotRing, sub
<1>2. /\ Passed' /\ (\A i \in 1 .. sequence : Done(i) => Done(i)')
      /\ \A x, y : Follows(x, y) => Follows(x, y)'
    BY <1>1, Moves
<1>3. Drawn' /\ InOrder(ring)' /\ InOrder(sender)'
    BY <1>1 DEF EventInv, Drawn, InOrder, Follows
<1>4. sub' = Stream!Opening(Me)  BY <1>1, StreamTyped DEF sub
<1>5. sub'.at = "subscribing" /\ sub'.from = delivered[Me] /\ sub'.replay = ring
    BY <1>4 DEF Stream!Opening
<1>6. delivered[Me] = lastEventId  BY <1>1 DEF EventInv, Loop
<1>7. InOrder(sub.replay)'  BY <1>1, <1>5 DEF EventInv, InOrder, Follows
<1>8. closed => sse = "none"  BY DEF EventInv, Loop
<1>9. lastEventId <= sequence /\ wire = <<>>  BY <1>1 DEF EventInv, Loop
<1>10. Loop'
    BY <1>1, <1>5, <1>6, <1>7, <1>8, <1>9 DEF Loop
<1> QED BY <1>1, <1>2, <1>3, <1>10 DEF EventInv

\* The receiver is there.
LEMMA Opens ==
    ASSUME TypeOK, EventInv, SseOpens
    PROVE  EventInv'
<1> USE DEF inboxVars, endVars
<1>1. /\ sub.at = "subscribing"
      /\ subscription' = [subscription EXCEPT ![Me].at = "open", ![Me].next = Len(sender) + 1]
      /\ sse' = "open"
      /\ lost' = {i \in 1 .. sequence :
                    IF i <= lastEventId THEN i \in lost
                    ELSE i \notin IdsOf(sub.replay) \cup Unsent}
      /\ UNCHANGED <<sequence, ring, sender, publishing, delivered, log, contended>>
      /\ UNCHANGED <<lastEventId, wire, closed, inbox>>
    BY DEF SseOpens, Stream!OpenReceiver, sub
<1>2. sequence \in Nat /\ lastEventId \in Nat /\ lastEventId <= sequence /\ Passed
    BY Within
<1>3. Steady  BY <1>1, <1>2 DEF Steady
<1>4. \A i \in 1 .. lastEventId : i \in lost => i \in lost'
    <2>1. \A i \in 1 .. lastEventId : i \in 1 .. sequence /\ i <= lastEventId  BY <1>2
    <2> QED BY <1>1, <2>1
<1>5. Passed'  BY <1>1, <1>2, <1>3, <1>4, PassedKept
<1>6. Drawn' /\ InOrder(ring)' /\ InOrder(sender)'
    BY <1>1 DEF EventInv, Drawn, InOrder, Follows
<1>7. /\ sub'.at = "open" /\ sub'.next = Len(sender) + 1
      /\ sub'.replay = sub.replay /\ sub'.from = sub.from
    BY <1>1, StreamTyped DEF sub, Stream!Connection
<1>8. /\ sse = "connecting" /\ sub.from = lastEventId /\ wire = <<>> /\ ~closed
      /\ InOrder(sub.replay)
    BY <1>1 DEF EventInv, Loop
<1>9. InOrder(sub.replay)'  BY <1>1, <1>7, <1>8 DEF InOrder, Follows
<1>10. Stream!Wanted(Me)' = {k \in DOMAIN sub.replay : sub.replay[k].sequence > lastEventId}
    BY <1>7, <1>8 DEF sub, Stream!Wanted
<1>11. Len(sender) \in Nat /\ Len(wire) = 0  BY <1>8, StreamTyped
<1>12. \A n : n \notin Len(sender) + 1 .. Len(sender)  BY <1>11
<1>13. Queue'
    <2>1. \A k \in DOMAIN sub.replay : sub.replay[k].sequence \in Nat  BY StreamTyped
    <2>2. \A m \in 0 .. Len(wire') : Ahead(m)' = lastEventId  BY <1>1, <1>11 DEF Ahead
    <2>3. sub'.next \in 1 .. Len(sender') + 1  BY <1>1, <1>7, <1>11
    <2>4. sub'.next .. Len(sender') = {}  BY <1>1, <1>7, <1>12
    <2>5. 1 .. Len(wire') = {} /\ 0 .. Len(wire') = {0}  BY <1>1, <1>11
    <2>6. \A m \in 0 .. Len(wire'), k \in Stream!Wanted(Me)' :
              Follows(Ahead(m), sub.replay[k].sequence)'
        <3> SUFFICES ASSUME NEW m \in 0 .. Len(wire'), NEW k \in Stream!Wanted(Me)'
                     PROVE  Follows(Ahead(m), sub.replay[k].sequence)'
            OBVIOUS
        <3>1. k \in DOMAIN sub.replay /\ sub.replay[k].sequence > lastEventId  BY <1>10
        <3>2. ~(sub.replay[k].sequence < lastEventId)  BY <1>2, <2>1, <3>1
        <3>3. Ahead(m)' = lastEventId /\ sub'.replay[k].sequence = sub.replay[k].sequence
            BY <1>7, <2>2
        <3> QED BY <3>2, <3>3 DEF Follows
    <2>7. \A a, b \in 0 .. Len(wire') : ~(a < b)  BY <2>5
    <2> QED BY <2>3, <2>4, <2>5, <2>6, <2>7 DEF Queue
<1>14. Loop'
    BY <1>1, <1>2, <1>7, <1>8, <1>9, <1>13 DEF Loop
<1>15. Complete'
    <2> SUFFICES ASSUME NEW i \in 1 .. sequence,
                        i \notin lost', i \notin contended, i \notin Unsent
                 PROVE  i \in Coming' \/ Done(i)'
        BY <1>1 DEF Complete, Unsent
    <2>1. CASE i <= lastEventId
        <3>1. i \in 1 .. lastEventId /\ i \notin lost  BY <1>1, <1>2, <2>1
        <3>2. Done(i)  BY <1>2, <3>1 DEF Passed, EventsInOrder, Done
        <3> QED BY <1>3, <3>2, SteadyBox
    <2>2. CASE ~(i <= lastEventId)
        <3>1. i \in IdsOf(sub.replay)  BY <1>1, <2>2
        <3>2. PICK k \in DOMAIN sub.replay : sub.replay[k].sequence = i  BY <3>1 DEF IdsOf
        <3>3. k \in Stream!Wanted(Me)'  BY <1>2, <1>10, <2>2, <3>2
        <3> QED BY <1>7, <3>2, <3>3 DEF Coming
    <2> QED BY <2>1, <2>2
<1> QED BY <1>1, <1>5, <1>6, <1>14, <1>15 DEF EventInv

\* An event goes on the wire, behind the others.
LEMMA Goes ==
    ASSUME TypeOK, Queue, NEW x \in 1 .. sequence, wire' = Append(wire, x),
           UNCHANGED <<lastEventId, sequence, contended>>,
           \A m \in 0 .. Len(wire) : Follows(Ahead(m), x)
    PROVE  /\ \A m \in 1 .. Len(wire') : wire'[m] \in 1 .. sequence
           /\ \A a, b \in 0 .. Len(wire') : a < b => Follows(Ahead(a), Ahead(b))'
           /\ \A m \in 0 .. Len(wire') :
                 (m \in 0 .. Len(wire) /\ Ahead(m)' = Ahead(m)) \/ Ahead(m)' = x
           /\ \A v : (\E m \in 1 .. Len(wire) : v = wire[m]) \/ v = x
                     => \E m \in 1 .. Len(wire') : v = wire'[m]
<1>1. wire \in Seq(Nat) /\ x \in Nat  BY StreamTyped DEF TypeOK
<1>2. /\ Len(wire) \in Nat /\ Len(wire') = Len(wire) + 1
      /\ \A m \in 1 .. Len(wire) : wire'[m] = wire[m]
      /\ wire'[Len(wire) + 1] = x
    BY <1>1, AppendProperties, LenProperties
<1>3. \A m \in 1 .. Len(wire') : m \in 1 .. Len(wire) \/ m = Len(wire) + 1  BY <1>2
<1>4. \A m \in 1 .. Len(wire') : wire'[m] \in 1 .. sequence
    BY <1>2, <1>3 DEF Queue
<1>5. \A m \in 0 .. Len(wire) : Ahead(m)' = Ahead(m)
    <2> SUFFICES ASSUME NEW m \in 0 .. Len(wire) PROVE Ahead(m)' = Ahead(m)  OBVIOUS
    <2>1. m = 0 \/ m \in 1 .. Len(wire)  BY <1>2
    <2> QED BY <1>2, <2>1 DEF Ahead
<1>6. ASSUME NEW m, m = Len(wire) + 1 PROVE Ahead(m)' = x
    <2>1. m # 0 /\ wire'[m] = x  BY <1>2, <1>6
    <2> QED BY <2>1 DEF Ahead
<1>7. \A m \in 0 .. Len(wire') : m \in 0 .. Len(wire) \/ m = Len(wire) + 1  BY <1>2
<1>8. ASSUME NEW a \in 0 .. Len(wire'), NEW b \in 0 .. Len(wire'), a < b
      PROVE  Follows(Ahead(a), Ahead(b))'
    <2>1. a \in 0 .. Len(wire) /\ Ahead(a)' = Ahead(a)  BY <1>2, <1>5, <1>8
    <2>2. Follows(Ahead(a), x)  BY <2>1
    <2>3. CASE b \in 0 .. Len(wire)
        <3>1. Follows(Ahead(a), Ahead(b)) /\ Ahead(b)' = Ahead(b)
            BY <1>5, <1>8, <2>1, <2>3 DEF Queue
        <3> QED BY <2>1, <3>1 DEF Follows
    <2>4. CASE b = Len(wire) + 1
        <3>1. Ahead(b)' = x  BY <1>6, <2>4
        <3> QED BY <2>1, <2>2, <3>1 DEF Follows
    <2> QED BY <1>7, <2>3, <2>4
<1>9. \A m \in 0 .. Len(wire') :
          (m \in 0 .. Len(wire) /\ Ahead(m)' = Ahead(m)) \/ Ahead(m)' = x
    BY <1>5, <1>6, <1>7
<1>10. \A v : (\E m \in 1 .. Len(wire) : v = wire[m]) \/ v = x
              => \E m \in 1 .. Len(wire') : v = wire'[m]
    <2>1. Len(wire) + 1 \in 1 .. Len(wire') /\ 1 .. Len(wire) \subseteq 1 .. Len(wire')
        BY <1>2
    <2> QED BY <1>2, <2>1
<1> QED BY <1>4, <1>8, <1>9, <1>10

\* Out of the copy.
LEMMA Replays ==
    ASSUME TypeOK, EventInv, SseSend, Stream!DeliverReplay(Me)
    PROVE  EventInv'
<1> USE DEF inboxVars, endVars
<1>1. PICK k \in Stream!Wanted(Me) :
        /\ \A other \in Stream!Wanted(Me) : k <= other
        /\ subscription' = [subscription EXCEPT
                ![Me].replay = SubSeq(@, k + 1, Len(@)),
                ![Me].replayed = Append(@, sub.replay[k])]
        /\ delivered' = [delivered EXCEPT ![Me] = sub.replay[k].sequence]
    BY DEF Stream!DeliverReplay, sub
<1>2. PICK x : x = sub.replay[k].sequence  OBVIOUS
<1>3. /\ sub.at = "open" /\ wire' = Append(wire, x)
      /\ UNCHANGED <<sequence, ring, sender, publishing, log, contended, lost>>
      /\ UNCHANGED <<sse, lastEventId, closed, inbox>>
    BY <1>1, <1>2, StreamTyped DEF SseSend, Stream!DeliverReplay, sub
<1>4. sequence \in Nat /\ lastEventId \in Nat /\ lastEventId <= sequence /\ Passed
    BY Within
<1>5. Steady  BY <1>3, <1>4 DEF Steady
<1>6. Passed'  BY <1>3, <1>4, <1>5, PassedKept
<1>7. sse = "open" /\ Queue /\ InOrder(sub.replay)  BY <1>3 DEF EventInv, Loop
<1>8. Drawn' /\ InOrder(ring)' /\ InOrder(sender)'
    BY <1>3 DEF EventInv, Drawn, InOrder, Follows
<1>9. k \in DOMAIN sub.replay /\ sub.replay \in Seq(Stream!Message) /\ k \in Nat
    BY <1>1, StreamTyped, LenProperties DEF Stream!Wanted, sub
<1>10. /\ sub'.replay = SubSeq(sub.replay, k + 1, Len(sub.replay))
       /\ sub'.at = "open" /\ sub'.next = sub.next /\ sub'.from = sub.from
    BY <1>1, <1>3, StreamTyped DEF sub, Stream!Connection
<1>11. /\ DOMAIN sub'.replay = 1 .. Len(sub.replay) - k
       /\ \A j \in 1 .. Len(sub.replay) - k :
             sub'.replay[j] = sub.replay[k + j] /\ k + j \in DOMAIN sub.replay
    <2>1. /\ DOMAIN SubSeq(sub.replay, k + 1, Len(sub.replay)) = 1 .. Len(sub.replay) - k
          /\ \A j \in 1 .. Len(sub.replay) - k :
                /\ SubSeq(sub.replay, k + 1, Len(sub.replay))[j] = sub.replay[k + j]
                /\ k + j \in DOMAIN sub.replay
        BY <1>9, Remainder
    <2> QED BY <1>10, <2>1
<1>12. \A j \in Stream!Wanted(Me)' :
          /\ j \in DOMAIN sub'.replay /\ k + j \in Stream!Wanted(Me)
          /\ sub'.replay[j] = sub.replay[k + j]
    BY <1>10, <1>11 DEF Stream!Wanted, sub
<1>13. \A j \in DOMAIN sub'.replay :
          sub'.replay[j] = sub.replay[k + j] /\ k + j \in DOMAIN sub.replay /\ k < k + j
    BY <1>9, <1>11
<1>14. x \in 1 .. sequence  BY <1>2, <1>7, <1>9 DEF InOrder
<1>15. \A m \in 0 .. Len(wire) : Follows(Ahead(m), x)  BY <1>1, <1>2, <1>7 DEF Queue
<1>16. /\ \A m \in 1 .. Len(wire') : wire'[m] \in 1 .. sequence
       /\ \A a, b \in 0 .. Len(wire') : a < b => Follows(Ahead(a), Ahead(b))'
       /\ \A m \in 0 .. Len(wire') :
             (m \in 0 .. Len(wire) /\ Ahead(m)' = Ahead(m)) \/ Ahead(m)' = x
       /\ \A v : (\E m \in 1 .. Len(wire) : v = wire[m]) \/ v = x
                 => \E m \in 1 .. Len(wire') : v = wire'[m]
    BY <1>3, <1>7, <1>14, <1>15, Goes
<1>17. \A y, z : Follows(y, z)' <=> Follows(y, z)  BY <1>3 DEF Follows
<1>18. InOrder(sub.replay)'
    <2>1. \A j \in DOMAIN sub'.replay : sub'.replay[j].sequence \in 1 .. sequence
        BY <1>7, <1>13 DEF InOrder
    <2>2. ASSUME NEW a \in DOMAIN sub'.replay, NEW b \in DOMAIN sub'.replay, a < b
          PROVE  Follows(sub'.replay[a].sequence, sub'.replay[b].sequence)
        <3>1. k + a < k + b  BY <1>9, <1>11, <2>2, StreamTyped
        <3> QED BY <1>7, <1>13, <3>1 DEF InOrder
    <2> QED BY <1>3, <1>17, <2>1, <2>2 DEF InOrder
<1>19. ASSUME NEW m \in 0 .. Len(wire'), NEW j \in Stream!Wanted(Me)'
       PROVE  Follows(Ahead(m), sub.replay[j].sequence)'
    <2>1. sub'.replay[j] = sub.replay[k + j] /\ k + j \in Stream!Wanted(Me)
          /\ k + j \in DOMAIN sub.replay /\ k < k + j
        BY <1>12, <1>13
    <2>2. CASE m \in 0 .. Len(wire) /\ Ahead(m)' = Ahead(m)
        <3>1. Follows(Ahead(m), sub.replay[k + j].sequence)  BY <1>7, <2>1, <2>2 DEF Queue
        <3> QED BY <1>3, <2>1, <2>2, <3>1 DEF Follows
    <2>3. CASE Ahead(m)' = x
        <3>1. Follows(x, sub.replay[k + j].sequence)  BY <1>2, <1>7, <1>9, <2>1 DEF InOrder
        <3> QED BY <1>3, <2>1, <2>3, <3>1 DEF Follows
    <2> QED BY <1>16, <2>2, <2>3
<1>20. ASSUME NEW m \in 0 .. Len(wire'), NEW n \in sub.next .. Len(sender)
       PROVE  Follows(Ahead(m), sender[n].sequence)'
    <2>1. CASE m \in 0 .. Len(wire) /\ Ahead(m)' = Ahead(m)
        BY <1>3, <1>7, <2>1 DEF Queue, Follows
    <2>2. CASE Ahead(m)' = x
        <3>1. Follows(x, sender[n].sequence)  BY <1>2, <1>7, <1>9 DEF Queue
        <3> QED BY <1>3, <2>2, <3>1 DEF Follows
    <2> QED BY <1>16, <2>1, <2>2
<1>21. ASSUME NEW j \in DOMAIN sub'.replay, NEW n \in sub.next .. Len(sender)
       PROVE  Follows(sub.replay[j].sequence, sender[n].sequence)'
    <2>1. Follows(sub.replay[k + j].sequence, sender[n].sequence)  BY <1>7, <1>13 DEF Queue
    <2> QED BY <1>3, <1>13, <2>1 DEF Follows
<1>22. sub.next \in 1 .. Len(sender) + 1  BY <1>7 DEF Queue
<1>23. Queue'
    BY <1>3, <1>10, <1>16, <1>19, <1>20, <1>21, <1>22 DEF Queue
<1>24. Loop'
    <2>1. closed => sse = "none"  BY DEF EventInv, Loop
    <2> QED BY <1>3, <1>4, <1>7, <1>10, <1>18, <1>23, <2>1 DEF Loop
<1>25. Complete'
    <2>1. \A j \in Stream!Wanted(Me) : 
              j # k => j - k \in Stream!Wanted(Me)' /\ sub'.replay[j - k] = sub.replay[j]
        <3> SUFFICES ASSUME NEW j \in Stream!Wanted(Me), j # k
                     PROVE  j - k \in Stream!Wanted(Me)' /\ sub'.replay[j - k] = sub.replay[j]
            OBVIOUS
        <3>1. j \in DOMAIN sub.replay /\ sub.replay[j].sequence > sub.from
            BY DEF Stream!Wanted, sub
        <3>2. j \in 1 .. Len(sub.replay) /\ Len(sub.replay) \in Nat
            BY <3>1, StreamTyped, LenProperties
        <3>3. k <= j  BY <1>1
        <3>4. j - k \in 1 .. Len(sub.replay) - k /\ k + (j - k) = j  BY <1>9, <3>2, <3>3
        <3>5. sub'.replay[j - k] = sub.replay[j] /\ j - k \in DOMAIN sub'.replay
            BY <1>11, <3>4
        <3> QED BY <1>10, <3>1, <3>5 DEF Stream!Wanted, sub
    <2>2. Coming \subseteq Coming'
        <3> SUFFICES ASSUME NEW v \in Coming PROVE v \in Coming'  OBVIOUS
        <3>1. CASE v \in {wire[m] : m \in 1 .. Len(wire)}  BY <1>16, <3>1 DEF Coming
        <3>2. ASSUME NEW j \in Stream!Wanted(Me), v = sub.replay[j].sequence
              PROVE  v \in Coming'
            <4>1. CASE j = k  BY <1>2, <1>16, <3>2, <4>1 DEF Coming
            <4>2. CASE j # k  BY <2>1, <3>2, <4>2 DEF Coming
            <4> QED BY <4>1, <4>2
        <3>3. CASE v \in {sender[n].sequence : n \in sub.next .. Len(sender)}
            BY <1>3, <1>10, <3>3 DEF Coming
        <3> QED BY <3>1, <3>2, <3>3 DEF Coming
    <2>3. \A i \in 1 .. sequence : Done(i) => Done(i)'  BY <1>5, SteadyBox
    <2>4. Unsent' = Unsent  BY <1>3 DEF Unsent
    <2> QED BY <1>3, <1>7, <2>2, <2>3, <2>4 DEF EventInv, Complete
<1> QED BY <1>3, <1>6, <1>8, <1>24, <1>25 DEF EventInv

\* Out of the channel.
LEMMA Delivers ==
    ASSUME TypeOK, EventInv, SseSend, Stream!DeliverLive(Me)
    PROVE  EventInv'
<1> USE DEF inboxVars, endVars
<1>1. PICK n0, x : n0 = sub.next /\ x = sender[n0].sequence  OBVIOUS
<1>2. /\ sub.at = "open" /\ Stream!Wanted(Me) = {} /\ n0 \in Stream!Oldest .. Len(sender)
      /\ subscription' = [subscription EXCEPT
              ![Me].next = @ + 1, ![Me].live = Append(@, sender[n0])]
      /\ delivered' = [delivered EXCEPT ![Me] = x]
      /\ UNCHANGED <<sequence, ring, sender, publishing, log, contended, lost>>
      /\ UNCHANGED <<sse, lastEventId, closed, inbox>>
    BY <1>1 DEF SseSend, Stream!DeliverLive, sub
<1>3. wire' = Append(wire, x)  BY <1>2, StreamTyped DEF SseSend
<1>4. sequence \in Nat /\ lastEventId \in Nat /\ lastEventId <= sequence /\ Passed
    BY Within
<1>5. Steady  BY <1>2, <1>4 DEF Steady
<1>6. Passed'  BY <1>2, <1>4, <1>5, PassedKept
<1>7. sse = "open" /\ Queue /\ InOrder(sub.replay)  BY <1>2 DEF EventInv, Loop
<1>8. Drawn' /\ InOrder(ring)' /\ InOrder(sender)'
    BY <1>2 DEF EventInv, Drawn, InOrder, Follows
<1>9. n0 \in 1 .. Len(sender) /\ Len(sender) \in Nat /\ DOMAIN sender = 1 .. Len(sender)
    BY <1>1, <1>2, <1>7, StreamTyped, LenProperties DEF Queue
<1>10. /\ sub'.replay = sub.replay /\ sub'.from = sub.from
       /\ sub'.at = "open" /\ sub'.next = n0 + 1
    BY <1>1, <1>2, StreamTyped DEF sub, Stream!Connection
<1>11. Stream!Wanted(Me)' = {}  BY <1>2, <1>10 DEF Stream!Wanted, sub
<1>12. x \in 1 .. sequence  BY <1>1, <1>9 DEF EventInv, InOrder
<1>13. n0 \in sub.next .. Len(sender)  BY <1>1, <1>9
<1>14. \A m \in 0 .. Len(wire) : Follows(Ahead(m), x)  BY <1>1, <1>7, <1>13 DEF Queue
<1>15. /\ \A m \in 1 .. Len(wire') : wire'[m] \in 1 .. sequence
       /\ \A a, b \in 0 .. Len(wire') : a < b => Follows(Ahead(a), Ahead(b))'
       /\ \A m \in 0 .. Len(wire') :
             (m \in 0 .. Len(wire) /\ Ahead(m)' = Ahead(m)) \/ Ahead(m)' = x
       /\ \A v : (\E m \in 1 .. Len(wire) : v = wire[m]) \/ v = x
                 => \E m \in 1 .. Len(wire') : v = wire'[m]
    BY <1>2, <1>3, <1>7, <1>12, <1>14, Goes
<1>16. InOrder(sub.replay)'  BY <1>2, <1>7, <1>10 DEF InOrder, Follows
<1>17. \A n \in n0 + 1 .. Len(sender) :
           n \in sub.next .. Len(sender) /\ n \in DOMAIN sender /\ n0 < n
    BY <1>1, <1>9
<1>18. ASSUME NEW m \in 0 .. Len(wire'), NEW n \in n0 + 1 .. Len(sender)
       PROVE  Follows(Ahead(m), sender[n].sequence)'
    <2>1. n \in sub.next .. Len(sender) /\ n \in DOMAIN sender /\ n0 < n  BY <1>17
    <2>2. CASE m \in 0 .. Len(wire) /\ Ahead(m)' = Ahead(m)
        BY <1>2, <1>7, <2>1, <2>2 DEF Queue, Follows
    <2>3. CASE Ahead(m)' = x
        <3>1. Follows(x, sender[n].sequence)  BY <1>1, <1>9, <2>1 DEF EventInv, InOrder
        <3> QED BY <1>2, <2>3, <3>1 DEF Follows
    <2> QED BY <1>15, <2>2, <2>3
<1>19. ASSUME NEW k \in DOMAIN sub.replay, NEW n \in n0 + 1 .. Len(sender)
       PROVE  Follows(sub.replay[k].sequence, sender[n].sequence)'
    <2>1. Follows(sub.replay[k].sequence, sender[n].sequence)  BY <1>7, <1>17 DEF Queue
    <2> QED BY <1>2, <1>10, <2>1 DEF Follows
<1>20. n0 + 1 \in 1 .. Len(sender) + 1  BY <1>9
<1>21. Queue'
    BY <1>2, <1>10, <1>11, <1>15, <1>18, <1>19, <1>20 DEF Queue
<1>22. Loop'
    <2>1. closed => sse = "none"  BY DEF EventInv, Loop
    <2> QED BY <1>2, <1>4, <1>7, <1>10, <1>16, <1>21, <2>1 DEF Loop
<1>23. Complete'
    <2>1. Coming \subseteq Coming'
        <3> SUFFICES ASSUME NEW v \in Coming PROVE v \in Coming'  OBVIOUS
        <3>1. CASE v \in {wire[m] : m \in 1 .. Len(wire)}  BY <1>15, <3>1 DEF Coming
        <3>2. ASSUME NEW n \in sub.next .. Len(sender), v = sender[n].sequence
              PROVE  v \in Coming'
            <4>1. CASE n = n0  BY <1>1, <1>15, <3>2, <4>1 DEF Coming
            <4>2. CASE n # n0
                <5>1. n \in n0 + 1 .. Len(sender)  BY <1>1, <1>9, <4>2
                <5> QED BY <1>2, <1>10, <3>2, <5>1 DEF Coming
            <4> QED BY <4>1, <4>2
        <3> QED BY <1>2, <3>1, <3>2 DEF Coming
    <2>2. \A i \in 1 .. sequence : Done(i) => Done(i)'  BY <1>5, SteadyBox
    <2>3. Unsent' = Unsent  BY <1>2 DEF Unsent
    <2> QED BY <1>2, <1>7, <2>1, <2>2, <2>3 DEF EventInv, Complete
<1> QED BY <1>2, <1>6, <1>8, <1>22, <1>23 DEF EventInv

\* The stream goes on with what the channel still has.
LEMMA Lags ==
    ASSUME TypeOK, EventInv, SseLags
    PROVE  EventInv'
<1> USE DEF inboxVars, endVars, loopVars
<1>1. PICK o : o = Stream!Oldest  OBVIOUS
<1>2. /\ sub.at = "open" /\ Stream!Wanted(Me) = {} /\ sub.next < o
      /\ subscription' = [subscription EXCEPT ![Me].next = o]
      /\ lost' = lost \cup {sender[n].sequence : n \in sub.next .. o - 1}
      /\ UNCHANGED <<sequence, ring, sender, publishing, delivered, log, contended>>
      /\ UNCHANGED <<loopVars, closed, inbox>>
    BY <1>1 DEF SseLags, Stream!SkipLagged, sub
<1>3. sequence \in Nat /\ lastEventId \in Nat /\ lastEventId <= sequence /\ Passed
    BY Within
<1>4. Steady  BY <1>2, <1>3 DEF Steady
<1>5. Passed'  BY <1>2, <1>3, <1>4, PassedKept
<1>6. sse = "open" /\ Queue /\ InOrder(sub.replay)  BY <1>2 DEF EventInv, Loop
<1>7. Drawn' /\ InOrder(ring)' /\ InOrder(sender)'
    BY <1>2 DEF EventInv, Drawn, InOrder, Follows
<1>8. o \in 1 .. Len(sender) + 1 /\ Len(sender) \in Nat /\ sub.next \in 1 .. Len(sender) + 1
    BY <1>1, <1>6, StreamTyped, Sizes DEF Stream!Oldest, Queue
<1>9. /\ sub'.replay = sub.replay /\ sub'.from = sub.from
      /\ sub'.at = "open" /\ sub'.next = o
    BY <1>2, StreamTyped DEF sub, Stream!Connection
<1>10. Stream!Wanted(Me)' = {}  BY <1>2, <1>9 DEF Stream!Wanted, sub
<1>11. \A n \in o .. Len(sender) : n \in sub.next .. Len(sender)  BY <1>2, <1>8
<1>12. InOrder(sub.replay)'  BY <1>2, <1>6, <1>9 DEF InOrder, Follows
<1>13. Queue'
    <2>1. \A m : Ahead(m)' = Ahead(m)  BY <1>2 DEF Ahead
    <2>2. \A x, y : Follows(x, y)' <=> Follows(x, y)  BY <1>2 DEF Follows
    <2> QED BY <1>2, <1>6, <1>8, <1>9, <1>10, <1>11, <2>1, <2>2 DEF Queue
<1>14. Loop'
    <2>1. closed => sse = "none"  BY DEF EventInv, Loop
    <2> QED BY <1>2, <1>3, <1>6, <1>9, <1>12, <1>13, <2>1 DEF Loop
<1>15. Complete'
    <2>1. \A v \in Coming : v \in Coming' \cup lost'
        <3> SUFFICES ASSUME NEW v \in Coming PROVE v \in Coming' \cup lost'  OBVIOUS
        <3>1. CASE v \in {wire[m] : m \in 1 .. Len(wire)}  BY <1>2, <3>1 DEF Coming
        <3>2. ASSUME NEW n \in sub.next .. Len(sender), v = sender[n].sequence
              PROVE  v \in Coming' \cup lost'
            <4>1. CASE n \in sub.next .. o - 1  BY <1>2, <3>2, <4>1
            <4>2. CASE n \in o .. Len(sender)  BY <1>2, <1>9, <3>2, <4>2 DEF Coming
            <4> QED BY <1>8, <4>1, <4>2
        <3> QED BY <1>2, <3>1, <3>2 DEF Coming
    <2>2. \A i \in 1 .. sequence : Done(i) => Done(i)'  BY <1>4, SteadyBox
    <2>3. Unsent' = Unsent /\ lost \subseteq lost'  BY <1>2 DEF Unsent
    <2> QED BY <1>2, <1>6, <2>1, <2>2, <2>3 DEF EventInv, Complete
<1> QED BY <1>2, <1>5, <1>7, <1>14, <1>15 DEF EventInv

\* An event is processed: it is passed on, and those behind it follow it.
LEMMA Processes ==
    ASSUME TypeOK, EventInv, ProcessSseEvent
    PROVE  EventInv'
<1> USE DEF endVars
<1>1. PICK h : h = Head(wire)  OBVIOUS
<1>2. /\ sse = "open" /\ wire # <<>> /\ wire' = Tail(wire) /\ lastEventId' = h
      /\ PushInbound(log[h].kind, log[h].req, h)
      /\ UNCHANGED <<sse, closed, sequence, ring, sender, publishing, subscription, delivered>>
      /\ UNCHANGED <<log, contended, lost>>
    BY <1>1 DEF ProcessSseEvent, eventVars, streamVars
<1>3. sequence \in Nat /\ lastEventId \in Nat /\ lastEventId <= sequence /\ Passed
    BY Within
<1>4. Queue /\ InOrder(sub.replay) /\ ~closed /\ sub.at = "open"
    BY <1>2 DEF EventInv, Loop
<1>5. /\ h = wire[1] /\ h \in 1 .. sequence /\ h \in Nat
      /\ Len(wire) \in Nat /\ Len(wire) >= 1 /\ Len(wire') = Len(wire) - 1
      /\ \A m \in 1 .. Len(wire') : wire'[m] = wire[m + 1]
    BY <1>1, <1>2, HeadOfWire
<1>6. \A m \in 0 .. Len(wire') : m + 1 \in 1 .. Len(wire) /\ Ahead(m)' = wire[m + 1]
    <2> SUFFICES ASSUME NEW m \in 0 .. Len(wire')
                 PROVE  m + 1 \in 1 .. Len(wire) /\ Ahead(m)' = wire[m + 1]
        OBVIOUS
    <2>1. m + 1 \in 1 .. Len(wire)  BY <1>5
    <2>2. CASE m = 0  BY <1>2, <1>5, <2>1, <2>2 DEF Ahead
    <2>3. CASE m # 0
        <3>1. m \in 1 .. Len(wire')  BY <1>5, <2>3
        <3> QED BY <1>5, <2>1, <2>3, <3>1 DEF Ahead
    <2> QED BY <2>2, <2>3
<1>7. \A m \in 0 .. Len(wire') :
          m + 1 \in 0 .. Len(wire) /\ Ahead(m)' = Ahead(m + 1)
    <2> SUFFICES ASSUME NEW m \in 0 .. Len(wire')
                 PROVE  m + 1 \in 0 .. Len(wire) /\ Ahead(m)' = Ahead(m + 1)
        OBVIOUS
    <2>1. m + 1 \in 1 .. Len(wire) /\ Ahead(m)' = wire[m + 1]  BY <1>6
    <2>2. m + 1 # 0 /\ m + 1 \in 0 .. Len(wire)  BY <1>5, <2>1
    <2> QED BY <2>1, <2>2 DEF Ahead
<1>8. sub' = sub /\ Stream!Wanted(Me)' = Stream!Wanted(Me)
    BY <1>2 DEF sub, Stream!Wanted
<1>9. \A x, y : Follows(x, y)' <=> Follows(x, y)  BY <1>2 DEF Follows
<1>10. Queue'
    <2>1. \A m \in 1 .. Len(wire') : wire'[m] \in 1 .. sequence
        <3> SUFFICES ASSUME NEW m \in 1 .. Len(wire') PROVE wire'[m] \in 1 .. sequence
            OBVIOUS
        <3>1. m + 1 \in 1 .. Len(wire) /\ wire'[m] = wire[m + 1]  BY <1>5
        <3> QED BY <1>4, <3>1 DEF Queue
    <2>2. ASSUME NEW a \in 0 .. Len(wire'), NEW b \in 0 .. Len(wire'), a < b
          PROVE  Follows(Ahead(a), Ahead(b))'
        <3>1. a + 1 < b + 1  BY <1>5, <2>2
        <3>2. Follows(Ahead(a + 1), Ahead(b + 1))  BY <1>4, <1>7, <3>1 DEF Queue
        <3>3. Ahead(a)' = Ahead(a + 1) /\ Ahead(b)' = Ahead(b + 1)  BY <1>7
        <3> QED BY <1>2, <3>2, <3>3 DEF Follows
    <2>3. ASSUME NEW m \in 0 .. Len(wire'), NEW k \in Stream!Wanted(Me)
          PROVE  Follows(Ahead(m), sub.replay[k].sequence)'
        <3>1. Follows(Ahead(m + 1), sub.replay[k].sequence) /\ Ahead(m)' = Ahead(m + 1)
            BY <1>4, <1>7 DEF Queue
        <3> QED BY <1>2, <1>8, <3>1 DEF Follows
    <2>4. ASSUME NEW m \in 0 .. Len(wire'), NEW n \in sub.next .. Len(sender)
          PROVE  Follows(Ahead(m), sender[n].sequence)'
        <3>1. Follows(Ahead(m + 1), sender[n].sequence) /\ Ahead(m)' = Ahead(m + 1)
            BY <1>4, <1>7 DEF Queue
        <3> QED BY <1>2, <3>1 DEF Follows
    <2>5. \A k \in DOMAIN sub.replay, n \in sub.next .. Len(sender) :
              Follows(sub.replay[k].sequence, sender[n].sequence)'
        BY <1>2, <1>4, <1>8 DEF Queue, Follows
    <2>6. sub.next \in 1 .. Len(sender) + 1  BY <1>4 DEF Queue
    <2> QED BY <1>2, <1>8, <2>1, <2>2, <2>3, <2>4, <2>5, <2>6 DEF Queue
<1>11. InOrder(sub.replay)'  BY <1>2, <1>4, <1>8 DEF InOrder, Follows
<1>12. Loop'
    <2>1. h <= sequence  BY <1>3, <1>5
    <2>2. sse = "open" <=> sub.at = "open"  BY <1>2, <1>4
    <2> QED BY <1>2, <1>4, <1>8, <1>10, <1>11, <2>1, <2>2 DEF Loop
<1>13. Drawn' /\ InOrder(ring)' /\ InOrder(sender)'
    BY <1>2 DEF EventInv, Drawn, InOrder, Follows
<1>14. /\ Len(inbox) \in Nat /\ Len(inbox') \in Nat /\ Len(inbox) <= Len(inbox')
       /\ \A k \in 1 .. Len(inbox) : inbox'[k] = inbox[k]
       /\ \A k \in 1 .. Len(inbox') : (inbox'[k].kind # "response" /\ k \notin 1 .. Len(inbox)) =>
             k = Len(inbox) + 1 /\ inbox'[k].id = h
       /\ log[h].kind # "response" =>
             \E k \in 1 .. Len(inbox') :
                inbox'[k] = [kind |-> log[h].kind, req |-> log[h].req, id |-> h]
    <2>0. inbox \in Seq(Entry)  BY DEF TypeOK
    <2>1. log[h].kind \in Kinds /\ log[h].req \in Requests \cup {"none"}
        BY <1>5, SaidTyped
    <2>2. ASSUME NEW e \in Entry, inbox' = Append(inbox, e),
                 e.kind = "response" \/ e = [kind |-> log[h].kind, req |-> log[h].req, id |-> h],
                 log[h].kind = "response" \/ e = [kind |-> log[h].kind, req |-> log[h].req, id |-> h]
          PROVE  <1>14!:
        <3>1. /\ Len(inbox) \in Nat /\ Len(inbox') = Len(inbox) + 1
              /\ \A k \in 1 .. Len(inbox) : inbox'[k] = inbox[k]
              /\ inbox'[Len(inbox) + 1] = e
            BY <2>0, <2>2, AppendProperties, LenProperties
        <3>2. \A k \in 1 .. Len(inbox') : k \in 1 .. Len(inbox) \/ k = Len(inbox) + 1
            BY <3>1
        <3>3. Len(inbox) + 1 \in 1 .. Len(inbox')  BY <3>1
        <3>4. e.kind # "response" => e.id = h  BY <2>2
        <3> QED BY <2>2, <3>1, <3>2, <3>3, <3>4
    <2>3. CASE UNCHANGED inbox /\ log[h].kind = "response"
        BY <2>0, <2>3, LenProperties
    <2>4. CASE inbox' = Append(inbox, [kind |-> log[h].kind, req |-> log[h].req, id |-> 0])
               /\ log[h].kind = "response"
        <3>1. [kind |-> log[h].kind, req |-> log[h].req, id |-> 0] \in Entry
            BY <2>1 DEF Entry
        <3> QED BY <2>2, <2>4, <3>1
    <2>5. CASE inbox' = Append(inbox, [kind |-> log[h].kind, req |-> log[h].req, id |-> h])
               /\ log[h].kind # "response"
        <3>1. [kind |-> log[h].kind, req |-> log[h].req, id |-> h] \in Entry
            BY <1>5, <2>1 DEF Entry
        <3> QED BY <2>2, <2>5, <3>1
    <2> QED BY <1>2, <1>4, <2>3, <2>4, <2>5 DEF PushInbound, inboxVars
<1>15. Done(h)'  BY <1>2, <1>14 DEF Done
<1>16. ASSUME NEW i \in 1 .. sequence, Done(i) PROVE Done(i)'
    <2>1. CASE log[i].kind = "response"  BY <1>2, <2>1 DEF Done
    <2>2. ASSUME NEW k \in 1 .. Len(inbox),
                 inbox[k] = [kind |-> log[i].kind, req |-> log[i].req, id |-> i]
          PROVE  Done(i)'
        <3>1. k \in 1 .. Len(inbox')  BY <1>14
        <3> QED BY <1>2, <1>14, <2>2, <3>1 DEF Done
    <2> QED BY <1>16, <2>1, <2>2 DEF Done
<1>17. Follows(lastEventId, h) /\ (\A m \in 1 .. Len(wire) : m # 1 => Follows(h, wire[m]))
    <2>1. Ahead(0) = lastEventId /\ \A m \in 1 .. Len(wire) : Ahead(m) = wire[m]
        BY <1>5 DEF Ahead
    <2>2. 0 \in 0 .. Len(wire) /\ 1 \in 0 .. Len(wire) /\ 1 \in 1 .. Len(wire)  BY <1>5
    <2>3. Follows(Ahead(0), Ahead(1))  BY <1>4, <2>2 DEF Queue
    <2>4. ASSUME NEW m \in 1 .. Len(wire), m # 1 PROVE Follows(h, wire[m])
        <3>1. m \in 0 .. Len(wire) /\ 1 < m  BY <1>5, <2>4
        <3>2. Follows(Ahead(1), Ahead(m))  BY <1>4, <2>2, <3>1 DEF Queue
        <3> QED BY <1>5, <2>1, <2>2, <3>2
    <2> QED BY <1>5, <2>1, <2>2, <2>3, <2>4
<1>18. \A v \in Coming : v = h \/ Follows(h, v)
    <2>1. 1 \in 0 .. Len(wire) /\ Ahead(1) = h  BY <1>5 DEF Ahead
    <2>2. \A k \in Stream!Wanted(Me) : Follows(h, sub.replay[k].sequence)
        BY <1>4, <2>1 DEF Queue
    <2>3. \A n \in sub.next .. Len(sender) : Follows(h, sender[n].sequence)
        BY <1>4, <2>1 DEF Queue
    <2> QED BY <1>5, <1>17, <2>2, <2>3 DEF Coming
<1>19. contended \subseteq Nat /\ \A c \in contended : c \in 1 .. sequence
    BY <1>3 DEF TypeOK
<1>20. ASSUME NEW k \in 1 .. Len(inbox), inbox[k].kind # "response", inbox[k].id > h
       PROVE  \E c \in contended : c <= h
    <2>1. /\ inbox[k].id \in 1 .. sequence
          /\ inbox[k].id > lastEventId => \E c \in contended : c <= lastEventId
        BY <1>3, <1>20 DEF Passed
    <2>2. CASE h < lastEventId  BY <1>5, <1>17, <2>2 DEF Follows
    <2>3. CASE ~(h < lastEventId)
        <3>1. inbox[k].id > lastEventId  BY <1>3, <1>5, <1>20, <2>1, <2>3
        <3>2. PICK c \in contended : c <= lastEventId  BY <2>1, <3>1
        <3>3. c \in Nat /\ c <= h  BY <1>3, <1>5, <1>19, <2>3, <3>2
        <3> QED BY <3>3
    <2> QED BY <2>2, <2>3
<1>21. ASSUME NEW k \in 1 .. Len(inbox'), inbox'[k].kind # "response"
       PROVE  /\ inbox'[k].id \in 1 .. sequence
              /\ inbox'[k].id > h => \E c \in contended : c <= h
    <2>1. CASE k \in 1 .. Len(inbox)
        <3>1. inbox'[k] = inbox[k]  BY <1>14, <2>1
        <3>2. inbox[k].id \in 1 .. sequence  BY <1>3, <1>21, <2>1, <3>1 DEF Passed
        <3> QED BY <1>20, <1>21, <2>1, <3>1, <3>2
    <2>2. CASE k \notin 1 .. Len(inbox)
        <3>1. inbox'[k].id = h /\ ~(h > h)  BY <1>5, <1>14, <1>21, <2>2
        <3> QED BY <1>5, <3>1
    <2> QED BY <2>1, <2>2
<1>22. ASSUME NEW i \in 1 .. Len(inbox'), NEW j \in 1 .. Len(inbox'), i < j,
              inbox'[i].kind # "response", inbox'[j].kind # "response",
              inbox'[i].id > inbox'[j].id
       PROVE  \E c \in contended : c <= inbox'[j].id
    <2>1. i \in 1 .. Len(inbox) /\ inbox'[i] = inbox[i]
        <3>1. i # Len(inbox) + 1
            <4> SUFFICES ASSUME i = Len(inbox) + 1 PROVE FALSE  OBVIOUS
            <4>1. j \notin 1 .. Len(inbox) /\ j # Len(inbox) + 1  BY <1>14, <1>22
            <4> QED BY <1>14, <1>22, <4>1
        <3> QED BY <1>14, <1>22, <3>1
    <2>2. CASE j \in 1 .. Len(inbox)
        <3>1. inbox'[j] = inbox[j]  BY <1>14, <2>2
        <3> QED BY <1>3, <1>22, <2>1, <2>2, <3>1 DEF Passed, EventsInOrder
    <2>3. CASE j \notin 1 .. Len(inbox)
        <3>1. inbox'[j].id = h  BY <1>14, <1>22, <2>3
        <3> QED BY <1>20, <1>22, <2>1, <3>1
    <2> QED BY <2>2, <2>3
<1>23. ASSUME NEW i \in 1 .. sequence, i \notin lost, i \notin contended
       PROVE  i \in Unsent \/ i \in Coming \/ Done(i)
    BY <1>2, <1>23 DEF EventInv, Complete
<1>24. ASSUME NEW i \in 1 .. h \ (lost \cup contended) PROVE Done(i)'
    <2>1. i \in 1 .. sequence /\ i <= h /\ i \in Nat /\ h <= sequence  BY <1>3, <1>5
    <2>2. i = h \/ i < h  BY <1>5, <2>1
    <2>3. CASE i \in Unsent /\ i < h
        <3>1. PICK p \in Publishers : publishing[p].at # "idle" /\ publishing[p].sequence = i
            BY <2>3 DEF Unsent
        <3>2. i = sequence  BY <3>1 DEF EventInv, Drawn
        <3> QED BY <1>3, <1>5, <2>1, <2>3, <3>2
    <2>4. CASE i \in Coming /\ i < h
        <3>1. i # h  BY <1>5, <2>1, <2>4
        <3> QED BY <1>18, <2>4, <3>1 DEF Follows
    <2>5. CASE Done(i)  BY <1>16, <2>1, <2>5
    <2> QED BY <1>15, <1>23, <2>1, <2>2, <2>3, <2>4, <2>5
<1>25. Passed'
    <2>1. EventsInOrder'  BY <1>2, <1>22, <1>24 DEF EventsInOrder, Done
    <2> QED BY <1>2, <1>21, <2>1 DEF Passed
<1>26. Complete'
    <2> SUFFICES ASSUME NEW i \in 1 .. sequence, i \notin lost, i \notin contended, i \notin Unsent
                 PROVE  i \in Coming' \/ Done(i)'
        BY <1>2 DEF Complete, Unsent
    <2>1. CASE Done(i)  BY <1>16, <2>1
    <2>2. CASE i \in Coming
        <3>1. CASE i \in {wire[m] : m \in 1 .. Len(wire)}
            <4>1. PICK m \in 1 .. Len(wire) : i = wire[m]  BY <3>1
            <4>2. CASE m = 1  BY <1>5, <1>15, <4>1, <4>2
            <4>3. CASE m # 1
                <5>1. m - 1 \in 1 .. Len(wire') /\ (m - 1) + 1 = m  BY <1>5, <4>3
                <5>2. wire'[m - 1] = i  BY <1>5, <4>1, <5>1
                <5> QED BY <5>1, <5>2 DEF Coming
            <4> QED BY <4>2, <4>3
        <3>2. CASE i \notin {wire[m] : m \in 1 .. Len(wire)}
            BY <1>2, <1>8, <2>2, <3>2 DEF Coming
        <3> QED BY <3>1, <3>2
    <2> QED BY <1>23, <2>1, <2>2
<1> QED BY <1>2, <1>12, <1>13, <1>25, <1>26 DEF EventInv

LEMMA EventStep == TypeOK /\ EventInv /\ [Next]_vars => EventInv'
<1> SUFFICES ASSUME TypeOK, EventInv, [Next]_vars PROVE EventInv'
    OBVIOUS
<1> USE DEF postVars, endVars, inboxVars, loopVars, agentVars, deleteVars
<1>0. /\ closed => sse = "none"
      /\ sub.at = "subscribing" => sse = "connecting"
      /\ sse = "open" <=> sub.at = "open"
    BY DEF EventInv, Loop
<1>1. ASSUME UNCHANGED <<eventVars, loopVars, closed, inbox>> PROVE EventInv'
    BY <1>0, <1>1, Still
<1>2. ASSUME FailReadable, UNCHANGED inbox PROVE EventInv'
    <2>1. CASE closed  BY <1>1, <1>2, <2>1 DEF FailReadable
    <2>2. CASE ~closed  BY <1>2, <2>2, Breaks DEF FailReadable
    <2> QED BY <2>1, <2>2
<1>3. ASSUME EnsureSseLoop, ~closed, UNCHANGED <<eventVars, closed, inbox>> PROVE EventInv'
    <2>1. sse' = "open" <=> sse = "open"  BY <1>3 DEF EnsureSseLoop
    <2>2. sub.at = "subscribing" => sse' = "connecting"  BY <1>0, <1>3 DEF EnsureSseLoop
    <2> QED BY <1>3, <2>1, <2>2, Still DEF EnsureSseLoop
<1>4. ASSUME NEW r \in Requests, WriteMessage(r) \/ WriteAnswer(r) PROVE EventInv'
    BY <1>3, <1>4 DEF WriteMessage, WriteAnswer
<1>5. ASSUME NEW r \in Requests, PostReplied(r) PROVE EventInv'
    <2>1. UNCHANGED inbox \/ inbox' = Append(inbox, [kind |-> "response", req |-> r, id |-> 0])
        BY <1>5 DEF PostReplied, PushInbound
    <2>2. UNCHANGED <<eventVars, loopVars, closed>>  BY <1>5 DEF PostReplied
    <2> QED BY <1>0, <2>1, <2>2, Still
<1>6. ASSUME NEW r \in Requests, PostRefused(r) \/ PostFails(r) \/ AnswerFails(r) PROVE EventInv'
    BY <1>2, <1>6 DEF PostRefused, PostFails, AnswerFails
<1>7. ASSUME NEW r \in Requests,
             \/ PostArrives(r) \/ AnswerArrives(r) \/ RequestTimesOut(r) \/ StrandedReturns(r)
             \/ SlashReplies(r)
      PROVE  EventInv'
    BY <1>1, <1>7 DEF PostArrives, AnswerArrives, RequestTimesOut, StrandedReturns, SlashReplies
<1>8. ASSUME NEW r \in Requests, AgentNotifies(r) \/ AgentAsks(r) \/ AgentAnswers(r)
      PROVE  EventInv'
    <2>1. "stdout" \in Publishers  BY DEF Publishers
    <2>2. \A kind \in {"note", "question", "response"} : [kind |-> kind, req |-> r] \in Said
        BY DEF Said, Kinds
    <2>3. PICK kind \in {"note", "question", "response"} : Publish("stdout", kind, r)
        BY <1>8 DEF AgentNotifies, AgentAsks, AgentAnswers
    <2>4. UNCHANGED <<loopVars, closed, inbox>>
        BY <1>8 DEF AgentNotifies, AgentAsks, AgentAnswers
    <2> QED BY <2>1, <2>2, <2>3, <2>4, Draws
<1>9. ASSUME NEW r \in Requests, InjectNotification(r) PROVE EventInv'
    <2>1. r \in Publishers  BY <1>9 DEF InjectNotification, Publishers
    <2>2. [kind |-> "note", req |-> r] \in Said  BY DEF Said, Kinds
    <2>3. Publish(r, "note", r) /\ UNCHANGED <<loopVars, closed, inbox>>
        BY <1>9 DEF InjectNotification
    <2> QED BY <2>1, <2>2, <2>3, Draws
<1>10. ASSUME NEW r \in Requests, InjectDropped(r) PROVE EventInv'
    <2>1. r \in Publishers
        BY <1>10 DEF InjectDropped, Stream!AbandonInject, Publishers
    <2>2. /\ Stream!AbandonInject(r) /\ lost' = lost \cup {publishing[r].sequence}
          /\ UNCHANGED <<loopVars, closed, inbox, log, contended>>
        BY <1>10 DEF InjectDropped
    <2> QED BY <2>1, <2>2, Drops
<1>11. ASSUME NEW p \in Publishers, PublishGoesOn(p) PROVE EventInv'
    <2>1. UNCHANGED <<loopVars, closed, inbox, log, contended, lost>>
        BY <1>11 DEF PublishGoesOn
    <2>2. Stream!PushRing(p) \/ Stream!Broadcast(p)  BY <1>11 DEF PublishGoesOn
    <2> QED BY <2>1, <2>2, PushesOn, Sends
<1>12. CASE SseRefused
    <2>1. /\ sse = "connecting" /\ sub.at = "closed" /\ sse' = "none"
          /\ UNCHANGED <<eventVars, lastEventId, wire, closed, inbox>>
        BY <1>12 DEF SseRefused, sub
    <2> QED BY <1>0, <2>1, Still
<1>13. CASE SseAgain
    <2>1. /\ sse = "waiting" /\ sse' = "connecting"
          /\ UNCHANGED <<eventVars, lastEventId, wire, closed, inbox>>
        BY <1>13 DEF SseAgain
    <2> QED BY <1>0, <2>1, Still
<1>14. CASE SseEnds \/ SseFails
    <2>1. PICK next \in {"none", "waiting"} : HangUp(next) /\ (next = "none" \/ sse = "open")
        BY <1>14 DEF SseEnds, SseFails
    <2>2. UNCHANGED <<closed, inbox>>  BY <1>14 DEF SseEnds, SseFails
    <2> QED BY <1>0, <2>1, <2>2, Breaks
<1>15. CASE SseSend  BY <1>15, Replays, Delivers DEF SseSend
<1>16. CASE Close
    <2>1. CASE closed
        BY <1>1, <1>16, <2>1 DEF Close
    <2>2. CASE ~closed  BY <1>16, <2>2, Breaks DEF Close
    <2> QED BY <2>1, <2>2
<1>17. CASE CloseReturns \/ DeleteArrives \/ DeleteAnswered \/ AgentExits \/ UNCHANGED vars
    BY <1>1, <1>17 DEF CloseReturns, DeleteArrives, DeleteAnswered, AgentExits, vars
<1>18. CASE ExitPublished
    <2>1. "exit" \in Publishers /\ [kind |-> "exit", req |-> "none"] \in Said
        BY <1>18 DEF ExitPublished, Publishers, Said
    <2>2. Publish("exit", "exit", "none") /\ UNCHANGED <<loopVars, closed, inbox>>
        BY <1>18 DEF ExitPublished
    <2> QED BY <2>1, <2>2, Draws
<1> QED
    BY <1>4, <1>5, <1>6, <1>7, <1>8, <1>9, <1>10, <1>11, <1>12, <1>13, <1>14, <1>15, <1>16,
       <1>17, <1>18, Copies, Opens, Lags, Processes
    DEF Next

-----------------------------------------------------------------------------
(* A response is passed on once.                                            *)

LEMMA BetweenCount ==
    ASSUME NEW box, NEW i \in Nat, NEW j \in Nat
    PROVE  IsFiniteSet(Between(box, i, j)) /\ Cardinality(Between(box, i, j)) \in Nat
<1>1. IsFiniteSet(i + 1 .. j - 1)  BY FS_Interval
<1>2. Between(box, i, j) \in SUBSET (i + 1 .. j - 1)  BY DEF Between
<1>3. IsFiniteSet(Between(box, i, j))  BY <1>1, <1>2, FS_Subset
<1> QED BY <1>3, FS_CardinalityType

\* An entry behind the others changes nothing in front of it, and counts if it
\* is a response.
LEMMA BetweenAppend ==
    ASSUME NEW box \in Seq(Entry), NEW e \in Entry, NEW i \in 1 .. Len(box)
    PROVE  /\ \A j \in 1 .. Len(box) + 1 :
                 Between(Append(box, e), i, j) = Between(box, i, j)
           /\ Cardinality(Between(Append(box, e), i, Len(box) + 2))
              = Cardinality(Between(box, i, Len(box) + 1))
                + (IF e.kind = "response" THEN 1 ELSE 0)
<1> DEFINE more == Append(box, e)
           old == Between(box, i, Len(box) + 1)
           new == Between(more, i, Len(box) + 2)
<1>1. /\ Len(box) \in Nat /\ Len(more) = Len(box) + 1
      /\ \A k \in 1 .. Len(box) : more[k] = box[k]
      /\ more[Len(box) + 1] = e
    BY AppendProperties, LenProperties
<1> HIDE DEF more
<1>2. ASSUME NEW j \in 1 .. Len(box) + 1
      PROVE  Between(more, i, j) = Between(box, i, j)
    <2>1. \A k \in i + 1 .. j - 1 : more[k].kind = box[k].kind
        <3> SUFFICES ASSUME NEW k \in i + 1 .. j - 1 PROVE more[k].kind = box[k].kind
            OBVIOUS
        <3>1. k \in 1 .. Len(box)  BY <1>1
        <3> QED BY <1>1, <3>1
    <2> QED BY <2>1 DEF Between
<1>3. new = IF e.kind = "response" THEN old \cup {Len(box) + 1} ELSE old
    <2>1. \A k : k \in i + 1 .. (Len(box) + 2) - 1 <=>
                 k \in i + 1 .. (Len(box) + 1) - 1 \/ k = Len(box) + 1
        BY <1>1
    <2>2. \A k \in i + 1 .. (Len(box) + 1) - 1 : more[k].kind = box[k].kind
        <3> SUFFICES ASSUME NEW k \in i + 1 .. (Len(box) + 1) - 1
                     PROVE  more[k].kind = box[k].kind
            OBVIOUS
        <3>1. k \in 1 .. Len(box)  BY <1>1
        <3> QED BY <1>1, <3>1
    <2>3. \A k : k \in new <=> k \in old \/ (k = Len(box) + 1 /\ e.kind = "response")
        BY <1>1, <2>1, <2>2 DEF Between
    <2> QED BY <2>3
<1>4. Len(box) + 1 \notin old  BY <1>1 DEF Between
<1>5. IsFiniteSet(old) /\ Cardinality(old) \in Nat
    <2>1. i \in Nat /\ Len(box) + 1 \in Nat  BY <1>1
    <2> QED BY <2>1, BetweenCount
<1> HIDE DEF old, new
<1>6. Cardinality(new) = Cardinality(old) + (IF e.kind = "response" THEN 1 ELSE 0)
    <2>1. CASE e.kind = "response"  BY <1>3, <1>4, <1>5, <2>1, FS_AddElement
    <2>2. CASE e.kind # "response"  BY <1>3, <1>5, <2>2
    <2> QED BY <2>1, <2>2
<1> QED BY <1>2, <1>6 DEF more, old, new

\* What the memory holds after a response has been added to it.
LEMMA RememberedTail ==
    ASSUME TypeOK, NEW r \in Requests, Remember(r)
    PROVE  /\ Len(seen) \in Nat /\ Len(seen') \in Nat \ {0} /\ seen'[Len(seen')] = r
           /\ Len(seen') # Window => Len(seen') = Len(seen) + 1 /\ Len(seen) # Window
           /\ Len(seen') \in {Len(seen), Len(seen) + 1}
           /\ \A n \in Nat : n + 1 < Len(seen') =>
                 n < Len(seen) /\ seen'[Len(seen') - (n + 1)] = seen[Len(seen) - n]
<1> DEFINE longer == Append(seen, r)
<1>1. seen \in Seq(Requests) /\ Len(seen) \in Nat /\ Len(seen) <= Window /\ Window \in Nat
      /\ Window # 0
    BY ClientAssumption DEF TypeOK
<1>2. /\ longer \in Seq(Requests) /\ Len(longer) = Len(seen) + 1 /\ longer # <<>>
      /\ \A m \in 1 .. Len(seen) : longer[m] = seen[m]
      /\ longer[Len(seen) + 1] = r
    BY <1>1, AppendProperties
<1>3. seen' = IF Len(longer) > Window THEN Tail(longer) ELSE longer  BY DEF Remember
<1> HIDE DEF longer
<1>4. CASE Len(longer) > Window
    <2>1. Len(seen) = Window /\ seen' = Tail(longer)  BY <1>1, <1>2, <1>3, <1>4
    <2>2. Len(seen') = Len(seen) /\ \A m \in 1 .. Len(seen) : seen'[m] = longer[m + 1]
        BY <1>1, <1>2, <2>1, HeadTailProperties
    <2>3. Len(seen) \in 1 .. Len(seen)  BY <1>1, <2>1
    <2>4. seen'[Len(seen')] = r  BY <1>2, <2>2, <2>3
    <2>5. ASSUME NEW n \in Nat, n + 1 < Len(seen')
          PROVE  n < Len(seen) /\ seen'[Len(seen') - (n + 1)] = seen[Len(seen) - n]
        <3>1. n + 1 < Len(seen)  BY <2>2, <2>5
        <3>2. /\ Len(seen) - (n + 1) \in 1 .. Len(seen) /\ Len(seen) - n \in 1 .. Len(seen)
              /\ Len(seen) - (n + 1) + 1 = Len(seen) - n /\ n < Len(seen)
            BY <1>1, <3>1
        <3> QED BY <1>2, <2>2, <3>2
    <2> QED BY <1>1, <2>1, <2>2, <2>4, <2>5
<1>5. CASE ~(Len(longer) > Window)
    <2>1. seen' = longer /\ Len(seen') = Len(seen) + 1 /\ Len(seen) < Window
        BY <1>1, <1>2, <1>3, <1>5
    <2>2. ASSUME NEW n \in Nat, n + 1 < Len(seen')
          PROVE  n < Len(seen) /\ seen'[Len(seen') - (n + 1)] = seen[Len(seen) - n]
        <3>1. n + 1 < Len(seen) + 1  BY <2>1, <2>2
        <3>2. /\ Len(seen) - n \in 1 .. Len(seen) /\ n < Len(seen)
              /\ Len(seen) + 1 - (n + 1) = Len(seen) - n
            BY <1>1, <3>1
        <3> QED BY <1>2, <2>1, <3>2
    <2> QED BY <1>1, <1>2, <2>1, <2>2
<1> QED BY <1>4, <1>5

\* A response that is not remembered came long ago, or never.
LEMMA SeenPushed ==
    ASSUME TypeOK, SeenInv, NEW r \in Requests, ~Remembered(r), Remember(r),
           inbox' = Append(inbox, [kind |-> "response", req |-> r, id |-> 0])
    PROVE  SeenInv'
<1> DEFINE e == [kind |-> "response", req |-> r, id |-> 0]
           L == Len(inbox)
           after(i) == Cardinality(Between(inbox, i, L + 1))
           later(i) == Cardinality(Between(inbox', i, L + 2))
<1>1. inbox \in Seq(Entry) /\ e \in Entry /\ e.kind = "response" /\ e.req = r
    BY DEF Entry, Kinds, TypeOK
<1>2. /\ L \in Nat /\ Len(inbox') = L + 1
      /\ \A k \in 1 .. L : inbox'[k] = inbox[k]
      /\ inbox'[L + 1] = e
    BY <1>1, AppendProperties, LenProperties
<1>3. \A i \in 1 .. L :
          /\ \A j \in 1 .. L + 1 : Between(inbox', i, j) = Between(inbox, i, j)
          /\ later(i) = after(i) + 1
    BY <1>1, BetweenAppend
<1>4. \A i \in 1 .. L : after(i) \in Nat  BY <1>2, BetweenCount
<1>5. later(L + 1) = 0
    <2>1. L + 1 + 1 .. L + 2 - 1 = {}  BY <1>2
    <2>2. Between(inbox', L + 1, L + 2) = {}  BY <2>1 DEF Between
    <2> QED BY <2>2, FS_EmptySet
<1>6. \A k \in 1 .. L + 1 : k \in 1 .. L \/ k = L + 1  BY <1>2
<1>7. L + 1 + 1 = L + 2  BY <1>2
<1>8. /\ Len(seen) \in Nat /\ Len(seen') \in Nat \ {0} /\ seen'[Len(seen')] = r
      /\ Len(seen') # Window => Len(seen') = Len(seen) + 1 /\ Len(seen) # Window
      /\ Len(seen') \in {Len(seen), Len(seen) + 1}
      /\ \A n \in Nat : n + 1 < Len(seen') =>
            n < Len(seen) /\ seen'[Len(seen') - (n + 1)] = seen[Len(seen) - n]
    BY RememberedTail
<1>9. \A i \in 1 .. L : inbox[i].kind = "response" =>
          /\ after(i) < Len(seen) => seen[Len(seen) - after(i)] = inbox[i].req
          /\ after(i) < Len(seen) \/ Len(seen) = Window
    BY DEF SeenInv, SeenIsTail
<1> HIDE DEF e, L, after, later
<1>10. ASSUME NEW i \in 1 .. L + 1, inbox'[i].kind = "response"
       PROVE  /\ later(i) < Len(seen') => seen'[Len(seen') - later(i)] = inbox'[i].req
              /\ later(i) < Len(seen') \/ Len(seen') = Window
    <2>1. CASE i \in 1 .. L
        <3>1. later(i) = after(i) + 1 /\ after(i) \in Nat /\ inbox'[i] = inbox[i]
            BY <1>2, <1>3, <1>4, <2>1
        <3>2. /\ after(i) < Len(seen) => seen[Len(seen) - after(i)] = inbox[i].req
              /\ after(i) < Len(seen) \/ Len(seen) = Window
            BY <1>9, <1>10, <2>1, <3>1
        <3>3. later(i) < Len(seen') => seen'[Len(seen') - later(i)] = inbox'[i].req
            BY <1>8, <3>1, <3>2
        <3>4. later(i) < Len(seen') \/ Len(seen') = Window
            BY <1>8, <3>1, <3>2
        <3> QED BY <3>3, <3>4
    <2>2. CASE i = L + 1
        <3>1. Len(seen') - 0 = Len(seen') /\ 0 < Len(seen')  BY <1>8
        <3> QED BY <1>1, <1>2, <1>5, <1>8, <2>2, <3>1
    <2> QED BY <1>6, <2>1, <2>2
<1>11. SeenIsTail'
    <2>1. \A i \in 1 .. Len(inbox') : later(i) = Cardinality(Between(inbox', i, Len(inbox') + 1))
        BY <1>2, <1>7 DEF later
    <2> QED BY <1>2, <1>10, <2>1 DEF SeenIsTail
<1>12. ASSUME NEW i \in 1 .. L + 1, NEW j \in 1 .. L + 1, i < j,
              inbox'[i].kind = "response", inbox'[j].kind = "response",
              inbox'[i].req = inbox'[j].req
       PROVE  Cardinality(Between(inbox', i, j)) >= Window
    <2>1. i \in 1 .. L  BY <1>2, <1>12
    <2>2. Between(inbox', i, j) = Between(inbox, i, j)  BY <1>3, <2>1
    <2>3. CASE j \in 1 .. L
        <3>1. inbox'[i] = inbox[i] /\ inbox'[j] = inbox[j]  BY <1>2, <2>1, <2>3
        <3>2. Cardinality(Between(inbox, i, j)) >= Window
            BY <1>12, <2>1, <2>3, <3>1 DEF SeenInv, AnsweredOnce, Between, L
        <3> QED BY <2>2, <3>2
    <2>4. CASE j = L + 1
        <3>1. inbox[i].kind = "response" /\ inbox[i].req = r
            BY <1>1, <1>2, <1>12, <2>1, <2>4
        <3>2. after(i) \in Nat  BY <1>4, <2>1
        <3>3. ~(after(i) < Len(seen))
            <4> SUFFICES ASSUME after(i) < Len(seen) PROVE FALSE  OBVIOUS
            <4>1. seen[Len(seen) - after(i)] = r  BY <1>9, <2>1, <3>1
            <4>2. Len(seen) - after(i) \in 1 .. Len(seen)  BY <1>8, <3>2
            <4> QED BY <4>1, <4>2 DEF Remembered
        <3>4. Len(seen) = Window /\ after(i) >= Window  BY <1>8, <1>9, <2>1, <3>1, <3>2, <3>3
        <3> QED BY <2>2, <2>4, <3>4 DEF after
    <2> QED BY <1>6, <2>3, <2>4
<1>13. AnsweredOnce'  BY <1>2, <1>12 DEF AnsweredOnce, Between
<1> QED BY <1>11, <1>13 DEF SeenInv

\* What is no response changes neither the memory nor what it is the tail of.
LEMMA SeenKept ==
    ASSUME TypeOK, SeenInv, UNCHANGED seen, NEW e \in Entry, e.kind # "response",
           inbox' = Append(inbox, e)
    PROVE  SeenInv'
<1> DEFINE L == Len(inbox)
<1>1. inbox \in Seq(Entry)  BY DEF TypeOK
<1>2. /\ L \in Nat /\ Len(inbox') = L + 1
      /\ \A k \in 1 .. L : inbox'[k] = inbox[k]
      /\ inbox'[L + 1] = e
    BY <1>1, AppendProperties, LenProperties
<1>3. ASSUME NEW i \in 1 .. L
      PROVE  /\ \A j \in 1 .. L : Between(inbox', i, j) = Between(inbox, i, j)
             /\ Cardinality(Between(inbox', i, L + 2)) = Cardinality(Between(inbox, i, L + 1))
    <2>1. Cardinality(Between(inbox, i, L + 1)) \in Nat  BY <1>2, BetweenCount
    <2>2. 1 .. L \subseteq 1 .. L + 1  BY <1>2
    <2> QED BY <1>1, <1>3, <2>1, <2>2, BetweenAppend
<1>4. \A k \in 1 .. L + 1 : inbox'[k].kind = "response" => k \in 1 .. L  BY <1>2
<1>5. L + 1 + 1 = L + 2  BY <1>2
<1>6. SeenIsTail'
    BY <1>2, <1>3, <1>4, <1>5 DEF SeenInv, SeenIsTail
<1>7. AnsweredOnce'
    <2> SUFFICES ASSUME NEW i \in 1 .. L + 1, NEW j \in 1 .. L + 1, i < j,
                        inbox'[i].kind = "response", inbox'[j].kind = "response",
                        inbox'[i].req = inbox'[j].req
                 PROVE  Cardinality(Between(inbox', i, j)) >= Window
        BY <1>2 DEF AnsweredOnce, Between
    <2>1. i \in 1 .. L /\ j \in 1 .. L  BY <1>4
    <2>2. Cardinality(Between(inbox, i, j)) >= Window
        BY <1>2, <2>1 DEF SeenInv, AnsweredOnce, Between
    <2> QED BY <1>3, <2>1, <2>2
<1> QED BY <1>6, <1>7 DEF SeenInv

LEMMA SeenStep == TypeOK /\ EventInv /\ SeenInv /\ [Next]_vars => SeenInv'
<1> SUFFICES ASSUME TypeOK, EventInv, SeenInv, [Next]_vars PROVE SeenInv'
    OBVIOUS
<1> USE DEF postVars, endVars, inboxVars, loopVars, agentVars, deleteVars
<1>1. ASSUME UNCHANGED inboxVars PROVE SeenInv'
    BY <1>1 DEF SeenInv, SeenIsTail, AnsweredOnce
<1>2. ASSUME NEW kind \in Kinds, NEW r \in Requests \cup {"none"}, NEW id \in Nat,
             kind = "response" => r \in Requests,
             PushInbound(kind, r, id)
      PROVE  SeenInv'
    <2>1. [kind |-> kind, req |-> r, id |-> id] \in Entry  BY DEF Entry
    <2> QED BY <1>1, <1>2, <2>1, SeenPushed, SeenKept DEF PushInbound
<1>3. ASSUME NEW r \in Requests, PostReplied(r) PROVE SeenInv'
    BY <1>2, <1>3 DEF PostReplied, Kinds
<1>4. CASE ProcessSseEvent
    <2> DEFINE h == Head(wire)
    <2>1. h \in Nat /\ h \in 1 .. sequence  BY <1>4, HeadOfWire DEF ProcessSseEvent
    <2>2. PushInbound(log[h].kind, log[h].req, h)  BY <1>4 DEF ProcessSseEvent
    <2> HIDE DEF h
    <2>3. /\ log[h].kind \in Kinds /\ log[h].req \in Requests \cup {"none"}
          /\ log[h].kind # "exit" => log[h].req \in Requests
        BY <2>1, SaidTyped
    <2> QED BY <1>2, <2>1, <2>2, <2>3
<1>5. ASSUME NEW r \in Requests,
             \/ WriteMessage(r) \/ WriteAnswer(r) \/ PostRefused(r) \/ PostFails(r)
             \/ AnswerFails(r) \/ PostArrives(r) \/ AnswerArrives(r) \/ RequestTimesOut(r)
             \/ StrandedReturns(r) \/ AgentNotifies(r) \/ AgentAsks(r) \/ AgentAnswers(r)
             \/ InjectNotification(r) \/ SlashReplies(r) \/ InjectDropped(r)
      PROVE  SeenInv'
    BY <1>1, <1>5 DEF WriteMessage, WriteAnswer, PostRefused, PostFails, AnswerFails, PostArrives,
                      AnswerArrives, RequestTimesOut, StrandedReturns, AgentNotifies, AgentAsks,
                      AgentAnswers, InjectNotification, SlashReplies, InjectDropped
<1>6. ASSUME NEW p \in Publishers, PublishGoesOn(p) PROVE SeenInv'
    BY <1>1, <1>6 DEF PublishGoesOn
<1>7. CASE SseArrives \/ SseRefused \/ SseOpens \/ SseSend \/ SseLags \/ SseEnds \/ SseAgain
           \/ SseFails
    BY <1>1, <1>7 DEF SseArrives, SseRefused, SseOpens, SseSend, SseLags, SseEnds, SseAgain,
                      SseFails
<1>8. CASE Close \/ CloseReturns \/ DeleteArrives \/ DeleteAnswered \/ AgentExits
           \/ ExitPublished \/ UNCHANGED vars
    BY <1>1, <1>8 DEF Close, CloseReturns, DeleteArrives, DeleteAnswered, AgentExits,
                      ExitPublished, vars
<1> QED BY <1>3, <1>4, <1>5, <1>6, <1>7, <1>8 DEF Next

-----------------------------------------------------------------------------
(* The theorems.                                                            *)

IInv == TypeOK /\ Ends /\ EventInv /\ SeenInv

\* The inductive invariant of the transport and of the server it talks to.
THEOREM Invariant == Spec => []IInv
<1>1. Init => IInv
    <2> SUFFICES ASSUME Init PROVE IInv  OBVIOUS
    <2>1. TypeOK  BY InitType
    <2>2. Ends  BY DEF Init, Ends
    <2>3. /\ sequence = 0 /\ ring = <<>> /\ sender = <<>> /\ sub = Stream!Closed
          /\ delivered[Me] = 0
          /\ \A p \in Publishers : publishing[p].at = "idle"
        BY DEF Init, Stream!StreamInit, sub
    <2>4. sub.at = "closed" /\ sub.replay = <<>>  BY <2>3 DEF Stream!Closed
    <2>5. /\ Len(inbox) = 0 /\ 1 .. Len(inbox) = {} /\ 1 .. lastEventId = {}
          /\ lastEventId = 0 /\ lastEventId <= sequence
        BY <2>3 DEF Init
    <2>6. InOrder(ring) /\ InOrder(sender) /\ InOrder(sub.replay)
        BY <2>3, <2>4 DEF InOrder
    <2>7. Loop  BY <2>3, <2>4, <2>5, <2>6 DEF Init, Loop
    <2>8. Passed  BY <2>5 DEF Passed, EventsInOrder
    <2>9. EventInv  BY <2>3, <2>6, <2>7, <2>8 DEF Init, EventInv, Drawn
    <2>10. SeenInv  BY <2>5 DEF SeenInv, SeenIsTail, AnsweredOnce
    <2> QED BY <2>1, <2>2, <2>9, <2>10 DEF IInv
<1>2. IInv /\ [Next]_vars => IInv'
    BY NextType, EndsStep, EventStep, SeenStep DEF IInv
<1> QED BY <1>1, <1>2, PTL DEF Spec

\* Every variable of the transport keeps its type.
THEOREM TypeCorrect == Spec => []TypeOK
<1>1. IInv => TypeOK  BY DEF IInv
<1> QED BY <1>1, Invariant, PTL

\* pushInbound() passes a response on once, by whichever way it came first,
\* unless a whole window of others came in between.
THEOREM ResponsesOnce == Spec => []AnsweredOnce
<1>1. IInv => AnsweredOnce  BY DEF IInv, SeenInv
<1> QED BY <1>1, Invariant, PTL

\* Over a server whose publishers overtake each other, whose ring forgets and
\* whose channel lags, and across every failure of the stream, the connection
\* misses only what the server left out, and goes back only to an id that was
\* overtaken.
THEOREM NothingLost == Spec => []EventsInOrder
<1>1. IInv => EventsInOrder  BY DEF IInv, EventInv, Passed
<1> QED BY <1>1, Invariant, PTL

\* An answered DELETE waited for the agent's exit, and its instance is gone.
THEOREM NothingBehind == Spec => []ClosedBehind
<1>1. IInv => ClosedBehind
    BY DEF IInv, Ends, ClosedBehind, TypeOK
<1> QED BY <1>1, Invariant, PTL

-----------------------------------------------------------------------------
(* The sessions: what holds of the connections and of the calls.            *)

\* The session at the agent that a restoring or creating call has just made.
Made(c) ==
    LET a == call[c].record.agentSessionId IN
    /\ call[c].record # None
    /\ a \in 1 .. Len(remote)
    /\ remote[a].local = S(c) /\ remote[a].k = call[c].k
    /\ remote[a].restored = (Kind(c) # "create")

CallWired(c) ==
    /\ call[c].pc \in {"joining", "collecting", "creating", "writing", "binding"}
       => call[c].k \in 1 .. Len(conn)
    /\ call[c].pc \in {"writing", "binding"} => Made(c)
    /\ At(c, "marking") => call[c].record # None
    /\ call[c].pc \in {"settling", "closing"} => Kind(c) = "dispose"
    /\ Kind(c) = "dispose" => call[c].pc \in {"idle", "settling", "closing", "done"}
    /\ dispose[c].pending <= Len(conn) /\ dispose[c].before <= Len(conn)

\* A session is bound to one that was made for it on this connection.
ConnectionWired(k) ==
    /\ conn[k].state \notin {"opening", "failed", "orphaned"} => conn[k].result \in 1 .. Len(conn)
    /\ \A s \in Sessions : conn[k].bound[s] # 0 =>
          /\ conn[k].bound[s] \in 1 .. Len(remote)
          /\ remote[conn[k].bound[s]].local = s
          /\ remote[conn[k].bound[s]].k = k

Wired ==
    /\ Len(conn) <= MaxConnections
    /\ \A c \in Calls : CallWired(c)
    /\ \A k \in 1 .. Len(conn) : ConnectionWired(k)

-----------------------------------------------------------------------------
(* The sessions that wait for their envelope.                               *)

\* f maps each session that waits on connection k to its request: in their order,
\* and every request of the connection is met.
InLine(f, k) ==
    /\ f \in [1 .. Len(conn[k].pendingNew) -> 1 .. Len(out)]
    /\ \A i, j \in 1 .. Len(conn[k].pendingNew) : i < j => f[i] < f[j]
    /\ \A i \in 1 .. Len(conn[k].pendingNew) :
          call[out[f[i]]].k = k /\ S(out[f[i]]) = conn[k].pendingNew[i]
    /\ \A n \in 1 .. Len(out) : call[out[n]].k = k =>
          \E i \in 1 .. Len(conn[k].pendingNew) : f[i] = n

Queued ==
    /\ \A i \in 1 .. Len(out) : At(out[i], "creating")
    /\ \A i, j \in 1 .. Len(out) : out[i] = out[j] => i = j
    /\ \A k \in 1 .. Len(conn) : \E f : InLine(f, k)
    /\ LoggedUnderItsSession

-----------------------------------------------------------------------------
(* What a dispose() has still to close.                                     *)

AwaitedBy(c, k) == At(c, "settling") /\ dispose[c].pending = k

TakenBy(c, k) ==
    LET p == dispose[c].pending IN
    \/ call[c].pc \in {"settling", "closing"} /\ k \in dispose[c].taken
    \/ /\ At(c, "settling") /\ p # 0
       /\ conn[p].state \notin {"opening", "failed", "orphaned"} /\ conn[p].result = k

\* No dispose() has been called since connection k was asked for.
After(k) ==
    \A c \in Calls : Kind(c) = "dispose" /\ ~At(c, "idle") => dispose[c].before < k

Accounted ==
    \A k \in 1 .. Len(conn) :
        /\ conn[k].state = "open" =>
              (live = k /\ After(k)) \/ \E c \in Calls : TakenBy(c, k)
        /\ conn[k].state = "opening" =>
              (opening = k /\ After(k)) \/ \E c \in Calls : AwaitedBy(c, k)

-----------------------------------------------------------------------------
(* The history that is still to be given.                                   *)

Busy(c)  == Active(c) /\ Kind(c) # "dispose"
Quiet(s) == \A c \in Calls : S(c) = s => alone[c]

NothingToReplay(s) == \A k \in 1 .. Len(conn) : ~conn[k].replay[s]

Restoring(s, k) ==
    \E c \in Calls : S(c) = s /\ call[c].k = k /\ call[c].pc \in {"writing", "binding"}

\* The history waits for the prompts of a restored session that had none.
ReplayDue(s, k) ==
    LET a == conn[k].bound[s] IN
    a # 0 /\ ~Restoring(s, k)
    => conn[k].replay[s] = (remote[a].restored /\ remote[a].prompts = <<>>)

QuietSession(s) ==
    /\ \A c \in Calls : S(c) = s /\ Busy(c) /\ Kind(c) = "create" => NothingToReplay(s)
    /\ \A c \in Calls : S(c) = s /\ call[c].pc \in {"writing", "binding"} =>
          remote[call[c].record.agentSessionId].prompts = <<>>
    /\ \A k \in 1 .. Len(conn) : ReplayDue(s, k)

Overlapped ==
    \A c, d \in Calls : Busy(c) /\ Busy(d) /\ S(c) = S(d) /\ c # d => ~alone[c]

\* A session without a record has no history.
Recorded ==
    /\ \A c \in Calls : At(c, "binding") => store[S(c)] # None
    /\ \A s \in Sessions : store[s] = None => NothingToReplay(s)

Replayed ==
    /\ Overlapped /\ Recorded
    /\ \A s \in Sessions : Quiet(s) => QuietSession(s)
    /\ ReplayFirst

SdkIInv == SdkTypeOK /\ Wired /\ Queued /\ Accounted /\ Replayed

-----------------------------------------------------------------------------
(* The steps.                                                               *)

\* A call goes on by itself: no connection, request or session of the agent is
\* touched.
Continues(c, x) ==
    \/ x = call[c] /\ UNCHANGED <<store, alone>>
    \/ /\ At(c, "idle") /\ x.pc \in {"connecting", "reading"}
       /\ Noticed(c) /\ UNCHANGED store
       /\ Kind(c) = "create" => store[S(c)] = None
    \/ /\ Active(c) /\ call[c].pc \notin {"writing", "binding"} /\ UNCHANGED <<store, alone>>
       /\ x.pc \in {"reading", "connecting", "joining", "collecting", "noting", "marking",
                    "done", "failed"}
       /\ x.pc \in {"joining", "collecting"} => x.k \in 1 .. Len(conn)
       /\ x.pc = "marking" => x.record # None
    \/ /\ At(c, "writing") /\ x = [call[c] EXCEPT !.pc = "binding"]
       /\ store' = [store EXCEPT ![S(c)] = call[c].record] /\ UNCHANGED alone
    \/ /\ At(c, "marking") /\ x.pc = "done"
       /\ store' = [store EXCEPT ![S(c)] = call[c].record] /\ UNCHANGED alone

OnItsOwn(c, x) ==
    /\ x \in Call /\ call' = [call EXCEPT ![c] = x]
    /\ UNCHANGED <<job, conn, live, opening, breaks, out, attributed, remote, dispose>>
    /\ permission' \in [Calls -> {"none", "pending", "settled"}]
    /\ Continues(c, x)
    /\ x = call[c] \/ Kind(c) # "dispose"
    /\ x = call[c] \/ \A i \in 1 .. Len(out) : out[i] # c

Rest == UNCHANGED <<job, store, live, opening, breaks, attributed, permission, dispose, alone>>

\* A session/new is asked for on connection k.
Asks(c, k) ==
    /\ call[c].pc \in {"connecting", "joining", "collecting"}
    /\ AskNew(c, k) /\ Rest

\* A prompt is sent on connection k.
Prompts(c, k) ==
    LET a == conn[k].bound[S(c)] IN
    /\ call[c].pc \in {"connecting", "joining"} /\ Kind(c) = "prompt" /\ a # 0
    /\ remote' = [remote EXCEPT ![a].prompts = Append(@, conn[k].replay[S(c)])]
    /\ conn' = [conn EXCEPT ![k].replay[S(c)] = FALSE]
    /\ call' = [call EXCEPT ![c].pc = "sent", ![c].k = k]
    /\ UNCHANGED out /\ Rest

\* A connection is asked for.
Connects(c) ==
    /\ At(c, "connecting") /\ live = 0 /\ opening = 0 /\ Len(conn) # MaxConnections
    /\ conn' = Append(conn, [state |-> "opening", result |-> 0,
                             bound |-> [s \in Sessions |-> 0],
                             replay |-> [s \in Sessions |-> FALSE],
                             pendingNew |-> <<>>])
    /\ opening' = Len(conn) + 1
    /\ call' = [call EXCEPT ![c].pc = "joining", ![c].k = Len(conn) + 1]
    /\ UNCHANGED <<job, store, live, breaks, out, attributed, remote, permission, dispose,
                   alone>>

SdkStep ==
    \/ \E c \in Calls, x \in Call : OnItsOwn(c, x)
    \/ \E c \in Calls : StartDispose(c) \/ Connects(c) \/ NewSessionAnswered(c) \/ Bind(c)
                        \/ PendingSettled(c) \/ CloseConnections(c)
    \/ \E c \in Calls : \E k \in 1 .. Len(conn) : Asks(c, k) \/ Prompts(c, k)
    \/ \E k \in 1 .. Len(conn) : ConnectionOpens(k) \/ ConnectionFails(k) \/ ConnectionBreaks(k)
    \/ Emit

\* The types of one call, one connection and one session of the agent.
LEMMA CallTyped ==
    ASSUME SdkTypeOK, NEW c \in Calls
    PROVE  /\ call[c] \in Call /\ call[c].pc \in CallPlaces
           /\ call[c].record \in Record \cup {None}
           /\ call[c].k \in Nat /\ call[c].resuming \in BOOLEAN
           /\ S(c) \in Sessions /\ Kind(c) \in CallKinds
           /\ store[S(c)] \in Record \cup {None}
<1>1. call[c] \in Call  BY DEF SdkTypeOK
<1>2. job[c] \in [kind : CallKinds, session : Sessions]
    BY SdkAssumption DEF SdkTypeOK
<1> QED BY <1>1, <1>2 DEF SdkTypeOK, Call, S, Kind

LEMMA ConnectionTyped ==
    ASSUME SdkTypeOK, NEW k \in 1 .. Len(conn)
    PROVE  /\ conn[k] \in Connection /\ conn \in Seq(Connection) /\ Len(conn) \in Nat
           /\ conn[k].state \in {"opening", "open", "failed", "orphaned", "broken", "closed"}
           /\ conn[k].result \in Nat /\ conn[k].bound \in [Sessions -> Nat]
           /\ conn[k].replay \in [Sessions -> BOOLEAN]
           /\ conn[k].pendingNew \in Seq(Sessions)
<1>1. conn \in Seq(Connection)  BY DEF SdkTypeOK
<1>2. conn[k] \in Connection  BY <1>1, ElementOfSeq
<1> QED BY <1>1, <1>2, LenProperties DEF Connection, Unmade

LEMMA CountsTyped ==
    ASSUME SdkTypeOK
    PROVE  /\ Len(conn) \in Nat /\ Len(out) \in Nat /\ Len(remote) \in Nat
           /\ live \in Nat /\ live <= Len(conn) /\ opening \in Nat /\ opening <= Len(conn)
           /\ MaxConnections \in Nat \ {0} /\ None \notin Sessions
           /\ \A i \in 1 .. Len(out) : out[i] \in Calls
<1>1. conn \in Seq(Connection) /\ out \in Seq(Calls)  BY DEF SdkTypeOK
<1>2. Len(conn) \in Nat /\ Len(out) \in Nat /\ Len(remote) \in Nat
    BY <1>1, LenProperties DEF SdkTypeOK
<1>3. \A i \in 1 .. Len(out) : out[i] \in Calls  BY <1>1, ElementOfSeq
<1> QED BY <1>2, <1>3, SdkAssumption DEF SdkTypeOK

\* Q without the s that is at its head.
LEMMA SpliceHead ==
    ASSUME NEW Q \in Seq(Sessions), Q # <<>>
    PROVE  Splice(Q, Head(Q)) = Tail(Q)
<1>1. Len(Q) \in Nat /\ Len(Q) >= 1 /\ Head(Q) = Q[1]  BY EmptySeq
<1> DEFINE First(i) == Q[i] = Head(Q) /\ \A j \in 1 .. i - 1 : Q[j] # Head(Q)
           m == CHOOSE i \in 1 .. Len(Q) : First(i)
<1>2. First(1) /\ 1 \in 1 .. Len(Q)  BY <1>1
<1>3. m \in 1 .. Len(Q) /\ First(m)  BY <1>2
<1>4. m = 1  BY <1>1, <1>3
<1>5. Splice(Q, Head(Q)) = SubSeq(Q, 1, 0) \o SubSeq(Q, 2, Len(Q))
    <2>1. \E i \in 1 .. Len(Q) : Q[i] = Head(Q)  BY <1>1
    <2>2. Splice(Q, Head(Q)) = SubSeq(Q, 1, m - 1) \o SubSeq(Q, m + 1, Len(Q))
        BY <2>1 DEF Splice
    <2> HIDE DEF m
    <2>3. m - 1 = 0 /\ m + 1 = 2  BY <1>4
    <2> QED BY <2>2, <2>3
<1>6. SubSeq(Q, 1, 0) = <<>>  BY SubSeqEmpty
<1>7. Tail(Q) = SubSeq(Q, 2, Len(Q))  BY TailIsSubSeq
<1>8. Tail(Q) \in Seq(Sessions)  BY HeadTailProperties
<1> QED BY <1>5, <1>6, <1>7, <1>8, ConcatEmptySeq

LEMMA SpliceEmpty ==
    ASSUME NEW s PROVE Splice(<<>>, s) = <<>>
BY DEF Splice

\* Where a call may be without a request that is not yet written.
LEMMA NotInOut ==
    ASSUME SdkTypeOK, Wired, Queued, NEW c \in Calls, ~At(c, "creating")
    PROVE  \A i \in 1 .. Len(out) : out[i] # c
BY DEF Queued, At

LEMMA NotDisposing ==
    ASSUME Wired, NEW c \in Calls, call[c].pc \notin {"idle", "settling", "closing", "done"}
    PROVE  Kind(c) # "dispose"
BY DEF Wired, CallWired

\* A call that only moves.
LEMMA Moved ==
    ASSUME SdkTypeOK, Wired, Queued, NEW c \in Calls, NEW x \in Call,
           call' = [call EXCEPT ![c] = x],
           UNCHANGED <<job, store, conn, live, opening, breaks, out, attributed, remote,
                       dispose, permission, alone>>,
           call[c].pc \notin {"idle", "writing", "binding", "settling", "closing", "done",
                             "failed"},
           \A i \in 1 .. Len(out) : out[i] # c,
           x.pc \in {"reading", "connecting", "joining", "collecting", "noting", "marking",
                     "done", "failed"},
           x.pc \in {"joining", "collecting"} => x.k \in 1 .. Len(conn),
           x.pc = "marking" => x.record # None
    PROVE  OnItsOwn(c, x)
<1>1. Kind(c) # "dispose"  BY NotDisposing
<1>2. permission' \in [Calls -> {"none", "pending", "settled"}]  BY DEF SdkTypeOK
<1>3. Continues(c, x)  BY DEF Continues, At, Active, Settled
<1> QED BY <1>1, <1>2, <1>3 DEF OnItsOwn

\* A rejection is such a move.
LEMMA RejectedMoves ==
    ASSUME SdkTypeOK, Wired, Queued, NEW c \in Calls, Rejected(c),
           UNCHANGED <<job, store, conn, live, opening, breaks, out, attributed, remote,
                       dispose, permission, alone>>,
           call[c].pc \notin {"idle", "writing", "binding", "settling", "closing", "done",
                             "failed"},
           \A i \in 1 .. Len(out) : out[i] # c
    PROVE  \E x \in Call : OnItsOwn(c, x)
<1> DEFINE p == IF Kind(c) = "destroy" THEN "noting" ELSE "failed"
           x == [call[c] EXCEPT !.pc = p]
<1>1. call[c] \in Call  BY CallTyped
<1>2. p \in CallPlaces /\ p \in {"noting", "failed"}  BY DEF CallPlaces
<1>3. call' = [call EXCEPT ![c] = x]  BY DEF Rejected, Goto
<1> HIDE DEF p
<1>4. x \in Call /\ x.pc = p  BY <1>1, <1>2 DEF Call
<1> HIDE DEF x
<1>5. OnItsOwn(c, x)  BY <1>2, <1>3, <1>4, Moved
<1> QED BY <1>4, <1>5

\* What a call does with its connection.
LEMMA Proceeded ==
    ASSUME SdkTypeOK, Wired, Queued, NEW c \in Calls, NEW k \in 1 .. Len(conn),
           call[c].pc \in {"connecting", "joining"}, Proceed(c, k),
           UNCHANGED <<job, store, live, opening, breaks, attributed, dispose, alone>>
    PROVE  (\E x \in Call : OnItsOwn(c, x)) \/ Asks(c, k) \/ Prompts(c, k)
<1>1. call[c] \in Call /\ call[c].resuming \in BOOLEAN /\ k \in Nat  BY CallTyped
<1>2. \A i \in 1 .. Len(out) : out[i] # c  BY NotInOut DEF At
<1>3. ~At(c, "idle") /\ ~At(c, "creating") /\ call[c].pc \notin {"settling", "closing", "done", "failed"}
    BY DEF At
<1>4. ASSUME NEW x \in Call, call' = [call EXCEPT ![c] = x],
             UNCHANGED <<conn, out, remote, permission>>,
             x.pc \in {"done", "reading", "noting", "failed"} \/ (x.pc = "collecting" /\ x.k = k)
      PROVE  OnItsOwn(c, x)
    BY <1>2, <1>3, <1>4, Moved DEF At
<1>5. CASE AskNew(c, k)  BY <1>5 DEF Asks, AskNew, Rest
<1>6. ASSUME UNCHANGED <<conn, out, remote, permission>>, Rejected(c)
      PROVE  \E x \in Call : OnItsOwn(c, x)
    BY <1>2, <1>3, <1>6, RejectedMoves DEF At
<1>7. ASSUME UNCHANGED <<conn, out, remote, permission>>, Goto(c, "done")
      PROVE  \E x \in Call : OnItsOwn(c, x)
    <2> DEFINE x == [call[c] EXCEPT !.pc = "done"]
    <2>1. x \in Call /\ x.pc = "done"  BY <1>1 DEF Call, CallPlaces
    <2>2. call' = [call EXCEPT ![c] = x]  BY <1>7 DEF Goto
    <2> HIDE DEF x
    <2> QED BY <1>4, <1>7, <2>1, <2>2
<1>8. ASSUME UNCHANGED <<conn, out, remote, permission>>, NEW r \in BOOLEAN,
             call' = [call EXCEPT ![c].pc = "reading", ![c].resuming = r]
      PROVE  \E x \in Call : OnItsOwn(c, x)
    <2> DEFINE x == [call[c] EXCEPT !.pc = "reading", !.resuming = r]
    <2>1. x \in Call /\ x.pc = "reading"  BY <1>1 DEF Call, CallPlaces
    <2>2. call' = [call EXCEPT ![c] = x]  BY <1>1, <1>8 DEF SdkTypeOK
    <2> HIDE DEF x
    <2> QED BY <1>4, <1>8, <2>1, <2>2
<1>9. ASSUME UNCHANGED <<conn, out, remote, permission>>, NEW p \in {"collecting", "noting"},
             call' = [call EXCEPT ![c].pc = p, ![c].k = k]
      PROVE  \E x \in Call : OnItsOwn(c, x)
    <2> DEFINE x == [call[c] EXCEPT !.pc = p, !.k = k]
    <2>1. x \in Call /\ x.pc = p /\ x.k = k  BY <1>1 DEF Call, CallPlaces
    <2>2. call' = [call EXCEPT ![c] = x]  BY <1>1, <1>9 DEF SdkTypeOK
    <2> HIDE DEF x
    <2> QED BY <1>4, <1>9, <2>1, <2>2
<1>10. CASE ~AskNew(c, k) /\ Kind(c) # "create" /\ call[c].resuming
    <2>1. UNCHANGED <<conn, out, remote, permission>>  BY <1>10 DEF Proceed
    <2>2. \/ Goto(c, "done")
          \/ call' = [call EXCEPT ![c].pc = "reading", ![c].resuming = FALSE]
          \/ call' = [call EXCEPT ![c].pc = "collecting", ![c].k = k]
        BY <1>10 DEF Proceed
    <2> QED BY <1>7, <1>8, <1>9, <2>1, <2>2
<1>11. CASE Kind(c) # "create" /\ ~call[c].resuming /\ ~HasBound(c, k)
    BY <1>8, <1>11 DEF Proceed
<1>12. CASE Kind(c) # "create" /\ ~call[c].resuming /\ HasBound(c, k)
    <2>1. SendMethod(c, k)  BY <1>12 DEF Proceed
    <2>2. CASE conn[k].state # "open"  BY <1>6, <2>1, <2>2 DEF SendMethod
    <2>3. CASE conn[k].state = "open" /\ Kind(c) = "prompt"
        BY <1>12, <2>1, <2>3 DEF SendMethod, HasBound, Prompts, Rest
    <2>4. CASE conn[k].state = "open" /\ Kind(c) # "prompt"
        BY <1>9, <2>1, <2>4 DEF SendMethod
    <2> QED BY <2>2, <2>3, <2>4
<1> QED BY <1>5, <1>10, <1>11, <1>12 DEF Proceed

LEMMA StartSteps ==
    ASSUME SdkTypeOK, Wired, Queued, NEW c \in Calls,
           StartCreate(c) \/ StartSend(c) \/ StartDestroy(c)
    PROVE  \E x \in Call : OnItsOwn(c, x)
<1> DEFINE p == IF Kind(c) = "create" THEN "connecting" ELSE "reading"
           r == IF Kind(c) \in {"prompt", "resume"} THEN Kind(c) = "resume" ELSE call[c].resuming
           x == [call[c] EXCEPT !.pc = p, !.resuming = r]
<1>1. call[c] \in Call /\ call[c].resuming \in BOOLEAN /\ call \in [Calls -> Call]
    BY CallTyped DEF SdkTypeOK
<1>2. At(c, "idle") /\ ~At(c, "creating") /\ Kind(c) # "dispose"
    BY DEF StartCreate, StartSend, StartDestroy, At
<1>3. x \in Call /\ x.pc = p /\ p \in {"connecting", "reading"}  BY <1>1 DEF Call, CallPlaces
<1>4. call' = [call EXCEPT ![c] = x]
    <2>1. CASE StartCreate(c)  BY <1>1, <2>1 DEF StartCreate, Goto, Call
    <2>2. CASE StartSend(c)  BY <1>1, <2>2 DEF StartSend, Call
    <2>3. CASE StartDestroy(c)  BY <1>1, <2>3 DEF StartDestroy, Goto, Call
    <2> QED BY <2>1, <2>2, <2>3
<1>5. permission' \in [Calls -> {"none", "pending", "settled"}]
    BY DEF StartCreate, StartSend, StartDestroy, Cancelled, SdkTypeOK
<1>6. Noticed(c) /\ UNCHANGED <<store, job, conn, live, opening, breaks, out, attributed,
                                remote, dispose>>
      /\ (Kind(c) = "create" => store[S(c)] = None)
    BY DEF StartCreate, StartSend, StartDestroy, connVars, wireVars
<1> HIDE DEF x, p
<1>7. Continues(c, x)  BY <1>2, <1>3, <1>6 DEF Continues
<1>8. \A i \in 1 .. Len(out) : out[i] # c  BY <1>2, NotInOut
<1> QED BY <1>2, <1>3, <1>4, <1>5, <1>6, <1>7, <1>8 DEF OnItsOwn

\* The permission of a prompt says nothing of the call itself.
LEMMA PermissionSteps ==
    ASSUME SdkTypeOK, NEW c \in Calls, PermissionRequested(c) \/ RespondPermission(c)
    PROVE  \E x \in Call : OnItsOwn(c, x)
<1>1. call[c] \in Call /\ call \in [Calls -> Call]  BY CallTyped DEF SdkTypeOK
<1>2. call' = [call EXCEPT ![c] = call[c]]
    BY <1>1 DEF PermissionRequested, RespondPermission, callVars
<1>3. permission' \in [Calls -> {"none", "pending", "settled"}]
    BY DEF PermissionRequested, RespondPermission, SdkTypeOK
<1>4. OnItsOwn(c, call[c])
    BY <1>1, <1>2, <1>3 DEF PermissionRequested, RespondPermission, OnItsOwn, Continues,
                            callVars, connVars, wireVars
<1> QED BY <1>1, <1>4

\* The steps that write the store.
LEMMA WriteSteps ==
    ASSUME SdkTypeOK, Wired, Queued, NEW c \in Calls, WriteRecord(c) \/ MarkDestroyed(c)
    PROVE  \E x \in Call : OnItsOwn(c, x)
<1> DEFINE p == IF At(c, "writing") THEN "binding" ELSE "done"
           x == [call[c] EXCEPT !.pc = p]
<1>1. call[c] \in Call /\ call \in [Calls -> Call]  BY CallTyped DEF SdkTypeOK
<1>2. call[c].pc \in {"writing", "marking"}  BY DEF WriteRecord, MarkDestroyed, At
<1>3. x \in Call /\ x.pc = p  BY <1>1 DEF Call, CallPlaces
<1>4. call' = [call EXCEPT ![c] = x]  BY DEF WriteRecord, MarkDestroyed, Goto, At
<1>5. Kind(c) # "dispose"  BY <1>2, NotDisposing
<1>6. \A i \in 1 .. Len(out) : out[i] # c  BY <1>2, NotInOut DEF At
<1>7. permission' \in [Calls -> {"none", "pending", "settled"}]
    BY DEF WriteRecord, MarkDestroyed, SdkTypeOK
<1>8. Continues(c, x)
    <2>1. CASE WriteRecord(c)  BY <2>1 DEF WriteRecord, Continues
    <2>2. CASE MarkDestroyed(c)
        <3>1. x.pc = "done"  BY <1>3, <2>2 DEF MarkDestroyed, At
        <3> QED BY <2>2, <3>1 DEF MarkDestroyed, Continues
    <2> QED BY <2>1, <2>2
<1> HIDE DEF x
<1>9. OnItsOwn(c, x)
    BY <1>3, <1>4, <1>5, <1>6, <1>7, <1>8 DEF OnItsOwn, WriteRecord, MarkDestroyed, connVars,
                                              wireVars
<1> QED BY <1>3, <1>9

LEMMA ReadSteps ==
    ASSUME SdkTypeOK, Wired, Queued, NEW c \in Calls, Read(c) \/ ReadToDestroy(c)
    PROVE  \E x \in Call : OnItsOwn(c, x)
<1>1. call[c] \in Call /\ call \in [Calls -> Call] /\ store[S(c)] \in Record \cup {None}
    BY CallTyped DEF SdkTypeOK
<1>2. call[c].pc \in {"reading", "noting"}  BY DEF Read, ReadToDestroy, At
<1>3. \A i \in 1 .. Len(out) : out[i] # c  BY <1>2, NotInOut DEF At
<1>4. UNCHANGED <<job, store, conn, live, opening, breaks, out, attributed, remote, dispose,
                  permission, alone>>
    BY DEF Read, ReadToDestroy, connVars, wireVars
<1>5. ASSUME NEW x \in Call, call' = [call EXCEPT ![c] = x],
             x.pc \in {"connecting", "failed"} \/ (x.pc = "marking" /\ x.record # None)
      PROVE  OnItsOwn(c, x)
    BY <1>2, <1>3, <1>4, <1>5, Moved
<1>6. CASE Rejected(c)  BY <1>2, <1>3, <1>4, <1>6, RejectedMoves
<1>7. CASE Read(c) /\ store[S(c)] # None
    <2> DEFINE x == [call[c] EXCEPT !.pc = "connecting", !.record = store[S(c)]]
    <2>1. x \in Call /\ x.pc = "connecting"  BY <1>1 DEF Call, CallPlaces
    <2>2. call' = [call EXCEPT ![c] = x]  BY <1>1, <1>7 DEF Read
    <2> HIDE DEF x
    <2> QED BY <1>5, <2>1, <2>2
<1>8. CASE ReadToDestroy(c) /\ store[S(c)] = None
    <2> DEFINE x == [call[c] EXCEPT !.pc = "failed"]
    <2>1. x \in Call /\ x.pc = "failed"  BY <1>1 DEF Call, CallPlaces
    <2>2. call' = [call EXCEPT ![c] = x]  BY <1>8 DEF ReadToDestroy, Goto
    <2> HIDE DEF x
    <2> QED BY <1>5, <2>1, <2>2
<1>9. CASE ReadToDestroy(c) /\ store[S(c)] # None
    <2> DEFINE rec == [store[S(c)] EXCEPT !.destroyed = TRUE]
               x == [call[c] EXCEPT !.pc = "marking", !.record = rec]
    <2>1. rec \in Record  BY <1>1, <1>9 DEF Record
    <2>2. rec # None  BY <2>1, SdkAssumption
    <2>3. call' = [call EXCEPT ![c] = x]  BY <1>1, <1>9 DEF ReadToDestroy
    <2> HIDE DEF rec
    <2>4. x \in Call /\ x.pc = "marking" /\ x.record # None
        BY <1>1, <2>1, <2>2 DEF Call, CallPlaces
    <2> HIDE DEF x
    <2> QED BY <1>5, <2>3, <2>4
<1> QED BY <1>6, <1>7, <1>8, <1>9 DEF Read

\* The ends of a prompt, and of a request on a connection that is gone.
LEMMA EndSteps ==
    ASSUME SdkTypeOK, Wired, Queued, NEW c \in Calls, PromptAnswered(c) \/ ConnectionLost(c)
    PROVE  \E x \in Call : OnItsOwn(c, x)
<1>1. call[c] \in Call /\ call \in [Calls -> Call]  BY CallTyped DEF SdkTypeOK
<1>2. call[c].pc \in {"creating", "sent"}  BY DEF PromptAnswered, ConnectionLost, At
<1>3. \A i \in 1 .. Len(out) : out[i] # c
    BY NotInOut DEF PromptAnswered, ConnectionLost, At
<1>4. UNCHANGED <<job, store, conn, live, opening, breaks, out, attributed, remote, dispose,
                  permission, alone>>
    BY DEF PromptAnswered, ConnectionLost, connVars, wireVars
<1>5. CASE ConnectionLost(c)
    BY <1>2, <1>3, <1>4, <1>5, RejectedMoves DEF ConnectionLost
<1>6. CASE PromptAnswered(c)
    <2> DEFINE x == [call[c] EXCEPT !.pc = "done"]
    <2>1. x \in Call /\ x.pc = "done"  BY <1>1 DEF Call, CallPlaces
    <2>2. call' = [call EXCEPT ![c] = x]  BY <1>6 DEF PromptAnswered, Goto
    <2> HIDE DEF x
    <2>3. OnItsOwn(c, x)  BY <1>2, <1>3, <1>4, <2>1, <2>2, Moved
    <2> QED BY <2>1, <2>3
<1> QED BY <1>5, <1>6

\* When every request is written, no session waits for its envelope.
LEMMA NobodyInLine ==
    ASSUME SdkTypeOK, Queued, out = <<>>, NEW k \in 1 .. Len(conn)
    PROVE  conn[k].pendingNew = <<>>
<1>1. PICK f : InLine(f, k)  BY DEF Queued
<1>2. conn[k].pendingNew \in Seq(Sessions) /\ Len(conn[k].pendingNew) \in Nat
    BY ConnectionTyped, LenProperties
<1>3. Len(out) = 0  BY EmptySeq
<1>4. ASSUME Len(conn[k].pendingNew) # 0 PROVE FALSE
    <2>1. 1 \in 1 .. Len(conn[k].pendingNew)  BY <1>2, <1>4
    <2>2. f[1] \in 1 .. 0  BY <1>1, <1>3, <2>1 DEF InLine
    <2> QED BY <2>2
<1> QED BY <1>2, <1>4, EmptySeq

LEMMA RefusedSteps ==
    ASSUME SdkTypeOK, Wired, Queued, NEW c \in Calls, NewSessionRefused(c)
    PROVE  \E x \in Call : OnItsOwn(c, x)
<1> DEFINE k == call[c].k
<1>1. At(c, "creating") /\ out = <<>> /\ Rejected(c)  BY DEF NewSessionRefused
<1>2. k \in 1 .. Len(conn)  BY <1>1 DEF Wired, CallWired, At
<1>3. conn' = conn
    <2>1. conn[k].pendingNew = <<>>  BY <1>1, <1>2, NobodyInLine
    <2>2. conn' = [conn EXCEPT ![k].pendingNew = Splice(conn[k].pendingNew, S(c))]
        BY DEF NewSessionRefused
    <2>3. conn' = [conn EXCEPT ![k].pendingNew = <<>>]  BY <2>1, <2>2, SpliceEmpty
    <2>4. conn[k] \in Connection /\ conn \in Seq(Connection)  BY <1>2, ConnectionTyped
    <2>5. [conn[k] EXCEPT !.pendingNew = <<>>] = conn[k]  BY <2>1, <2>4 DEF Connection
    <2>6. conn \in [1 .. Len(conn) -> Connection]  BY <2>4, LenProperties
    <2>7. conn' = [conn EXCEPT ![k] = conn[k]]  BY <2>3, <2>5
    <2> QED BY <1>2, <2>6, <2>7
<1>4. \A i \in 1 .. Len(out) : out[i] # c  BY <1>1, EmptySeq
<1> QED BY <1>1, <1>3, <1>4, RejectedMoves DEF NewSessionRefused, wireVars, At

LEMMA GetLiveSteps ==
    ASSUME SdkTypeOK, Wired, Queued, NEW c \in Calls, GetLiveConnection(c)
    PROVE  \/ \E x \in Call : OnItsOwn(c, x)
           \/ Connects(c)
           \/ \E k \in 1 .. Len(conn) : Asks(c, k) \/ Prompts(c, k)
<1>1. At(c, "connecting") /\ call[c].pc \in {"connecting", "joining"}
      /\ UNCHANGED <<job, store, live, breaks, attributed, dispose, alone>>
    BY DEF GetLiveConnection, At
<1>2. \A i \in 1 .. Len(out) : out[i] # c  BY <1>1, NotInOut DEF At
<1>3. CASE live # 0
    <2>1. live \in 1 .. Len(conn)  BY <1>3, CountsTyped
    <2>2. Proceed(c, live) /\ UNCHANGED opening  BY <1>3 DEF GetLiveConnection
    <2> QED BY <1>1, <2>1, <2>2, Proceeded
<1>4. CASE live = 0 /\ opening # 0
    <2> DEFINE x == [call[c] EXCEPT !.pc = "joining", !.k = opening]
    <2>1. opening \in 1 .. Len(conn) /\ opening \in Nat  BY <1>4, CountsTyped
    <2>2. call[c] \in Call /\ call \in [Calls -> Call]  BY CallTyped DEF SdkTypeOK
    <2>3. x \in Call /\ x.pc = "joining" /\ x.k \in 1 .. Len(conn)
        BY <2>1, <2>2 DEF Call, CallPlaces
    <2>4. call' = [call EXCEPT ![c] = x]  BY <1>4, <2>2 DEF GetLiveConnection
    <2>5. UNCHANGED <<conn, opening, out, remote, permission>>  BY <1>4 DEF GetLiveConnection
    <2> HIDE DEF x
    <2>6. OnItsOwn(c, x)  BY <1>1, <1>2, <2>3, <2>4, <2>5, Moved
    <2> QED BY <2>3, <2>6
<1>5. CASE live = 0 /\ opening = 0 /\ Len(conn) = MaxConnections
    BY <1>1, <1>2, <1>5, RejectedMoves DEF GetLiveConnection
<1>6. CASE live = 0 /\ opening = 0 /\ Len(conn) # MaxConnections
    BY <1>6 DEF GetLiveConnection, Connects
<1> QED BY <1>3, <1>4, <1>5, <1>6

LEMMA JoinedSteps ==
    ASSUME SdkTypeOK, Wired, Queued, NEW c \in Calls, Joined(c)
    PROVE  \/ \E x \in Call : OnItsOwn(c, x)
           \/ \E k \in 1 .. Len(conn) : Asks(c, k) \/ Prompts(c, k)
<1> DEFINE j == call[c].k
<1>1. At(c, "joining") /\ call[c].pc \in {"connecting", "joining"} /\ conn[j].state # "opening"
      /\ UNCHANGED <<job, store, live, opening, breaks, attributed, dispose, alone>>
    BY DEF Joined, At
<1>2. \A i \in 1 .. Len(out) : out[i] # c  BY <1>1, NotInOut DEF At
<1>3. j \in 1 .. Len(conn)  BY <1>1 DEF Wired, CallWired, At
<1>4. CASE conn[j].state \in Unmade
    BY <1>1, <1>2, <1>4, RejectedMoves DEF Joined
<1>5. CASE conn[j].state \notin Unmade
    <2>1. conn[j].result \in 1 .. Len(conn)  BY <1>1, <1>3, <1>5 DEF Wired, ConnectionWired, Unmade
    <2>2. Proceed(c, conn[j].result)  BY <1>5 DEF Joined
    <2> QED BY <1>1, <2>1, <2>2, Proceeded
<1> QED BY <1>4, <1>5

LEMMA SdkStepCases ==
    ASSUME SdkTypeOK, Wired, Queued, SdkNext
    PROVE  SdkStep
<1>1. ASSUME NEW c \in Calls, StartCreate(c) \/ StartSend(c) \/ StartDestroy(c) PROVE SdkStep
    BY <1>1, StartSteps DEF SdkStep
<1>2. ASSUME NEW c \in Calls, PermissionRequested(c) \/ RespondPermission(c) PROVE SdkStep
    BY <1>2, PermissionSteps DEF SdkStep
<1>3. ASSUME NEW c \in Calls, WriteRecord(c) \/ MarkDestroyed(c) PROVE SdkStep
    BY <1>3, WriteSteps DEF SdkStep
<1>4. ASSUME NEW c \in Calls, Read(c) \/ ReadToDestroy(c) PROVE SdkStep
    BY <1>4, ReadSteps DEF SdkStep
<1>5. ASSUME NEW c \in Calls, PromptAnswered(c) \/ ConnectionLost(c) PROVE SdkStep
    BY <1>5, EndSteps DEF SdkStep
<1>6. ASSUME NEW c \in Calls, NewSessionRefused(c) PROVE SdkStep
    BY <1>6, RefusedSteps DEF SdkStep
<1>7. ASSUME NEW c \in Calls, GetLiveConnection(c) PROVE SdkStep
    BY <1>7, GetLiveSteps DEF SdkStep
<1>8. ASSUME NEW c \in Calls, Joined(c) PROVE SdkStep
    BY <1>8, JoinedSteps DEF SdkStep
<1>9. ASSUME NEW c \in Calls, CollectReplay(c) PROVE SdkStep
    <2>1. call[c].pc = "collecting" /\ call[c].k \in 1 .. Len(conn)
        BY <1>9 DEF CollectReplay, Wired, CallWired, At
    <2>2. Asks(c, call[c].k)  BY <1>9, <2>1 DEF CollectReplay, Asks, AskNew, Rest
    <2> QED BY <2>1, <2>2 DEF SdkStep
<1>10. ASSUME NEW c \in Calls,
              StartDispose(c) \/ NewSessionAnswered(c) \/ Bind(c) \/ PendingSettled(c)
              \/ CloseConnections(c)
       PROVE SdkStep
    BY <1>10 DEF SdkStep
<1>11. ASSUME NEW k \in 1 .. Len(conn),
              ConnectionOpens(k) \/ ConnectionFails(k) \/ ConnectionBreaks(k)
       PROVE SdkStep
    BY <1>11 DEF SdkStep
<1>12. CASE Emit  BY <1>12 DEF SdkStep
<1> QED BY <1>1, <1>2, <1>3, <1>4, <1>5, <1>6, <1>7, <1>8, <1>9, <1>10, <1>11, <1>12
        DEF SdkNext, Runs, Answers

-----------------------------------------------------------------------------
(* What the steps do to a connection.                                       *)

\* Connection k becomes x, and nothing else changes of the connections.
Becomes(k, x) ==
    /\ conn' \in Seq(Connection) /\ Len(conn') = Len(conn)
    /\ x \in Connection /\ conn'[k] = x
    /\ \A j \in 1 .. Len(conn) : j # k => conn'[j] = conn[j]

LEMMA Becoming ==
    ASSUME SdkTypeOK, NEW k \in 1 .. Len(conn), NEW x \in Connection,
           conn' = [conn EXCEPT ![k] = x]
    PROVE  Becomes(k, x)
<1>1. conn \in Seq(Connection)  BY DEF SdkTypeOK
<1> QED BY <1>1, ExceptSeq DEF Becomes

LEMMA AsksBecomes ==
    ASSUME SdkTypeOK, NEW c \in Calls, NEW k \in 1 .. Len(conn), AskNew(c, k)
    PROVE  Becomes(k, [conn[k] EXCEPT !.pendingNew = Append(conn[k].pendingNew, S(c))])
<1>1. conn[k] \in Connection /\ conn[k].pendingNew \in Seq(Sessions) /\ S(c) \in Sessions
    BY ConnectionTyped, CallTyped
<1>2. Append(conn[k].pendingNew, S(c)) \in Seq(Sessions)  BY <1>1, AppendProperties
<1>3. [conn[k] EXCEPT !.pendingNew = Append(conn[k].pendingNew, S(c))] \in Connection
    BY <1>1, <1>2 DEF Connection
<1>4. conn' = [conn EXCEPT ![k] = [conn[k] EXCEPT !.pendingNew =
                                      Append(conn[k].pendingNew, S(c))]]
    BY DEF AskNew
<1> QED BY <1>3, <1>4, Becoming

LEMMA PromptsBecomes ==
    ASSUME SdkTypeOK, NEW c \in Calls, NEW k \in 1 .. Len(conn), Prompts(c, k)
    PROVE  Becomes(k, [conn[k] EXCEPT !.replay = [conn[k].replay EXCEPT ![S(c)] = FALSE]])
<1>1. conn[k] \in Connection /\ conn[k].replay \in [Sessions -> BOOLEAN] /\ S(c) \in Sessions
    BY ConnectionTyped, CallTyped
<1>2. [conn[k] EXCEPT !.replay = [conn[k].replay EXCEPT ![S(c)] = FALSE]] \in Connection
    BY <1>1 DEF Connection
<1>3. conn' = [conn EXCEPT ![k] = [conn[k] EXCEPT !.replay =
                                      [conn[k].replay EXCEPT ![S(c)] = FALSE]]]
    BY DEF Prompts
<1> QED BY <1>2, <1>3, Becoming

LEMMA StateBecomes ==
    ASSUME SdkTypeOK, NEW k \in 1 .. Len(conn), NEW s \in {"failed", "orphaned", "broken"},
           conn' = [conn EXCEPT ![k].state = s]
    PROVE  Becomes(k, [conn[k] EXCEPT !.state = s])
<1>1. [conn[k] EXCEPT !.state = s] \in Connection  BY ConnectionTyped DEF Connection, Unmade
<1> QED BY <1>1, Becoming

LEMMA OpensBecomes ==
    ASSUME SdkTypeOK, NEW k \in 1 .. Len(conn), ConnectionOpens(k)
    PROVE  /\ live # 0 => Becomes(k, [conn[k] EXCEPT !.state = "closed", !.result = live])
           /\ live = 0 => Becomes(k, [conn[k] EXCEPT !.state = "open", !.result = k])
<1>1. conn[k] \in Connection /\ live \in Nat /\ k \in Nat /\ conn \in Seq(Connection)
    BY ConnectionTyped, CountsTyped
<1>2. [conn[k] EXCEPT !.state = "closed", !.result = live] \in Connection  BY <1>1 DEF Connection
<1>3. [conn[k] EXCEPT !.state = "open", !.result = k] \in Connection  BY <1>1 DEF Connection
<1>4. conn \in [1 .. Len(conn) -> Connection]  BY <1>1, LenProperties
<1>5. live # 0 => conn' = [conn EXCEPT ![k] =
                              [conn[k] EXCEPT !.state = "closed", !.result = live]]
    BY <1>4 DEF ConnectionOpens
<1>6. live = 0 => conn' = [conn EXCEPT ![k] = [conn[k] EXCEPT !.state = "open", !.result = k]]
    BY <1>4 DEF ConnectionOpens
<1> QED BY <1>2, <1>3, <1>5, <1>6, Becoming

LEMMA ExceptTwice ==
    ASSUME NEW X, NEW Y, NEW F \in [X -> Y], NEW x \in X, NEW y \in Y
    PROVE  /\ [F EXCEPT ![x] = y] \in [X -> Y]
           /\ [[F EXCEPT ![x] = y] EXCEPT ![x] = y] = [F EXCEPT ![x] = y]
OBVIOUS

LEMMA AnsweredBecomes ==
    ASSUME SdkTypeOK, Wired, Queued, NEW c \in Calls, NewSessionAnswered(c)
    PROVE  /\ call[c].k \in 1 .. Len(conn)
           /\ Becomes(call[c].k,
                      [conn[call[c].k] EXCEPT !.bound =
                          [conn[call[c].k].bound EXCEPT ![S(c)] = Len(remote) + 1]])
<1> DEFINE k == call[c].k
           B == conn[k].bound
           new == [B EXCEPT ![S(c)] = Len(remote) + 1]
<1>1. k \in 1 .. Len(conn)  BY DEF NewSessionAnswered, Wired, CallWired, At
<1>2. conn[k] \in Connection /\ B \in [Sessions -> Nat] /\ S(c) \in Sessions
      /\ Len(remote) \in Nat
    BY <1>1, ConnectionTyped, CallTyped, CountsTyped
<1>3. attributed[c] = S(c) /\ attributed[c] # None
    BY <1>2, SdkAssumption DEF Queued, LoggedUnderItsSession
<1>4. conn' = [conn EXCEPT ![k].bound = [new EXCEPT ![S(c)] = Len(remote) + 1]]
    BY <1>3 DEF NewSessionAnswered
<1>0. Len(remote) + 1 \in Nat  BY <1>2
<1>5. new \in [Sessions -> Nat] /\ [new EXCEPT ![S(c)] = Len(remote) + 1] = new
    BY <1>0, <1>2, ExceptTwice
<1>6. new \in [Sessions -> Nat]  BY <1>5
<1> HIDE DEF new
<1>7. [conn[k] EXCEPT !.bound = new] \in Connection  BY <1>2, <1>6 DEF Connection
<1>8. conn' = [conn EXCEPT ![k] = [conn[k] EXCEPT !.bound = new]]  BY <1>4, <1>5
<1>9. Becomes(k, [conn[k] EXCEPT !.bound = new])  BY <1>1, <1>7, <1>8, Becoming
<1> QED BY <1>1, <1>9 DEF new

LEMMA BindBecomes ==
    ASSUME SdkTypeOK, Wired, NEW c \in Calls, Bind(c)
    PROVE  /\ call[c].k \in 1 .. Len(conn) /\ Made(c)
           /\ LET k == call[c].k IN
              Becomes(k, [conn[k] EXCEPT
                  !.bound = [conn[k].bound EXCEPT ![S(c)] = call[c].record.agentSessionId],
                  !.replay = IF Kind(c) = "create" THEN conn[k].replay
                             ELSE [conn[k].replay EXCEPT ![S(c)] = TRUE]])
<1> DEFINE k == call[c].k
           a == call[c].record.agentSessionId
           B == [conn[k].bound EXCEPT ![S(c)] = a]
           R == IF Kind(c) = "create" THEN conn[k].replay ELSE [conn[k].replay EXCEPT ![S(c)] = TRUE]
           x == [conn[k] EXCEPT !.bound = B, !.replay = R]
<1>1. k \in 1 .. Len(conn) /\ Made(c)  BY DEF Bind, Wired, CallWired, At
<1>2. conn[k] \in Connection /\ conn[k].bound \in [Sessions -> Nat] /\ S(c) \in Sessions
      /\ conn[k].replay \in [Sessions -> BOOLEAN] /\ conn \in Seq(Connection)
    BY <1>1, ConnectionTyped, CallTyped
<1>3. a \in Nat  BY <1>1, CountsTyped DEF Made
<1>4. B \in [Sessions -> Nat] /\ R \in [Sessions -> BOOLEAN]  BY <1>2, <1>3
<1>5. x \in Connection  BY <1>2, <1>4 DEF Connection
<1>6. conn \in [1 .. Len(conn) -> Connection]  BY <1>2, LenProperties
<1>7. conn' = [conn EXCEPT ![k] = x]
    <2>1. CASE Kind(c) = "create"
        <3>1. conn' = [conn EXCEPT ![k].bound[S(c)] = a,
                                   ![k].replay[S(c)] = conn[k].replay[S(c)]]
            BY <1>1, <1>2, <1>6, <2>1 DEF Bind, Connection
        <3>2. [conn[k].replay EXCEPT ![S(c)] = conn[k].replay[S(c)]] = conn[k].replay  BY <1>2
        <3> QED BY <1>1, <1>2, <1>6, <2>1, <3>1, <3>2 DEF Connection
    <2>2. CASE Kind(c) # "create"
        <3>1. conn' = [conn EXCEPT ![k].bound[S(c)] = a, ![k].replay[S(c)] = TRUE]
            BY <1>1, <1>2, <1>6, <2>2 DEF Bind, Connection
        <3> QED BY <1>1, <1>2, <1>6, <2>2, <3>1 DEF Connection
    <2> QED BY <2>1, <2>2
<1> HIDE DEF x
<1>8. Becomes(k, x)  BY <1>1, <1>5, <1>7, Becoming
<1> QED BY <1>1, <1>8 DEF x

\* The first request of all is the first of its connection.
LEMMA FirstInLine ==
    ASSUME SdkTypeOK, NEW k \in 1 .. Len(conn), Len(out) >= 1, call[out[1]].k = k,
           NEW f, InLine(f, k)
    PROVE  1 \in 1 .. Len(conn[k].pendingNew) /\ f[1] = 1
<1> DEFINE L == Len(conn[k].pendingNew)
<1>1. L \in Nat /\ Len(out) \in Nat
    BY ConnectionTyped, CountsTyped, LenProperties
<1>2. /\ f \in [1 .. L -> 1 .. Len(out)]
      /\ \A i, j \in 1 .. L : i < j => f[i] < f[j]
      /\ \A n \in 1 .. Len(out) : call[out[n]].k = k => \E i \in 1 .. L : f[i] = n
    BY DEF InLine
<1> HIDE DEF L
<1>3. 1 \in 1 .. Len(out)  BY <1>1
<1>4. PICK i \in 1 .. L : f[i] = 1  BY <1>2, <1>3
<1>5. 1 \in 1 .. L /\ f[1] \in 1 .. Len(out)  BY <1>1, <1>2, <1>4
<1>6. i = 1
    <2>1. SUFFICES ASSUME i # 1 PROVE FALSE  OBVIOUS
    <2>2. f[1] < f[i]  BY <1>1, <1>2, <1>4, <1>5, <2>1
    <2> QED BY <1>1, <1>4, <1>5, <2>2
<1> QED BY <1>4, <1>5, <1>6 DEF L

\* The session whose request is written next is at the head of its line.
LEMMA HeadOfLine ==
    ASSUME SdkTypeOK, Wired, Queued, out # <<>>
    PROVE  LET c == Head(out)
               k == call[c].k
               Q == conn[k].pendingNew
           IN  /\ c \in Calls /\ c = out[1] /\ At(c, "creating") /\ k \in 1 .. Len(conn)
               /\ Q # <<>> /\ Head(Q) = S(c)
               /\ \A f : InLine(f, k) => f[1] = 1
<1> DEFINE c == Head(out)
           k == call[c].k
           Q == conn[k].pendingNew
<1>1. Len(out) \in Nat /\ Len(out) >= 1 /\ c = out[1] /\ c \in Calls
    BY CountsTyped, EmptySeq DEF SdkTypeOK
<1>2. At(c, "creating")  BY <1>1 DEF Queued
<1>3. k \in 1 .. Len(conn)  BY <1>1, <1>2 DEF Wired, CallWired, At
<1>4. Q \in Seq(Sessions) /\ Len(Q) \in Nat  BY <1>3, ConnectionTyped, LenProperties
<1>5. \A f : InLine(f, k) => 1 \in 1 .. Len(Q) /\ f[1] = 1
    <2> HIDE DEF c, k, Q
    <2>1. call[out[1]].k = k /\ Q = conn[k].pendingNew  BY <1>1 DEF c, k, Q
    <2> QED BY <1>3, <2>1, FirstInLine, <1>1
<1>6. PICK f : InLine(f, k)  BY <1>3 DEF Queued
<1>7. 1 \in 1 .. Len(Q) /\ f[1] = 1  BY <1>5, <1>6
<1>8. Q # <<>> /\ Head(Q) = Q[1]  BY <1>4, <1>7, EmptySeq
<1>9. Q[1] = S(c)  BY <1>1, <1>6, <1>7 DEF InLine
<1> QED BY <1>1, <1>2, <1>3, <1>5, <1>8, <1>9

\* Written or rejected, a request takes its session from the line.
LEMMA EmitBecomes ==
    ASSUME SdkTypeOK, Wired, Queued, Emit
    PROVE  LET c == Head(out)
               k == call[c].k
           IN  /\ out # <<>> /\ c \in Calls /\ c = out[1] /\ At(c, "creating") /\ k \in 1 .. Len(conn)
               /\ Becomes(k, [conn[k] EXCEPT !.pendingNew = Tail(conn[k].pendingNew)])
               /\ attributed' = attributed /\ out' = Tail(out)
               /\ UNCHANGED call \/ Rejected(c)
<1> DEFINE c == Head(out)
           k == call[c].k
           Q == conn[k].pendingNew
<1>1. out # <<>> /\ out' = Tail(out)  BY DEF Emit
<1>2. c \in Calls /\ c = out[1] /\ At(c, "creating") /\ k \in 1 .. Len(conn) /\ Q # <<>> /\ Head(Q) = S(c)
    BY <1>1, HeadOfLine
<1>3. conn[k] \in Connection /\ Q \in Seq(Sessions)  BY <1>2, ConnectionTyped
<1>4. Tail(Q) \in Seq(Sessions)  BY <1>2, <1>3, HeadTailProperties
<1>5. [conn[k] EXCEPT !.pendingNew = Tail(Q)] \in Connection  BY <1>3, <1>4 DEF Connection
<1>6. Splice(Q, S(c)) = Tail(Q)  BY <1>2, <1>3, SpliceHead
<1>7. conn' = [conn EXCEPT ![k].pendingNew = Tail(Q)]  BY <1>2, <1>6 DEF Emit
<1>8. attributed' = attributed
    <2>1. attributed[c] = S(c) /\ attributed \in [Calls -> Sessions \cup {None}]
        BY <1>2 DEF Queued, LoggedUnderItsSession, SdkTypeOK
    <2>2. attributed' = [attributed EXCEPT ![c] = S(c)] \/ attributed' = attributed
        BY <1>2 DEF Emit
    <2> QED BY <1>2, <2>1, <2>2
<1>9. UNCHANGED call \/ Rejected(c)  BY DEF Emit
<1> QED BY <1>1, <1>2, <1>5, <1>7, <1>8, <1>9, Becoming

LEMMA CloseBecomes ==
    ASSUME SdkTypeOK, NEW c \in Calls, CloseConnections(c)
    PROVE  /\ conn' \in Seq(Connection) /\ Len(conn') = Len(conn)
           /\ \A k \in 1 .. Len(conn) :
                 conn'[k] = IF k \in dispose[c].taken /\ conn[k].state = "open"
                            THEN [conn[k] EXCEPT !.state = "closed"] ELSE conn[k]
<1> DEFINE e(k) == IF k \in dispose[c].taken /\ conn[k].state = "open"
                   THEN [conn[k] EXCEPT !.state = "closed"] ELSE conn[k]
<1>1. ASSUME NEW k \in 1 .. Len(conn) PROVE e(k) \in Connection
    BY ConnectionTyped DEF Connection
<1>2. conn' = [k \in 1 .. Len(conn) |-> e(k)]  BY DEF CloseConnections
<1>3. Len(conn) \in Nat  BY CountsTyped
<1> HIDE DEF e
<1>4. conn' \in [1 .. Len(conn) -> Connection]  BY <1>1, <1>2
<1>5. conn' \in Seq(Connection)  BY <1>3, <1>4, SeqDef
<1>6. DOMAIN conn' = 1 .. Len(conn') /\ Len(conn') \in Nat  BY <1>5, LenProperties
<1>7. Len(conn') = Len(conn)  BY <1>2, <1>3, <1>6
<1>8. \A k \in 1 .. Len(conn) : conn'[k] = e(k)  BY <1>2
<1> QED BY <1>5, <1>7, <1>8 DEF e

LEMMA ConnectsBecomes ==
    ASSUME SdkTypeOK, NEW c \in Calls, Connects(c)
    PROVE  LET n == Len(conn) + 1 IN
           /\ conn' \in Seq(Connection) /\ Len(conn') = n
           /\ \A k \in 1 .. Len(conn) : conn'[k] = conn[k]
           /\ conn'[n].state = "opening" /\ conn'[n].pendingNew = <<>>
           /\ \A s \in Sessions : conn'[n].bound[s] = 0 /\ ~conn'[n].replay[s]
<1> DEFINE x == [state |-> "opening", result |-> 0, bound |-> [s \in Sessions |-> 0],
                 replay |-> [s \in Sessions |-> FALSE], pendingNew |-> <<>>]
<1>1. x \in Connection
    <2>1. <<>> \in Seq(Sessions)  BY EmptySeq
    <2> QED BY <2>1 DEF Connection
<1>2. conn' = Append(conn, x) /\ conn \in Seq(Connection)  BY DEF Connects, SdkTypeOK
<1>3. x.state = "opening" /\ x.pendingNew = <<>>
      /\ \A s \in Sessions : x.bound[s] = 0 /\ ~x.replay[s]
    OBVIOUS
<1> HIDE DEF x
<1> QED BY <1>1, <1>2, <1>3, AppendProperties

-----------------------------------------------------------------------------
(* Types.                                                                   *)

Given == [local : Sessions, k : Nat, restored : BOOLEAN, prompts : Seq(BOOLEAN)]

LEMMA RemoteTyped ==
    ASSUME SdkTypeOK, NEW a \in 1 .. Len(remote)
    PROVE  /\ remote \in Seq(Given) /\ remote[a] \in Given
           /\ remote[a].local \in Sessions /\ remote[a].k \in Nat
           /\ remote[a].restored \in BOOLEAN /\ remote[a].prompts \in Seq(BOOLEAN)
           /\ Len(remote[a].prompts) \in Nat
<1>1. remote \in Seq(Given)  BY DEF SdkTypeOK, Given
<1>2. remote[a] \in Given  BY <1>1, ElementOfSeq
<1>3. remote[a].prompts \in Seq(BOOLEAN)  BY <1>2 DEF Given
<1> QED BY <1>1, <1>2, <1>3, LenProperties DEF Given

\* What a prompt, and a new session, do to the sessions of the agent.
LEMMA PromptsRemote ==
    ASSUME SdkTypeOK, Wired, NEW c \in Calls, NEW k \in 1 .. Len(conn), Prompts(c, k)
    PROVE  LET a == conn[k].bound[S(c)]
               f == conn[k].replay[S(c)]
           IN  /\ a \in 1 .. Len(remote) /\ f \in BOOLEAN
               /\ remote[a].local = S(c) /\ remote[a].k = k
               /\ remote' \in Seq(Given) /\ Len(remote') = Len(remote)
               /\ remote'[a] = [remote[a] EXCEPT !.prompts = Append(remote[a].prompts, f)]
               /\ \A i \in 1 .. Len(remote) : i # a => remote'[i] = remote[i]
<1> DEFINE a == conn[k].bound[S(c)]
           f == conn[k].replay[S(c)]
           x == [remote[a] EXCEPT !.prompts = Append(remote[a].prompts, f)]
<1>1. S(c) \in Sessions /\ f \in BOOLEAN  BY CallTyped, ConnectionTyped
<1>2. a \in 1 .. Len(remote) /\ remote[a].local = S(c) /\ remote[a].k = k
    BY <1>1 DEF Prompts, Wired, ConnectionWired
<1>3. remote \in Seq(Given) /\ remote[a] \in Given /\ remote[a].prompts \in Seq(BOOLEAN)
    BY <1>2, RemoteTyped
<1>4. Append(remote[a].prompts, f) \in Seq(BOOLEAN)  BY <1>1, <1>3, AppendProperties
<1>5. x \in Given  BY <1>3, <1>4 DEF Given
<1>6. remote' = [remote EXCEPT ![a] = x]  BY DEF Prompts
<1> HIDE DEF x
<1>7. /\ remote' \in Seq(Given) /\ Len(remote') = Len(remote)
      /\ remote'[a] = x /\ \A i \in 1 .. Len(remote) : i # a => remote'[i] = remote[i]
    BY <1>2, <1>3, <1>5, <1>6, ExceptSeq
<1> QED BY <1>1, <1>2, <1>7 DEF x

LEMMA AnsweredRemote ==
    ASSUME SdkTypeOK, Wired, NEW c \in Calls, NewSessionAnswered(c)
    PROVE  LET n == Len(remote) + 1 IN
           /\ remote' \in Seq(Given) /\ Len(remote') = n
           /\ remote'[n] = [local |-> S(c), k |-> call[c].k,
                            restored |-> Kind(c) # "create", prompts |-> <<>>]
           /\ \A i \in 1 .. Len(remote) : remote'[i] = remote[i]
           /\ call' = [call EXCEPT ![c] =
                  [call[c] EXCEPT !.pc = "writing",
                                  !.record = [agentSessionId |-> n, connection |-> call[c].k,
                                              destroyed |-> FALSE]]]
           /\ [agentSessionId |-> n, connection |-> call[c].k, destroyed |-> FALSE] \in Record
<1> DEFINE x == [local |-> S(c), k |-> call[c].k, restored |-> Kind(c) # "create",
                 prompts |-> <<>>]
<1>1. S(c) \in Sessions /\ call[c].k \in Nat /\ Len(remote) \in Nat /\ call \in [Calls -> Call]
    BY CallTyped, CountsTyped DEF SdkTypeOK
<1>2. x \in Given
    <2>1. <<>> \in Seq(BOOLEAN)  BY EmptySeq
    <2> QED BY <1>1, <2>1 DEF Given
<1>3. remote \in Seq(Given) /\ remote' = Append(remote, x)
    BY DEF NewSessionAnswered, SdkTypeOK, Given
<1>4. call' = [call EXCEPT ![c] =
                  [call[c] EXCEPT !.pc = "writing",
                                  !.record = [agentSessionId |-> Len(remote) + 1,
                                              connection |-> call[c].k,
                                              destroyed |-> FALSE]]]
    BY <1>1 DEF NewSessionAnswered
<1>5. [agentSessionId |-> Len(remote) + 1, connection |-> call[c].k, destroyed |-> FALSE]
      \in Record
    BY <1>1 DEF Record
<1> HIDE DEF x
<1>6. /\ remote' \in Seq(Given) /\ Len(remote') = Len(remote) + 1
      /\ remote'[Len(remote) + 1] = x
      /\ \A i \in 1 .. Len(remote) : remote'[i] = remote[i]
    BY <1>2, <1>3, AppendProperties
<1> QED BY <1>4, <1>5, <1>6 DEF x

LEMMA OwnType ==
    ASSUME SdkTypeOK, NEW c \in Calls, NEW x \in Call, OnItsOwn(c, x)
    PROVE  SdkTypeOK'
<1>1. call' \in [Calls -> Call]  BY DEF OnItsOwn, SdkTypeOK
<1>2. call[c].record \in Record \cup {None} /\ S(c) \in Sessions  BY CallTyped
<1>3. store' \in [Sessions -> Record \cup {None}] /\ alone' \in [Calls -> BOOLEAN]
    BY <1>2 DEF OnItsOwn, Continues, Noticed, SdkTypeOK
<1> QED BY <1>1, <1>3 DEF OnItsOwn, SdkTypeOK

LEMMA SdkNextType ==
    ASSUME SdkTypeOK, Wired, Queued, SdkStep
    PROVE  SdkTypeOK'
<1>1. Len(conn) \in Nat /\ live \in Nat /\ opening \in Nat /\ live <= Len(conn)
      /\ opening <= Len(conn) /\ Len(conn) <= MaxConnections /\ MaxConnections \in Nat
    BY CountsTyped DEF Wired
<1>3. ASSUME NEW c \in Calls, NEW p \in CallPlaces, Goto(c, p)
      PROVE  call' \in [Calls -> Call]
    <2>1. [call[c] EXCEPT !.pc = p] \in Call  BY <1>3, CallTyped DEF Call
    <2>2. call' = [call EXCEPT ![c] = [call[c] EXCEPT !.pc = p]]  BY <1>3 DEF Goto
    <2> QED BY <1>3, <2>1, <2>2 DEF SdkTypeOK
<1>4. ASSUME NEW c \in Calls, NEW p \in CallPlaces, NEW k \in Nat,
             call' = [call EXCEPT ![c].pc = p, ![c].k = k]
      PROVE  call' \in [Calls -> Call]
    <2>1. [call[c] EXCEPT !.pc = p, !.k = k] \in Call  BY <1>4, CallTyped DEF Call
    <2>2. call' = [call EXCEPT ![c] = [call[c] EXCEPT !.pc = p, !.k = k]]
        BY <1>4 DEF SdkTypeOK
    <2> QED BY <1>4, <2>1, <2>2 DEF SdkTypeOK
<1>5. ASSUME NEW c \in Calls, NEW x \in Call, OnItsOwn(c, x) PROVE SdkTypeOK'
    BY <1>5, OwnType
<1>6. ASSUME NEW c \in Calls, StartDispose(c) PROVE SdkTypeOK'
    <2>1. call' \in [Calls -> Call]  BY <1>3, <1>6 DEF StartDispose, CallPlaces
    <2>2. [taken |-> {live} \ {0}, pending |-> opening, before |-> Len(conn)]
          \in [taken : SUBSET (1 .. MaxConnections), pending : 0 .. MaxConnections,
               before : 0 .. MaxConnections]
        BY <1>1
    <2>3. dispose' \in [Calls -> [taken : SUBSET (1 .. MaxConnections),
                                  pending : 0 .. MaxConnections, before : 0 .. MaxConnections]]
        BY <1>6, <2>2 DEF StartDispose, SdkTypeOK
    <2>4. permission' \in [Calls -> {"none", "pending", "settled"}]
        BY <1>6 DEF StartDispose, Cancelled, SdkTypeOK
    <2> QED BY <1>1, <1>6, <2>1, <2>3, <2>4 DEF StartDispose, SdkTypeOK, wireVars
<1>7. ASSUME NEW c \in Calls, Connects(c) PROVE SdkTypeOK'
    <2>1. "joining" \in CallPlaces /\ Len(conn) + 1 \in Nat
          /\ call' = [call EXCEPT ![c].pc = "joining", ![c].k = Len(conn) + 1]
        BY <1>1, <1>7 DEF Connects, CallPlaces
    <2>4. call' \in [Calls -> Call]  BY <1>4, <1>7, <2>1
    <2>2. conn' \in Seq(Connection) /\ Len(conn') = Len(conn) + 1  BY <1>7, ConnectsBecomes
    <2>3. live' \in 0 .. Len(conn') /\ opening' \in 0 .. Len(conn')
        BY <1>1, <1>7, <2>2 DEF Connects
    <2> QED BY <1>7, <2>2, <2>3, <2>4 DEF Connects, SdkTypeOK
<1>8. ASSUME NEW c \in Calls, NewSessionAnswered(c) PROVE SdkTypeOK'
    <2>1. call' \in [Calls -> Call]
        <3> DEFINE r == [agentSessionId |-> Len(remote) + 1, connection |-> call[c].k,
                         destroyed |-> FALSE]
                   x == [call[c] EXCEPT !.pc = "writing", !.record = r]
        <3>1. call' = [call EXCEPT ![c] = x] /\ r \in Record  BY <1>8, AnsweredRemote
        <3> HIDE DEF r
        <3>2. x \in Call  BY <3>1, CallTyped DEF Call, CallPlaces
        <3> QED BY <3>1, <3>2 DEF SdkTypeOK
    <2>2. conn' \in Seq(Connection) /\ Len(conn') = Len(conn)
        BY <1>8, AnsweredBecomes DEF Becomes
    <2>3. remote' \in Seq(Given)  BY <1>8, AnsweredRemote
    <2> QED BY <1>8, <2>1, <2>2, <2>3 DEF NewSessionAnswered, SdkTypeOK, wireVars, Given
<1>9. ASSUME NEW c \in Calls, Bind(c) PROVE SdkTypeOK'
    <2>1. call' \in [Calls -> Call]
        <3>1. CASE Goto(c, "done")  BY <1>3, <3>1 DEF CallPlaces
        <3>2. CASE call' = [call EXCEPT ![c].pc = "reading", ![c].resuming = FALSE]
            <4>1. [call[c] EXCEPT !.pc = "reading", !.resuming = FALSE] \in Call
                BY CallTyped DEF Call, CallPlaces
            <4>2. call' = [call EXCEPT ![c] = [call[c] EXCEPT !.pc = "reading",
                                                              !.resuming = FALSE]]
                BY <3>2 DEF SdkTypeOK
            <4> QED BY <4>1, <4>2 DEF SdkTypeOK
        <3> QED BY <1>9, <3>1, <3>2 DEF Bind
    <2>2. conn' \in Seq(Connection) /\ Len(conn') = Len(conn)
        BY <1>9, BindBecomes DEF Becomes
    <2> QED BY <1>9, <2>1, <2>2 DEF Bind, SdkTypeOK, wireVars
<1>10. ASSUME NEW c \in Calls, PendingSettled(c) PROVE SdkTypeOK'
    <2> DEFINE k == dispose[c].pending
               D == [taken : SUBSET (1 .. MaxConnections), pending : 0 .. MaxConnections,
                     before : 0 .. MaxConnections]
               t == IF k # 0 /\ conn[k].state \notin Unmade
                    THEN dispose[c].taken \cup {conn[k].result} ELSE dispose[c].taken
    <2>1. call' \in [Calls -> Call]  BY <1>3, <1>10 DEF PendingSettled, CallPlaces
    <2>2. dispose[c] \in D /\ k \in 0 .. Len(conn)
        BY <1>1 DEF Wired, CallWired, SdkTypeOK
    <2>3. t \in SUBSET (1 .. MaxConnections)
        <3>1. ASSUME k # 0, conn[k].state \notin Unmade PROVE conn[k].result \in 1 .. MaxConnections
            <4>1. k \in 1 .. Len(conn) /\ conn[k].state # "opening"
                BY <1>1, <1>10, <2>2, <3>1 DEF PendingSettled
            <4> QED BY <1>1, <3>1, <4>1 DEF Wired, ConnectionWired, Unmade
        <3> QED BY <2>2, <3>1
    <2>4. dispose' = [dispose EXCEPT ![c] = [dispose[c] EXCEPT !.taken = t]]
        BY <1>10 DEF PendingSettled
    <2> HIDE DEF t
    <2>5. [dispose[c] EXCEPT !.taken = t] \in D  BY <2>2, <2>3
    <2>6. dispose' \in [Calls -> D]  BY <2>4, <2>5 DEF SdkTypeOK
    <2> QED BY <1>10, <2>1, <2>6 DEF PendingSettled, SdkTypeOK, connVars, wireVars
<1>11. ASSUME NEW c \in Calls, CloseConnections(c) PROVE SdkTypeOK'
    <2>1. call' \in [Calls -> Call]  BY <1>3, <1>11 DEF CloseConnections, CallPlaces
    <2>2. conn' \in Seq(Connection) /\ Len(conn') = Len(conn)  BY <1>11, CloseBecomes
    <2> QED BY <1>11, <2>1, <2>2 DEF CloseConnections, SdkTypeOK, wireVars
<1>12. ASSUME NEW c \in Calls, NEW k \in 1 .. Len(conn), Asks(c, k) PROVE SdkTypeOK'
    <2>1. "creating" \in CallPlaces /\ k \in Nat
          /\ call' = [call EXCEPT ![c].pc = "creating", ![c].k = k]
        BY <1>12 DEF Asks, AskNew, CallPlaces
    <2>4. call' \in [Calls -> Call]  BY <1>4, <1>12, <2>1
    <2>2. conn' \in Seq(Connection) /\ Len(conn') = Len(conn)
        BY <1>12, AsksBecomes DEF Asks, Becomes
    <2>3. out' \in Seq(Calls)  BY <1>12, AppendProperties DEF Asks, AskNew, SdkTypeOK
    <2> QED BY <1>12, <2>2, <2>3, <2>4 DEF Asks, AskNew, Rest, SdkTypeOK
<1>13. ASSUME NEW c \in Calls, NEW k \in 1 .. Len(conn), Prompts(c, k) PROVE SdkTypeOK'
    <2>1. "sent" \in CallPlaces /\ k \in Nat /\ call' = [call EXCEPT ![c].pc = "sent", ![c].k = k]
        BY <1>13 DEF Prompts, CallPlaces
    <2>4. call' \in [Calls -> Call]  BY <1>4, <1>13, <2>1
    <2>2. conn' \in Seq(Connection) /\ Len(conn') = Len(conn)
        BY <1>13, PromptsBecomes DEF Becomes
    <2>3. remote' \in Seq(Given)  BY <1>13, PromptsRemote
    <2> QED BY <1>13, <2>2, <2>3, <2>4 DEF Prompts, Rest, SdkTypeOK, Given
<1>14. ASSUME NEW k \in 1 .. Len(conn), ConnectionOpens(k) PROVE SdkTypeOK'
    <2>1. conn' \in Seq(Connection) /\ Len(conn') = Len(conn)
        BY <1>14, OpensBecomes DEF Becomes
    <2>2. live' \in 0 .. Len(conn) /\ opening' \in 0 .. Len(conn)
        BY <1>1, <1>14 DEF ConnectionOpens
    <2> QED BY <1>14, <2>1, <2>2 DEF ConnectionOpens, SdkTypeOK, callVars, wireVars
<1>15. ASSUME NEW k \in 1 .. Len(conn), ConnectionFails(k) \/ ConnectionBreaks(k)
       PROVE SdkTypeOK'
    <2>1. conn' \in Seq(Connection) /\ Len(conn') = Len(conn)
        BY <1>15, StateBecomes DEF Becomes, ConnectionFails, ConnectionBreaks, Unmade
    <2>2. opening' \in 0 .. Len(conn) /\ breaks' \in 0 .. MaxBreaks
        BY <1>1, <1>15, SdkAssumption DEF ConnectionFails, ConnectionBreaks, SdkTypeOK
    <2> QED BY <1>15, <2>1, <2>2
            DEF ConnectionFails, ConnectionBreaks, SdkTypeOK, callVars, wireVars
<1>16. CASE Emit
    <2>1. Head(out) \in Calls /\ conn' \in Seq(Connection) /\ Len(conn') = Len(conn)
          /\ attributed' = attributed /\ out' = Tail(out) /\ out # <<>>
          /\ (UNCHANGED call \/ Rejected(Head(out)))
        BY <1>16, EmitBecomes DEF Becomes
    <2>2. call' \in [Calls -> Call]
        BY <1>3, <2>1 DEF Rejected, CallPlaces, SdkTypeOK
    <2>3. out' \in Seq(Calls)  BY <2>1, HeadTailProperties DEF SdkTypeOK
    <2> QED BY <1>16, <2>1, <2>2, <2>3 DEF Emit, SdkTypeOK
<1> QED BY <1>5, <1>6, <1>7, <1>8, <1>9, <1>10, <1>11, <1>12, <1>13, <1>14, <1>15, <1>16
        DEF SdkStep

-----------------------------------------------------------------------------
(* The connections and the calls.                                           *)

\* Nothing that was made goes away.
Grows ==
    /\ job' = job
    /\ Len(conn') \in Nat /\ Len(conn) \in Nat /\ Len(conn) <= Len(conn')
    /\ Len(remote') \in Nat /\ Len(remote) \in Nat /\ Len(remote) <= Len(remote')
    /\ \A i \in 1 .. Len(remote) :
          /\ remote'[i].local = remote[i].local /\ remote'[i].k = remote[i].k
          /\ remote'[i].restored = remote[i].restored

LEMMA StepGrows ==
    ASSUME SdkTypeOK, Wired, Queued, SdkStep
    PROVE  Grows
<1>1. Len(conn) \in Nat /\ Len(remote) \in Nat  BY CountsTyped
<1>2. ASSUME job' = job, Len(conn') = Len(conn), remote' = remote PROVE Grows
    BY <1>1, <1>2 DEF Grows
<1>3. ASSUME NEW c \in Calls, NEW x \in Call, OnItsOwn(c, x) PROVE Grows
    BY <1>2, <1>3 DEF OnItsOwn
<1>4. ASSUME NEW c \in Calls, StartDispose(c) \/ PendingSettled(c) PROVE Grows
    BY <1>2, <1>4 DEF StartDispose, PendingSettled, connVars
<1>5. ASSUME NEW c \in Calls, Connects(c) PROVE Grows
    <2>1. Len(conn') = Len(conn) + 1  BY <1>5, ConnectsBecomes
    <2> QED BY <1>1, <1>5, <2>1 DEF Connects, Grows
<1>6. ASSUME NEW c \in Calls, NewSessionAnswered(c) PROVE Grows
    <2>1. Len(conn') = Len(conn)  BY <1>6, AnsweredBecomes DEF Becomes
    <2>2. Len(remote') = Len(remote) + 1 /\ \A i \in 1 .. Len(remote) : remote'[i] = remote[i]
        BY <1>6, AnsweredRemote
    <2> QED BY <1>1, <1>6, <2>1, <2>2 DEF NewSessionAnswered, Grows
<1>7. ASSUME NEW c \in Calls, Bind(c) PROVE Grows
    BY <1>2, <1>7, BindBecomes DEF Bind, Becomes
<1>8. ASSUME NEW c \in Calls, CloseConnections(c) PROVE Grows
    BY <1>2, <1>8, CloseBecomes DEF CloseConnections
<1>9. ASSUME NEW c \in Calls, NEW k \in 1 .. Len(conn), Asks(c, k) PROVE Grows
    BY <1>2, <1>9, AsksBecomes DEF Asks, AskNew, Rest, Becomes
<1>10. ASSUME NEW c \in Calls, NEW k \in 1 .. Len(conn), Prompts(c, k) PROVE Grows
    <2> DEFINE a == conn[k].bound[S(c)]
               due == conn[k].replay[S(c)]
    <2>1. Len(conn') = Len(conn) /\ job' = job
        BY <1>10, PromptsBecomes DEF Becomes, Prompts, Rest
    <2>2. /\ a \in 1 .. Len(remote) /\ due \in BOOLEAN
          /\ remote[a].local = S(c) /\ remote[a].k = k
          /\ remote' \in Seq(Given) /\ Len(remote') = Len(remote)
          /\ remote'[a] = [remote[a] EXCEPT !.prompts = Append(remote[a].prompts, due)]
          /\ \A i \in 1 .. Len(remote) : i # a => remote'[i] = remote[i]
        BY <1>10, PromptsRemote, ZenonT(40)
    <2>3. remote[a] \in Given  BY <2>2, RemoteTyped
    <2>4. /\ remote'[a].local = remote[a].local /\ remote'[a].k = remote[a].k
          /\ remote'[a].restored = remote[a].restored
        BY <2>2, <2>3 DEF Given
    <2>5. ASSUME NEW i \in 1 .. Len(remote)
          PROVE  /\ remote'[i].local = remote[i].local /\ remote'[i].k = remote[i].k
                 /\ remote'[i].restored = remote[i].restored
        <3>1. CASE i = a  BY <2>4, <3>1
        <3>2. CASE i # a  BY <2>2, <3>2
        <3> QED BY <3>1, <3>2
    <2>6. Len(remote') = Len(remote)  BY <2>2
    <2> QED BY <1>1, <2>1, <2>5, <2>6 DEF Grows
<1>11. ASSUME NEW k \in 1 .. Len(conn),
              ConnectionOpens(k) \/ ConnectionFails(k) \/ ConnectionBreaks(k)
       PROVE  Grows
    <2>1. Len(conn') = Len(conn)
        BY <1>11, OpensBecomes, StateBecomes
        DEF Becomes, ConnectionFails, ConnectionBreaks, Unmade
    <2> QED BY <1>2, <1>11, <2>1
            DEF ConnectionOpens, ConnectionFails, ConnectionBreaks, callVars
<1>12. CASE Emit
    BY <1>2, <1>12, EmitBecomes DEF Emit, Becomes
<1> QED BY <1>3, <1>4, <1>5, <1>6, <1>7, <1>8, <1>9, <1>10, <1>11, <1>12 DEF SdkStep

LEMMA CallKept ==
    ASSUME Grows, NEW c \in Calls, CallWired(c), call'[c] = call[c], dispose'[c] = dispose[c],
           SdkTypeOK
    PROVE  CallWired(c)'
<1>1. dispose[c].pending \in Nat /\ dispose[c].before \in Nat  BY SdkAssumption DEF SdkTypeOK
<1>2. S(c)' = S(c) /\ Kind(c)' = Kind(c)  BY DEF Grows, S, Kind
<1>3. ASSUME call[c].pc \in {"writing", "binding"} PROVE Made(c)'
    <2>1. Made(c)  BY <1>3 DEF CallWired
    <2> QED BY <1>2, <2>1 DEF Grows, Made
<1>4. At(c, "marking")' = At(c, "marking")  BY DEF At
<1>5. dispose'[c].pending <= Len(conn') /\ dispose'[c].before <= Len(conn')
    BY <1>1 DEF Grows, CallWired
<1>6. call'[c].pc \in {"joining", "collecting", "creating", "writing", "binding"}
      => call'[c].k \in 1 .. Len(conn')
    BY DEF Grows, CallWired
<1> QED BY <1>2, <1>3, <1>4, <1>5, <1>6 DEF CallWired

LEMMA ConnectionKept ==
    ASSUME Grows, NEW k \in 1 .. Len(conn), ConnectionWired(k),
           conn'[k].state = conn[k].state, conn'[k].result = conn[k].result,
           conn'[k].bound = conn[k].bound
    PROVE  ConnectionWired(k)'
<1>1. conn'[k].state \notin {"opening", "failed", "orphaned"} => conn'[k].result \in 1 .. Len(conn')
    BY DEF Grows, ConnectionWired
<1>2. ASSUME NEW s \in Sessions, conn'[k].bound[s] # 0
      PROVE  /\ conn'[k].bound[s] \in 1 .. Len(remote')
             /\ remote'[conn'[k].bound[s]].local = s
             /\ remote'[conn'[k].bound[s]].k = k
    <2>1. /\ conn[k].bound[s] \in 1 .. Len(remote)
          /\ remote[conn[k].bound[s]].local = s /\ remote[conn[k].bound[s]].k = k
        BY <1>2 DEF ConnectionWired
    <2> QED BY <2>1 DEF Grows
<1> QED BY <1>1, <1>2 DEF ConnectionWired

LEMMA OwnWired ==
    ASSUME SdkTypeOK, Wired, Grows, NEW c \in Calls, NEW x \in Call, OnItsOwn(c, x)
    PROVE  \A d \in Calls : CallWired(d)'
<1>1. /\ call'[c] = x /\ \A d \in Calls : d # c => call'[d] = call[d]
      /\ conn' = conn /\ remote' = remote /\ dispose' = dispose /\ job' = job
    BY DEF OnItsOwn, SdkTypeOK
<1>2. \A d \in Calls : CallWired(d)  BY DEF Wired
<1>3. CallWired(c)'
    <2>1. CASE x = call[c]  BY <1>1, <1>2, <2>1, CallKept
    <2>2. CASE x # call[c]
        <3>1. Kind(c) # "dispose"  BY <2>2 DEF OnItsOwn
        <3>2. \/ x.pc \in {"reading", "connecting", "noting", "done", "failed"}
              \/ x.pc \in {"joining", "collecting"} /\ x.k \in 1 .. Len(conn)
              \/ x.pc = "marking" /\ x.record # None
              \/ At(c, "writing") /\ x = [call[c] EXCEPT !.pc = "binding"]
            BY <2>2 DEF OnItsOwn, Continues
        <3>3. CASE x.pc \in {"reading", "connecting", "noting", "done", "failed"}
            BY <1>1, <1>2, <3>1, <3>3 DEF CallWired, At, Kind
        <3>4. CASE x.pc \in {"joining", "collecting"} /\ x.k \in 1 .. Len(conn)
            BY <1>1, <1>2, <3>1, <3>4 DEF CallWired, At, Kind
        <3>5. CASE x.pc = "marking" /\ x.record # None
            BY <1>1, <1>2, <3>1, <3>5 DEF CallWired, At, Kind
        <3>6. CASE At(c, "writing") /\ x = [call[c] EXCEPT !.pc = "binding"]
            <4>1. x.pc = "binding" /\ x.k = call[c].k /\ x.record = call[c].record
                BY <3>6, CallTyped DEF Call
            <4>2. Made(c) /\ call[c].k \in 1 .. Len(conn)  BY <1>2, <3>6 DEF CallWired, At
            <4>3. Made(c)'  BY <1>1, <4>1, <4>2 DEF Made, S, Kind
            <4> QED BY <1>1, <1>2, <3>1, <4>1, <4>2, <4>3 DEF CallWired, At, Kind
        <3> QED BY <3>2, <3>3, <3>4, <3>5, <3>6
    <2> QED BY <2>1, <2>2
<1> QED BY <1>1, <1>2, <1>3, CallKept

\* Where the calls are after Bind, or after a rejection.
LEMMA BindMoves ==
    ASSUME SdkTypeOK, NEW c \in Calls, Bind(c)
    PROVE  call'[c].pc \in {"done", "reading"} /\ \A d \in Calls : d # c => call'[d] = call[d]
<1>1. call[c] \in Call /\ call \in [Calls -> Call]  BY CallTyped DEF SdkTypeOK
<1>2. CASE Goto(c, "done")  BY <1>1, <1>2 DEF Goto, Call
<1>3. CASE call' = [call EXCEPT ![c].pc = "reading", ![c].resuming = FALSE]
    BY <1>1, <1>3 DEF Call
<1> QED BY <1>2, <1>3 DEF Bind

LEMMA WiredStep ==
    ASSUME SdkTypeOK, Wired, Queued, SdkStep
    PROVE  Wired'
<1>1. Grows  BY StepGrows
<1>2. Len(conn) \in Nat /\ live \in Nat /\ opening \in Nat /\ live <= Len(conn)
      /\ opening <= Len(conn) /\ Len(conn) <= MaxConnections /\ MaxConnections \in Nat
    BY CountsTyped DEF Wired
<1>3. \A c \in Calls : CallWired(c)  BY DEF Wired
<1>4. \A k \in 1 .. Len(conn) : ConnectionWired(k)  BY DEF Wired
<1>5. ASSUME UNCHANGED conn
      PROVE  Len(conn') <= MaxConnections /\ \A k \in 1 .. Len(conn') : ConnectionWired(k)'
    BY <1>1, <1>2, <1>4, <1>5, ConnectionKept
<1>6. ASSUME NEW k \in 1 .. Len(conn), NEW x, Becomes(k, x), ConnectionWired(k)'
      PROVE  Len(conn') <= MaxConnections /\ \A j \in 1 .. Len(conn') : ConnectionWired(j)'
    <2>1. ASSUME NEW j \in 1 .. Len(conn') PROVE ConnectionWired(j)'
        <3>1. CASE j = k  BY <1>6, <3>1
        <3>2. CASE j # k
            BY <1>1, <1>4, <1>6, <2>1, <3>2, ConnectionKept DEF Becomes
        <3> QED BY <3>1, <3>2
    <2> QED BY <1>2, <1>6, <2>1 DEF Becomes
<1>7. ASSUME NEW k \in 1 .. Len(conn), NEW x, Becomes(k, x),
             x.state = conn[k].state, x.result = conn[k].result, x.bound = conn[k].bound
      PROVE  Len(conn') <= MaxConnections /\ \A j \in 1 .. Len(conn') : ConnectionWired(j)'
    <2>1. ConnectionWired(k)'  BY <1>1, <1>4, <1>7, ConnectionKept DEF Becomes
    <2> QED BY <1>6, <1>7, <2>1
\* A call that moved, but not dispose().
<1>8. ASSUME NEW c \in Calls, UNCHANGED dispose, \A d \in Calls : d # c => call'[d] = call[d],
             Kind(c) # "dispose", call'[c].pc \notin {"marking", "settling", "closing"},
             call'[c].pc \in {"joining", "collecting", "creating", "writing", "binding"}
             => call'[c].k \in 1 .. Len(conn'),
             call'[c].pc \in {"writing", "binding"} => Made(c)'
      PROVE  \A d \in Calls : CallWired(d)'
    <2>1. dispose'[c].pending <= Len(conn') /\ dispose'[c].before <= Len(conn')
        <3>1. dispose[c].pending \in Nat /\ dispose[c].before \in Nat
            BY SdkAssumption DEF SdkTypeOK
        <3> QED BY <1>1, <1>3, <1>8, <3>1 DEF CallWired, Grows
    <2>2. CallWired(c)'  BY <1>1, <1>8, <2>1 DEF CallWired, At, Kind, Grows
    <2> QED BY <1>1, <1>3, <1>8, <2>2, CallKept
\* A dispose() that moved.
<1>9. ASSUME NEW c \in Calls, Kind(c) = "dispose", UNCHANGED conn,
             \A d \in Calls : d # c => call'[d] = call[d] /\ dispose'[d] = dispose[d],
             call'[c].pc \in {"settling", "closing", "done"},
             dispose'[c].pending <= Len(conn), dispose'[c].before <= Len(conn)
      PROVE  Wired'
    <2>1. CallWired(c)'  BY <1>1, <1>9 DEF CallWired, At, Kind, Grows
    <2>2. \A d \in Calls : CallWired(d)'  BY <1>1, <1>3, <1>9, <2>1, CallKept
    <2> QED BY <1>5, <1>9, <2>2 DEF Wired
<1>10. ASSUME NEW c \in Calls, NEW x \in Call, OnItsOwn(c, x) PROVE Wired'
    <2>1. UNCHANGED conn  BY <1>10 DEF OnItsOwn
    <2> QED BY <1>1, <1>5, <1>10, <2>1, OwnWired DEF Wired
<1>11. ASSUME NEW c \in Calls, StartDispose(c) PROVE Wired'
    <2>1. dispose'[c].pending = opening /\ dispose'[c].before = Len(conn)
          /\ \A d \in Calls : d # c => dispose'[d] = dispose[d]
        BY <1>11 DEF StartDispose, SdkTypeOK
    <2>2. call'[c].pc = "settling" /\ \A d \in Calls : d # c => call'[d] = call[d]
        BY <1>11, CallTyped DEF StartDispose, Goto, SdkTypeOK, Call
    <2> QED BY <1>2, <1>9, <1>11, <2>1, <2>2 DEF StartDispose
<1>12. ASSUME NEW c \in Calls, PendingSettled(c) PROVE Wired'
    <2>1. Kind(c) = "dispose"  BY <1>3, <1>12 DEF PendingSettled, CallWired, At
    <2>2. dispose'[c].pending = dispose[c].pending /\ dispose'[c].before = dispose[c].before
          /\ \A d \in Calls : d # c => dispose'[d] = dispose[d]
        BY <1>12 DEF PendingSettled, SdkTypeOK
    <2>3. call'[c].pc = "closing" /\ \A d \in Calls : d # c => call'[d] = call[d]
        BY <1>12, CallTyped DEF PendingSettled, Goto, SdkTypeOK, Call
    <2>4. dispose[c].pending <= Len(conn) /\ dispose[c].before <= Len(conn) /\ UNCHANGED conn
        BY <1>3, <1>12 DEF PendingSettled, CallWired, connVars
    <2> QED BY <1>9, <2>1, <2>2, <2>3, <2>4
<1>13. ASSUME NEW c \in Calls, CloseConnections(c) PROVE Wired'
    <2>1. Kind(c) = "dispose" /\ dispose' = dispose
        BY <1>3, <1>13 DEF CloseConnections, CallWired, At
    <2>2. call'[c].pc = "done" /\ \A d \in Calls : d # c => call'[d] = call[d]
        BY <1>13, CallTyped DEF CloseConnections, Goto, SdkTypeOK, Call
    <2>3. CallWired(c)'
        <3>1. dispose[c].pending <= Len(conn) /\ dispose[c].before <= Len(conn)
            BY <1>3 DEF CallWired
        <3>2. Len(conn') = Len(conn)  BY <1>13, CloseBecomes
        <3> QED BY <1>1, <2>1, <2>2, <3>1, <3>2 DEF CallWired, At, Kind, Grows
    <2>4. \A d \in Calls : CallWired(d)'  BY <1>1, <1>3, <2>1, <2>2, <2>3, CallKept
    <2>5. ASSUME NEW k \in 1 .. Len(conn) PROVE ConnectionWired(k)'
        <3>1. conn'[k] = conn[k] \/ (conn[k].state = "open"
                                     /\ conn'[k] = [conn[k] EXCEPT !.state = "closed"])
            BY <1>13, CloseBecomes
        <3>2. conn'[k].result = conn[k].result /\ conn'[k].bound = conn[k].bound
              /\ (conn'[k].state = conn[k].state \/ conn[k].state = "open")
            BY <3>1, ConnectionTyped DEF Connection
        <3>3. CASE conn'[k].state = conn[k].state  BY <1>1, <1>4, <3>2, <3>3, ConnectionKept
        <3>4. CASE conn[k].state = "open"
            <4>1. conn[k].result \in 1 .. Len(conn)  BY <1>4, <3>4 DEF ConnectionWired
            <4>2. conn'[k].result \in 1 .. Len(conn')  BY <1>1, <3>2, <4>1 DEF Grows
            <4>0. \A s \in Sessions : conn[k].bound[s] # 0 =>
                     /\ conn[k].bound[s] \in 1 .. Len(remote)
                     /\ remote[conn[k].bound[s]].local = s
                     /\ remote[conn[k].bound[s]].k = k
                BY <1>4 DEF ConnectionWired
            <4>4. conn'[k].bound = conn[k].bound  BY <3>2
            <4>3. ASSUME NEW s \in Sessions, conn'[k].bound[s] # 0
                  PROVE  /\ conn'[k].bound[s] \in 1 .. Len(remote')
                         /\ remote'[conn'[k].bound[s]].local = s
                         /\ remote'[conn'[k].bound[s]].k = k
                <5>1. PICK n : n = conn[k].bound[s]  OBVIOUS
                <5>2. n \in 1 .. Len(remote) /\ remote[n].local = s /\ remote[n].k = k
                    BY <4>0, <4>3, <4>4, <5>1
                <5>3. n \in 1 .. Len(remote') /\ remote'[n].local = s /\ remote'[n].k = k
                    BY <1>1, <5>2 DEF Grows
                <5> QED BY <4>4, <5>1, <5>3
            <4> QED BY <4>2, <4>3 DEF ConnectionWired
        <3> QED BY <3>2, <3>3, <3>4
    <2> QED BY <1>2, <1>13, <2>4, <2>5, CloseBecomes DEF Wired
<1>14. ASSUME NEW c \in Calls, Connects(c) PROVE Wired'
    <2> DEFINE n == Len(conn) + 1
    <2>1. Kind(c) # "dispose" /\ UNCHANGED dispose /\ n <= MaxConnections
        BY <1>2, <1>14, NotDisposing DEF Connects, At
    <2>2. call'[c].pc = "joining" /\ call'[c].k = n /\ \A d \in Calls : d # c => call'[d] = call[d]
        BY <1>14, CallTyped DEF Connects, SdkTypeOK, Call
    <2>3. /\ Len(conn') = n /\ \A k \in 1 .. Len(conn) : conn'[k] = conn[k]
          /\ conn'[n].state = "opening" /\ \A s \in Sessions : conn'[n].bound[s] = 0
        BY <1>14, ConnectsBecomes
    <2>4. \A d \in Calls : CallWired(d)'  BY <1>2, <1>8, <2>1, <2>2, <2>3
    <2>5. ASSUME NEW k \in 1 .. Len(conn') PROVE ConnectionWired(k)'
        <3>1. CASE k \in 1 .. Len(conn)  BY <1>1, <1>4, <2>3, <3>1, ConnectionKept
        <3>2. CASE k = n  BY <2>3, <3>2 DEF ConnectionWired
        <3> QED BY <1>2, <2>3, <2>5, <3>1, <3>2
    <2> QED BY <2>1, <2>3, <2>4, <2>5 DEF Wired
<1>15. ASSUME NEW c \in Calls, NEW k \in 1 .. Len(conn), Asks(c, k) PROVE Wired'
    <2>1. Kind(c) # "dispose" /\ UNCHANGED dispose
        BY <1>15, NotDisposing DEF Asks, Rest
    <2>2. call'[c].pc = "creating" /\ call'[c].k = k /\ \A d \in Calls : d # c => call'[d] = call[d]
        BY <1>15, CallTyped DEF Asks, AskNew, SdkTypeOK, Call
    <2>3. \A d \in Calls : CallWired(d)'  BY <1>1, <1>8, <2>1, <2>2 DEF Grows
    <2>4. Becomes(k, [conn[k] EXCEPT !.pendingNew = Append(conn[k].pendingNew, S(c))])
        BY <1>15, AsksBecomes DEF Asks
    <2> QED BY <1>7, <2>3, <2>4, ConnectionTyped DEF Wired, Connection
<1>16. ASSUME NEW c \in Calls, NEW k \in 1 .. Len(conn), Prompts(c, k) PROVE Wired'
    <2>1. Kind(c) # "dispose" /\ UNCHANGED dispose
        BY <1>16 DEF Prompts, Rest
    <2>2. call'[c].pc = "sent" /\ \A d \in Calls : d # c => call'[d] = call[d]
        BY <1>16, CallTyped DEF Prompts, SdkTypeOK, Call
    <2>3. \A d \in Calls : CallWired(d)'  BY <1>8, <2>1, <2>2
    <2>4. Becomes(k, [conn[k] EXCEPT !.replay = [conn[k].replay EXCEPT ![S(c)] = FALSE]])
        BY <1>16, PromptsBecomes
    <2> QED BY <1>7, <2>3, <2>4, ConnectionTyped DEF Wired, Connection
<1>17. ASSUME NEW c \in Calls, NewSessionAnswered(c) PROVE Wired'
    <2>1. PICK k \in 1 .. Len(conn) : k = call[c].k  BY <1>17, AnsweredBecomes
    <2>2. PICK n \in Nat : n = Len(remote) + 1  BY CountsTyped
    <2> DEFINE x == [conn[k] EXCEPT !.bound = [conn[k].bound EXCEPT ![S(c)] = n]]
    <2>3. Becomes(k, x)  BY <1>17, <2>1, <2>2, AnsweredBecomes
    <2>4. /\ Len(remote') = n
          /\ remote'[n] = [local |-> S(c), k |-> k, restored |-> Kind(c) # "create",
                           prompts |-> <<>>]
        BY <1>17, <2>1, <2>2, AnsweredRemote
    <2>5. /\ n \in 1 .. Len(remote')
          /\ remote'[n].local = S(c) /\ remote'[n].k = k
          /\ remote'[n].restored = (Kind(c) # "create")
        BY <1>1, <2>2, <2>4 DEF Grows
    <2>6. Kind(c) # "dispose" /\ UNCHANGED <<dispose, job>>
        BY <1>17, NotDisposing DEF NewSessionAnswered, At
    <2>7. /\ call'[c].pc = "writing" /\ call'[c].k = k /\ call'[c].record # None
          /\ call'[c].record.agentSessionId = n
          /\ \A d \in Calls : d # c => call'[d] = call[d]
        <3> DEFINE r == [agentSessionId |-> n, connection |-> k, destroyed |-> FALSE]
        <3>1. r.agentSessionId = n  OBVIOUS
        <3>2. r \in Record /\ call' = [call EXCEPT ![c] =
                                  [call[c] EXCEPT !.pc = "writing", !.record = r]]
            BY <1>17, <2>1, <2>2, AnsweredRemote
        <3> HIDE DEF r
        <3>3. r # None  BY <3>2, SdkAssumption
        <3> QED BY <2>1, <3>1, <3>2, <3>3, CallTyped DEF SdkTypeOK, Call
    <2>8. Made(c)'  BY <2>5, <2>6, <2>7 DEF Made, S, Kind
    <2>9. \A d \in Calls : CallWired(d)'  BY <1>1, <1>8, <2>6, <2>7, <2>8 DEF Grows
    <2>10. ConnectionWired(k)'
        <3>1. conn'[k].state = conn[k].state /\ conn'[k].result = conn[k].result
              /\ conn'[k].bound = [conn[k].bound EXCEPT ![S(c)] = n]
              /\ conn[k].bound \in [Sessions -> Nat] /\ Len(conn') = Len(conn)
            BY <2>3, ConnectionTyped DEF Becomes, Connection
        <3>2. ASSUME NEW s \in Sessions, conn'[k].bound[s] # 0
              PROVE  /\ conn'[k].bound[s] \in 1 .. Len(remote')
                     /\ remote'[conn'[k].bound[s]].local = s
                     /\ remote'[conn'[k].bound[s]].k = k
            <4>1. CASE s = S(c)  BY <2>5, <3>1, <4>1
            <4>2. CASE s # S(c)
                <5>1. PICK b \in Nat : b = conn[k].bound[s]  BY <3>1
                <5>2. conn'[k].bound[s] = b  BY <3>1, <4>2, <5>1
                <5>3. b \in 1 .. Len(remote) /\ remote[b].local = s /\ remote[b].k = k
                    BY <1>4, <3>2, <5>1, <5>2 DEF ConnectionWired
                <5> QED BY <1>1, <5>2, <5>3 DEF Grows
            <4> QED BY <4>1, <4>2
        <3> QED BY <1>4, <3>1, <3>2 DEF ConnectionWired
    <2> QED BY <1>6, <2>3, <2>9, <2>10 DEF Wired
<1>18. ASSUME NEW c \in Calls, Bind(c) PROVE Wired'
    <2>1. PICK k \in 1 .. Len(conn) : k = call[c].k  BY <1>18, BindBecomes
    <2>2. PICK a \in 1 .. Len(remote) : a = call[c].record.agentSessionId
        BY <1>18, BindBecomes DEF Made
    <2> DEFINE x == [conn[k] EXCEPT !.bound = [conn[k].bound EXCEPT ![S(c)] = a],
                                    !.replay = IF Kind(c) = "create" THEN conn[k].replay
                                               ELSE [conn[k].replay EXCEPT ![S(c)] = TRUE]]
    <2>3. Becomes(k, x) /\ remote[a].local = S(c) /\ remote[a].k = k
        BY <1>18, <2>1, <2>2, BindBecomes DEF Made
    <2>4. Kind(c) # "dispose" /\ UNCHANGED <<dispose, remote>>
        BY <1>18, NotDisposing DEF Bind, At
    <2>5. call'[c].pc \in {"done", "reading"} /\ \A d \in Calls : d # c => call'[d] = call[d]
        BY <1>18, BindMoves
    <2>6. \A d \in Calls : CallWired(d)'  BY <1>8, <2>4, <2>5
    <2>7. ConnectionWired(k)'
        <3>1. conn'[k].state = conn[k].state /\ conn'[k].result = conn[k].result
              /\ conn'[k].bound = [conn[k].bound EXCEPT ![S(c)] = a]
              /\ conn[k].bound \in [Sessions -> Nat] /\ Len(conn') = Len(conn)
            BY <2>3, ConnectionTyped DEF Becomes, Connection
        <3> QED BY <1>4, <2>3, <2>4, <3>1 DEF ConnectionWired
    <2> QED BY <1>6, <2>3, <2>6, <2>7 DEF Wired
<1>19. ASSUME NEW k \in 1 .. Len(conn), ConnectionOpens(k) PROVE Wired'
    <2>1. UNCHANGED <<call, dispose, remote>>  BY <1>19 DEF ConnectionOpens, callVars
    <2>2. \A d \in Calls : CallWired(d)'  BY <1>1, <1>3, <2>1, CallKept
    <2>3. PICK x : Becomes(k, x) /\ x.bound = conn[k].bound /\ x.result \in 1 .. Len(conn)
        <3>1. CASE live = 0
            <4> DEFINE x == [conn[k] EXCEPT !.state = "open", !.result = k]
            <4>1. x.bound = conn[k].bound /\ x.result = k  BY ConnectionTyped DEF Connection
            <4>2. Becomes(k, x)  BY <1>19, <3>1, OpensBecomes
            <4> QED BY <4>1, <4>2
        <3>2. CASE live # 0
            <4> DEFINE x == [conn[k] EXCEPT !.state = "closed", !.result = live]
            <4>1. x.bound = conn[k].bound /\ x.result = live  BY ConnectionTyped DEF Connection
            <4>2. Becomes(k, x)  BY <1>19, <3>2, OpensBecomes
            <4> HIDE DEF x
            <4> QED BY <1>2, <3>2, <4>1, <4>2
        <3> QED BY <3>1, <3>2
    <2>4. ConnectionWired(k)'  BY <1>4, <2>1, <2>3 DEF ConnectionWired, Becomes
    <2> QED BY <1>6, <2>2, <2>3, <2>4 DEF Wired
<1>20. ASSUME NEW k \in 1 .. Len(conn), ConnectionFails(k) \/ ConnectionBreaks(k) PROVE Wired'
    <2>1. UNCHANGED <<call, dispose, remote>>
        BY <1>20 DEF ConnectionFails, ConnectionBreaks, callVars
    <2>2. \A d \in Calls : CallWired(d)'  BY <1>1, <1>3, <2>1, CallKept
    <2>3. PICK s \in {"failed", "orphaned", "broken"} :
             /\ Becomes(k, [conn[k] EXCEPT !.state = s])
             /\ s = "broken" => conn[k].state = "open"
        BY <1>20, StateBecomes DEF ConnectionFails, ConnectionBreaks, Unmade
    <2>4. conn'[k].state = s /\ conn'[k].result = conn[k].result
          /\ conn'[k].bound = conn[k].bound /\ Len(conn') = Len(conn)
        BY <2>3, ConnectionTyped DEF Becomes, Connection
    <2>5. ConnectionWired(k)'  BY <1>4, <2>1, <2>3, <2>4 DEF ConnectionWired
    <2> QED BY <1>6, <2>2, <2>3, <2>5 DEF Wired
<1>21. CASE Emit
    <2> DEFINE c == Head(out)
               k == call[c].k
    <2>1. /\ c \in Calls /\ At(c, "creating") /\ k \in 1 .. Len(conn)
          /\ Becomes(k, [conn[k] EXCEPT !.pendingNew = Tail(conn[k].pendingNew)])
          /\ UNCHANGED call \/ Rejected(c)
        BY <1>21, EmitBecomes
    <2>2. UNCHANGED dispose  BY <1>21 DEF Emit
    <2>3. \A d \in Calls : CallWired(d)'
        <3>1. CASE UNCHANGED call  BY <1>1, <1>3, <2>2, <3>1, CallKept
        <3>2. CASE Rejected(c)
            <4>1. Kind(c) # "dispose"  BY <2>1, NotDisposing DEF At
            <4>2. call'[c].pc \in {"noting", "failed"}
                  /\ \A d \in Calls : d # c => call'[d] = call[d]
                BY <2>1, <3>2, CallTyped DEF Rejected, Goto, SdkTypeOK, Call
            <4> QED BY <1>8, <2>1, <2>2, <4>1, <4>2
        <3> QED BY <2>1, <3>1, <3>2
    <2> QED BY <1>7, <2>1, <2>3, ConnectionTyped DEF Wired, Connection
<1> QED BY <1>10, <1>11, <1>12, <1>13, <1>14, <1>15, <1>16, <1>17, <1>18, <1>19, <1>20, <1>21
        DEF SdkStep

-----------------------------------------------------------------------------
(* The sessions in line.                                                    *)

\* The sizes, the places and the members a line is made of.
LEMMA LineTyped ==
    ASSUME SdkTypeOK, NEW k \in 1 .. Len(conn)
    PROVE  /\ Len(conn[k].pendingNew) \in Nat /\ Len(out) \in Nat
           /\ \A i \in 1 .. Len(out) : out[i] \in Calls /\ S(out[i]) \in Sessions
BY ConnectionTyped, CountsTyped, CallTyped, LenProperties

\* A step that writes no request and takes none.
LEMMA QueuedKept ==
    ASSUME SdkTypeOK, Wired, Queued, Grows, out' = out, attributed' = attributed,
           \A i \in 1 .. Len(out) : call'[out[i]] = call[out[i]],
           \A k \in 1 .. Len(conn) : conn'[k].pendingNew = conn[k].pendingNew,
           \A k \in 1 .. Len(conn') : k > Len(conn) => conn'[k].pendingNew = <<>>
    PROVE  Queued'
<1>1. LoggedUnderItsSession'  BY DEF Queued, LoggedUnderItsSession, Grows, S
<1>2. /\ \A i \in 1 .. Len(out') : call'[out'[i]].pc = "creating"
      /\ \A i, j \in 1 .. Len(out') : out'[i] = out'[j] => i = j
    BY DEF Queued, At
<1>3. ASSUME NEW k \in 1 .. Len(conn') PROVE \E f : InLine(f, k)'
    <2>1. CASE k \in 1 .. Len(conn)
        <3>1. PICK f : InLine(f, k)  BY <2>1 DEF Queued
        <3>2. conn'[k].pendingNew = conn[k].pendingNew  BY <2>1
        <3>3. InLine(f, k)'
            <4>1. job' = job  BY DEF Grows
            <4>2. \A i \in 1 .. Len(conn[k].pendingNew) : f[i] \in 1 .. Len(out)
                BY <3>1 DEF InLine
            <4>3. f \in [1 .. Len(conn'[k].pendingNew) -> 1 .. Len(out')]
                BY <3>1, <3>2 DEF InLine
            <4>4. \A i, j \in 1 .. Len(conn'[k].pendingNew) : i < j => f[i] < f[j]
                BY <3>1, <3>2 DEF InLine
            <4>5. \A i \in 1 .. Len(conn'[k].pendingNew) :
                     call'[out'[f[i]]].k = k /\ S(out[f[i]])' = conn'[k].pendingNew[i]
                BY <3>1, <3>2, <4>1, <4>2 DEF InLine, S
            <4>6. \A n \in 1 .. Len(out') : call'[out'[n]].k = k =>
                     \E i \in 1 .. Len(conn'[k].pendingNew) : f[i] = n
                BY <3>1, <3>2 DEF InLine
            <4> QED BY <4>3, <4>4, <4>5, <4>6 DEF InLine, S
        <3> QED BY <3>3
    <2>2. CASE k > Len(conn)
        <3>1. conn'[k].pendingNew = <<>>  BY <2>2
        <3>2. Len(<<>>) = 0 /\ 1 .. 0 = {}  BY EmptySeq
        <3>3. PICK f : f = [i \in {} |-> 0]  OBVIOUS
        <3>4. ASSUME NEW n \in 1 .. Len(out) PROVE call[out[n]].k # k
            <4>1. At(out[n], "creating") /\ out[n] \in Calls  BY CountsTyped DEF Queued
            <4>2. call[out[n]].k \in 1 .. Len(conn)  BY <4>1 DEF Wired, CallWired, At
            <4> QED BY <2>2, <4>2 DEF Grows
        <3>5. f \in [{} -> 1 .. Len(out)]  BY <3>3
        <3>6. InLine(f, k)'  BY <3>1, <3>2, <3>4, <3>5 DEF InLine
        <3> QED BY <3>6
    <2> QED BY <1>3, <2>1, <2>2 DEF Grows
<1> QED BY <1>1, <1>2, <1>3 DEF Queued, At

LEMMA QueuedAsks ==
    ASSUME SdkTypeOK, Wired, Queued, Grows, NEW c \in Calls, NEW k \in 1 .. Len(conn), Asks(c, k)
    PROVE  Queued'
<1> DEFINE M == Len(out)
<1>1. /\ M \in Nat /\ out' = Append(out, c) /\ Len(out') = M + 1 /\ out'[M + 1] = c
      /\ \A i \in 1 .. M : out'[i] = out[i] /\ out[i] \in Calls
    BY CountsTyped, AppendProperties DEF Asks, AskNew, SdkTypeOK
<1>2. /\ call'[c].pc = "creating" /\ call'[c].k = k
      /\ \A d \in Calls : d # c => call'[d] = call[d]
    BY CallTyped DEF Asks, AskNew, SdkTypeOK, Call
<1>3. \A i \in 1 .. M : out[i] # c  BY NotInOut DEF Asks, At
<1>4. job' = job  BY DEF Grows
<1>5. /\ \A i \in 1 .. M + 1 : call'[out'[i]].pc = "creating"
      /\ \A i, j \in 1 .. M + 1 : out'[i] = out'[j] => i = j
    <2>1. \A i \in 1 .. M + 1 : i \in 1 .. M \/ i = M + 1  BY <1>1
    <2> QED BY <1>1, <1>2, <1>3, <2>1 DEF Queued, At
<1>6. Becomes(k, [conn[k] EXCEPT !.pendingNew = Append(conn[k].pendingNew, S(c))])
    BY AsksBecomes DEF Asks
<1>7. LoggedUnderItsSession'
    BY DEF Queued, LoggedUnderItsSession, Grows, S, Asks, Rest
<1>8. ASSUME NEW j \in 1 .. Len(conn) PROVE \E f : InLine(f, j)'
    <2> DEFINE L == Len(conn[j].pendingNew)
    <2>1. PICK f : InLine(f, j)  BY DEF Queued
    <2>2. L \in Nat  BY LineTyped
    <2>3. /\ f \in [1 .. L -> 1 .. M]
          /\ \A i, n \in 1 .. L : i < n => f[i] < f[n]
          /\ \A i \in 1 .. L : call[out[f[i]]].k = j /\ S(out[f[i]]) = conn[j].pendingNew[i]
          /\ \A n \in 1 .. M : call[out[n]].k = j => \E i \in 1 .. L : f[i] = n
        BY <2>1 DEF InLine
    <2>4. \A n \in 1 .. M : call'[out'[n]] = call[out[n]] /\ S(out'[n]) = S(out[n])
        BY <1>1, <1>2, <1>3
    <2>5. CASE j # k
        <3>1. conn'[j].pendingNew = conn[j].pendingNew  BY <1>6, <2>5 DEF Becomes
        <3>2. f \in [1 .. L -> 1 .. M + 1]  BY <1>1, <2>3
        <3>3. \A i \in 1 .. L : call'[out'[f[i]]].k = j /\ S(out'[f[i]]) = conn[j].pendingNew[i]
            BY <2>3, <2>4
        <3>4. ASSUME NEW n \in 1 .. M + 1, call'[out'[n]].k = j PROVE \E i \in 1 .. L : f[i] = n
            <4>1. n # M + 1  BY <1>1, <1>2, <2>5, <3>4
            <4>2. n \in 1 .. M  BY <1>1, <4>1
            <4> QED BY <2>3, <2>4, <3>4, <4>2
        <3> HIDE DEF L, M
        <3>5. Len(conn'[j].pendingNew) = L /\ Len(out') = M + 1  BY <1>1, <3>1 DEF L
        <3>6. InLine(f, j)'  BY <1>4, <2>3, <3>1, <3>2, <3>3, <3>4, <3>5 DEF InLine, S
        <3> QED BY <3>6
    <2>6. CASE j = k
        <3>1. PICK g : g = [i \in 1 .. L + 1 |-> IF i = L + 1 THEN M + 1 ELSE f[i]]  OBVIOUS
        <3>2. conn'[j].pendingNew = Append(conn[j].pendingNew, S(c))
            BY <1>6, <2>6, ConnectionTyped DEF Becomes, Connection
        <3>3. conn[j].pendingNew \in Seq(Sessions) /\ S(c) \in Sessions
            BY ConnectionTyped, CallTyped
        <3>4. /\ Len(conn'[j].pendingNew) = L + 1 /\ conn'[j].pendingNew[L + 1] = S(c)
              /\ \A i \in 1 .. L : conn'[j].pendingNew[i] = conn[j].pendingNew[i]
            BY <3>2, <3>3, AppendProperties
        <3> HIDE DEF L
        <3>5. g[L + 1] = M + 1 /\ \A i \in 1 .. L : g[i] = f[i]  BY <2>2, <3>1
        <3>6. g \in [1 .. L + 1 -> 1 .. M + 1]  BY <1>1, <2>2, <2>3, <3>1
        <3>7. \A i \in 1 .. L + 1 : i \in 1 .. L \/ i = L + 1  BY <2>2
        <3>8. ASSUME NEW i \in 1 .. L + 1, NEW n \in 1 .. L + 1, i < n PROVE g[i] < g[n]
            <4>1. i \in 1 .. L /\ f[i] \in 1 .. M  BY <2>2, <2>3, <3>8
            <4>2. CASE n \in 1 .. L  BY <2>3, <3>5, <3>8, <4>1, <4>2
            <4>3. CASE n = L + 1  BY <1>1, <3>5, <4>1, <4>3
            <4> QED BY <3>7, <4>2, <4>3
        <3>9. \A i \in 1 .. L + 1 : call'[out'[g[i]]].k = j /\ S(out'[g[i]]) = conn'[j].pendingNew[i]
            <4>1. call'[out'[g[L + 1]]].k = j /\ S(out'[g[L + 1]]) = conn'[j].pendingNew[L + 1]
                BY <1>1, <1>2, <2>6, <3>4, <3>5
            <4>2. \A i \in 1 .. L : call'[out'[g[i]]].k = j
                                    /\ S(out'[g[i]]) = conn'[j].pendingNew[i]
                BY <2>3, <2>4, <3>4, <3>5
            <4> QED BY <3>7, <4>1, <4>2
        <3>10. ASSUME NEW n \in 1 .. M + 1, call'[out'[n]].k = j
               PROVE  \E i \in 1 .. L + 1 : g[i] = n
            <4>1. CASE n = M + 1  BY <2>2, <3>5, <4>1
            <4>2. CASE n # M + 1
                <5>1. n \in 1 .. M  BY <1>1, <4>2
                <5>2. PICK i \in 1 .. L : f[i] = n  BY <2>3, <2>4, <3>10, <5>1
                <5> QED BY <2>2, <3>5, <5>2
            <4> QED BY <4>1, <4>2
        <3> HIDE DEF M
        <3>11. InLine(g, j)'  BY <1>1, <1>4, <3>4, <3>6, <3>8, <3>9, <3>10 DEF InLine, S
        <3> QED BY <3>11
    <2> QED BY <2>5, <2>6
<1>9. Len(conn') = Len(conn)  BY <1>6 DEF Becomes
<1> HIDE DEF M
<1> QED BY <1>1, <1>5, <1>7, <1>8, <1>9 DEF Queued, At

LEMMA QueuedEmit ==
    ASSUME SdkTypeOK, Wired, Queued, Grows, Emit
    PROVE  Queued'
<1>1. PICK c \in Calls : c = Head(out)  BY EmitBecomes
<1>2. PICK k \in 1 .. Len(conn) : k = call[c].k  BY <1>1, EmitBecomes
<1>3. /\ out # <<>> /\ c = out[1] /\ At(c, "creating")
      /\ Becomes(k, [conn[k] EXCEPT !.pendingNew = Tail(conn[k].pendingNew)])
      /\ attributed' = attributed /\ out' = Tail(out)
      /\ UNCHANGED call \/ Rejected(c)
    BY <1>1, <1>2, EmitBecomes
<1> DEFINE M == Len(out')
<1>4. /\ M \in Nat /\ Len(out) = M + 1
      /\ \A i \in 1 .. M : out'[i] = out[i + 1] /\ out[i + 1] \in Calls /\ i + 1 \in 1 .. Len(out)
    <2>1. out \in Seq(Calls) /\ Len(out) \in Nat /\ Len(out) >= 1
        BY <1>3, EmptySeq DEF SdkTypeOK
    <2>2. Len(out') = Len(out) - 1 /\ \A i \in 1 .. Len(out') : out'[i] = out[i + 1]
        BY <1>3, <2>1, HeadTailProperties
    <2>3. \A i \in 1 .. Len(out') : i + 1 \in 1 .. Len(out)  BY <2>1, <2>2
    <2> QED BY <2>1, <2>2, <2>3, CountsTyped
<1>5. \A d \in Calls : d # c => call'[d] = call[d]
    BY <1>3 DEF Rejected, Goto, SdkTypeOK
<1>6. \A i \in 1 .. M : out[i + 1] # c
    <2>1. 1 \in 1 .. Len(out)  BY <1>4
    <2>2. \A i \in 1 .. M : i + 1 # 1  BY <1>4
    <2> QED BY <1>3, <1>4, <2>1, <2>2 DEF Queued
<1>7. \A i \in 1 .. M : call'[out'[i]] = call[out[i + 1]] /\ out'[i] = out[i + 1]
    BY <1>4, <1>5, <1>6
<1>8. job' = job  BY DEF Grows
<1>9. /\ \A i \in 1 .. M : call'[out'[i]].pc = "creating"
      /\ \A i, j \in 1 .. M : out'[i] = out'[j] => i = j
    <2>1. ASSUME NEW i \in 1 .. M PROVE call'[out'[i]].pc = "creating"
        BY <1>4, <1>7, <2>1 DEF Queued, At
    <2>2. ASSUME NEW i \in 1 .. M, NEW j \in 1 .. M, out'[i] = out'[j] PROVE i = j
        <3>1. out[i + 1] = out[j + 1]  BY <1>4, <2>2
        <3>2. i + 1 \in 1 .. Len(out) /\ j + 1 \in 1 .. Len(out)  BY <1>4
        <3>3. i + 1 = j + 1  BY <3>1, <3>2 DEF Queued
        <3> QED BY <1>4, <3>3
    <2> QED BY <2>1, <2>2
<1>10. LoggedUnderItsSession'
    BY <1>3, <1>8 DEF Queued, LoggedUnderItsSession, S
<1>11. ASSUME NEW j \in 1 .. Len(conn) PROVE \E f : InLine(f, j)'
    <2> DEFINE L == Len(conn[j].pendingNew)
    <2>1. PICK f : InLine(f, j)  BY DEF Queued
    <2>2. L \in Nat  BY LineTyped
    <2>3. /\ f \in [1 .. L -> 1 .. M + 1]
          /\ \A i, n \in 1 .. L : i < n => f[i] < f[n]
          /\ \A i \in 1 .. L : call[out[f[i]]].k = j /\ S(out[f[i]]) = conn[j].pendingNew[i]
          /\ \A n \in 1 .. M + 1 : call[out[n]].k = j => \E i \in 1 .. L : f[i] = n
        BY <1>4, <2>1 DEF InLine
    <2>4. CASE j # k
        <3>1. conn'[j].pendingNew = conn[j].pendingNew  BY <1>3, <2>4 DEF Becomes
        <3>2. ASSUME NEW i \in 1 .. L PROVE f[i] \in 1 .. M + 1 /\ f[i] # 1 /\ f[i] - 1 \in 1 .. M
            <4>1. f[i] \in 1 .. M + 1 /\ call[out[f[i]]].k = j  BY <2>3
            <4>2. f[i] # 1  BY <1>2, <1>3, <2>4, <4>1
            <4> QED BY <1>4, <4>1, <4>2
        <3>3. PICK g : g = [i \in 1 .. L |-> f[i] - 1]  OBVIOUS
        <3>4. g \in [1 .. L -> 1 .. M]  BY <3>2, <3>3
        <3>5. \A i, n \in 1 .. L : i < n => g[i] < g[n]
            BY <1>4, <2>3, <3>2, <3>3
        <3>6. ASSUME NEW i \in 1 .. L
              PROVE  call'[out'[g[i]]].k = j /\ S(out'[g[i]]) = conn[j].pendingNew[i]
            <4>1. g[i] \in 1 .. M /\ g[i] + 1 = f[i]  BY <1>4, <3>2, <3>3
            <4>2. call'[out'[g[i]]] = call[out[f[i]]] /\ out'[g[i]] = out[f[i]]  BY <1>7, <4>1
            <4> QED BY <2>3, <4>2
        <3>7. ASSUME NEW n \in 1 .. M, call'[out'[n]].k = j PROVE \E i \in 1 .. L : g[i] = n
            <4>1. call[out[n + 1]].k = j /\ n + 1 \in 1 .. M + 1  BY <1>4, <1>7, <3>7
            <4>2. PICK i \in 1 .. L : f[i] = n + 1  BY <2>3, <4>1
            <4>3. g[i] = n  BY <3>3, <4>2
            <4> QED BY <4>3
        <3> HIDE DEF L, M
        <3>8. Len(conn'[j].pendingNew) = L /\ M = Len(out')  BY <3>1 DEF L, M
        <3>9. InLine(g, j)'  BY <1>8, <3>1, <3>4, <3>5, <3>6, <3>7, <3>8 DEF InLine, S
        <3> QED BY <3>9
    <2>5. CASE j = k
        <3>1. 1 \in 1 .. L /\ f[1] = 1
            <4>1. Len(out) >= 1 /\ call[out[1]].k = j  BY <1>2, <1>3, <1>4, <2>5
            <4> QED BY <2>1, <4>1, FirstInLine
        <3>2. conn'[j].pendingNew = Tail(conn[j].pendingNew)
            BY <1>3, <2>5, ConnectionTyped DEF Becomes, Connection
        <3>3. conn[j].pendingNew \in Seq(Sessions) /\ conn[j].pendingNew # <<>>
            <4>1. L # 0  BY <2>2, <3>1
            <4> QED BY <4>1, ConnectionTyped, EmptySeq
        <3>4. PICK K \in Nat : K = L - 1
            <4> HIDE DEF L
            <4>1. L - 1 \in Nat  BY <2>2, <3>1
            <4> QED BY <4>1
        <3>5. /\ Len(conn'[j].pendingNew) = K
              /\ \A i \in 1 .. K : conn'[j].pendingNew[i] = conn[j].pendingNew[i + 1]
            BY <3>2, <3>3, <3>4, HeadTailProperties
        <3> HIDE DEF L
        <3>6. \A i \in 1 .. K : i + 1 \in 1 .. L  BY <2>2, <3>4
        <3>7. ASSUME NEW i \in 1 .. K PROVE f[i + 1] \in 1 .. M + 1 /\ f[i + 1] - 1 \in 1 .. M
            <4>1. f[i + 1] \in 1 .. M + 1 /\ f[1] < f[i + 1]
                <5>1. i + 1 \in 1 .. L /\ 1 < i + 1  BY <3>6
                <5> QED BY <2>3, <3>1, <5>1
            <4> QED BY <1>4, <3>1, <4>1
        <3>8. PICK g : g = [i \in 1 .. K |-> f[i + 1] - 1]  OBVIOUS
        <3>9. g \in [1 .. K -> 1 .. M]  BY <3>7, <3>8
        <3>10. ASSUME NEW i \in 1 .. K, NEW n \in 1 .. K, i < n PROVE g[i] < g[n]
            <4>1. i + 1 \in 1 .. L /\ n + 1 \in 1 .. L  BY <3>6
            <4>5. i + 1 < n + 1
                <5>1. i \in Nat /\ n \in Nat  BY <2>2
                <5> QED BY <3>10, <5>1
            <4>2. f[i + 1] < f[n + 1]  BY <2>3, <4>1, <4>5
            <4>3. f[i + 1] \in Nat /\ f[n + 1] \in Nat
                <5>1. f[i + 1] \in 1 .. M + 1 /\ f[n + 1] \in 1 .. M + 1  BY <3>7
                <5> QED BY <1>4, <5>1
            <4>4. g[i] = f[i + 1] - 1 /\ g[n] = f[n + 1] - 1  BY <3>8
            <4> QED BY <4>2, <4>3, <4>4
        <3>11. ASSUME NEW i \in 1 .. K
               PROVE  call'[out'[g[i]]].k = j /\ S(out'[g[i]]) = conn'[j].pendingNew[i]
            <4>1. g[i] \in 1 .. M /\ g[i] + 1 = f[i + 1]  BY <1>4, <3>7, <3>8
            <4>2. call'[out'[g[i]]] = call[out[f[i + 1]]] /\ out'[g[i]] = out[f[i + 1]]
                BY <1>7, <4>1
            <4> QED BY <2>3, <3>5, <3>6, <4>2
        <3>12. ASSUME NEW n \in 1 .. M, call'[out'[n]].k = j PROVE \E i \in 1 .. K : g[i] = n
            <4>1. call[out[n + 1]].k = j /\ n + 1 \in 1 .. M + 1  BY <1>4, <1>7, <3>12
            <4>2. PICK i \in 1 .. L : f[i] = n + 1  BY <2>3, <4>1
            <4>3. i # 1  BY <3>1, <4>2
            <4>4. i - 1 \in 1 .. K /\ (i - 1) + 1 = i  BY <2>2, <3>4, <4>2, <4>3
            <4>5. g[i - 1] = n  BY <3>8, <4>2, <4>4
            <4> QED BY <4>4, <4>5
        <3> HIDE DEF M
        <3>13. M = Len(out')  BY DEF M
        <3>14. InLine(g, j)'
            BY <1>8, <3>5, <3>9, <3>10, <3>11, <3>12, <3>13 DEF InLine, S
        <3> QED BY <3>14
    <2> QED BY <2>4, <2>5
<1>12. Len(conn') = Len(conn)  BY <1>3 DEF Becomes
<1> QED BY <1>9, <1>10, <1>11, <1>12 DEF Queued, At

LEMMA QueuedStep ==
    ASSUME SdkTypeOK, Wired, Queued, SdkStep
    PROVE  Queued'
<1>1. Grows  BY StepGrows
<1>2. Len(conn) \in Nat /\ Len(conn') \in Nat  BY <1>1 DEF Grows
<1>3. ASSUME NEW c \in Calls, \A d \in Calls : d # c => call'[d] = call[d],
             \A i \in 1 .. Len(out) : out[i] # c
      PROVE  \A i \in 1 .. Len(out) : call'[out[i]] = call[out[i]]
    BY <1>3, CountsTyped
<1>4. ASSUME UNCHANGED <<out, attributed>>, Len(conn') = Len(conn),
             \A i \in 1 .. Len(out) : call'[out[i]] = call[out[i]],
             \A k \in 1 .. Len(conn) : conn'[k].pendingNew = conn[k].pendingNew
      PROVE  Queued'
    <2>1. \A k \in 1 .. Len(conn') : ~(k > Len(conn))  BY <1>2, <1>4
    <2> QED BY <1>1, <1>4, <2>1, QueuedKept
<1>5. ASSUME NEW k \in 1 .. Len(conn), NEW x, Becomes(k, x), x.pendingNew = conn[k].pendingNew
      PROVE  Len(conn') = Len(conn)
             /\ \A j \in 1 .. Len(conn) : conn'[j].pendingNew = conn[j].pendingNew
    BY <1>5 DEF Becomes
<1>6. ASSUME NEW c \in Calls, NEW x \in Call, OnItsOwn(c, x) PROVE Queued'
    <2>1. UNCHANGED <<out, attributed, conn>> /\ \A d \in Calls : d # c => call'[d] = call[d]
        BY <1>6 DEF OnItsOwn, SdkTypeOK
    <2>2. \A i \in 1 .. Len(out) : call'[out[i]] = call[out[i]]
        <3>1. CASE x = call[c]  BY <1>6, <3>1, CountsTyped DEF OnItsOwn, SdkTypeOK
        <3>2. CASE \A i \in 1 .. Len(out) : out[i] # c  BY <1>3, <2>1, <3>2
        <3> QED BY <1>6, <3>1, <3>2 DEF OnItsOwn
    <2> QED BY <1>4, <2>1, <2>2
<1>7. ASSUME NEW c \in Calls, StartDispose(c) \/ PendingSettled(c) PROVE Queued'
    <2>1. UNCHANGED <<out, attributed, conn>> /\ \A d \in Calls : d # c => call'[d] = call[d]
        BY <1>7 DEF StartDispose, PendingSettled, Goto, SdkTypeOK, wireVars, connVars
    <2>2. \A i \in 1 .. Len(out) : out[i] # c
        BY <1>7, NotInOut DEF StartDispose, PendingSettled, At
    <2> QED BY <1>3, <1>4, <2>1, <2>2
<1>8. ASSUME NEW c \in Calls, CloseConnections(c) PROVE Queued'
    <2>1. UNCHANGED <<out, attributed>> /\ \A d \in Calls : d # c => call'[d] = call[d]
        BY <1>8 DEF CloseConnections, Goto, SdkTypeOK, wireVars
    <2>2. \A i \in 1 .. Len(out) : out[i] # c  BY <1>8, NotInOut DEF CloseConnections, At
    <2>3. \A k \in 1 .. Len(conn) : conn'[k].pendingNew = conn[k].pendingNew
        BY <1>8, CloseBecomes, ConnectionTyped DEF Connection
    <2>4. Len(conn') = Len(conn)  BY <1>8, CloseBecomes
    <2> QED BY <1>3, <1>4, <2>1, <2>2, <2>3, <2>4
<1>9. ASSUME NEW c \in Calls, Connects(c) PROVE Queued'
    <2>1. UNCHANGED <<out, attributed>> /\ \A d \in Calls : d # c => call'[d] = call[d]
        BY <1>9 DEF Connects, SdkTypeOK
    <2>2. \A i \in 1 .. Len(out) : out[i] # c  BY <1>9, NotInOut DEF Connects, At
    <2>3. /\ Len(conn') = Len(conn) + 1 /\ conn'[Len(conn) + 1].pendingNew = <<>>
          /\ \A k \in 1 .. Len(conn) : conn'[k] = conn[k]
        BY <1>9, ConnectsBecomes
    <2>4. \A k \in 1 .. Len(conn') : k > Len(conn) => k = Len(conn) + 1  BY <1>2, <2>3
    <2> QED BY <1>1, <1>3, <2>1, <2>2, <2>3, <2>4, QueuedKept
<1>10. ASSUME NEW c \in Calls, NewSessionAnswered(c) PROVE Queued'
    <2>1. UNCHANGED <<out, attributed>> /\ out = <<>>
        BY <1>10 DEF NewSessionAnswered, wireVars
    <2>2. \A i \in 1 .. Len(out) : call'[out[i]] = call[out[i]]
        <3>1. Len(out) = 0 /\ 1 .. 0 = {}  BY <2>1, EmptySeq
        <3> QED BY <3>1
    <2>3. Len(conn') = Len(conn)
          /\ \A j \in 1 .. Len(conn) : conn'[j].pendingNew = conn[j].pendingNew
        <3>1. PICK k \in 1 .. Len(conn) : k = call[c].k  BY <1>10, AnsweredBecomes
        <3> DEFINE x == [conn[k] EXCEPT !.bound =
                            [conn[k].bound EXCEPT ![S(c)] = Len(remote) + 1]]
        <3>2. Becomes(k, x)  BY <1>10, <3>1, AnsweredBecomes
        <3>3. x.pendingNew = conn[k].pendingNew  BY ConnectionTyped DEF Connection
        <3> HIDE DEF x
        <3> QED BY <1>5, <3>2, <3>3
    <2> QED BY <1>4, <2>1, <2>2, <2>3
<1>11. ASSUME NEW c \in Calls, Bind(c) PROVE Queued'
    <2>1. UNCHANGED <<out, attributed>> /\ \A d \in Calls : d # c => call'[d] = call[d]
        BY <1>11, BindMoves DEF Bind, wireVars
    <2>2. \A i \in 1 .. Len(out) : out[i] # c  BY <1>11, NotInOut DEF Bind, At
    <2>3. Len(conn') = Len(conn)
          /\ \A j \in 1 .. Len(conn) : conn'[j].pendingNew = conn[j].pendingNew
        <3>1. PICK k \in 1 .. Len(conn) : k = call[c].k  BY <1>11, BindBecomes
        <3> DEFINE x == [conn[k] EXCEPT
                  !.bound = [conn[k].bound EXCEPT ![S(c)] = call[c].record.agentSessionId],
                  !.replay = IF Kind(c) = "create" THEN conn[k].replay
                             ELSE [conn[k].replay EXCEPT ![S(c)] = TRUE]]
        <3>2. Becomes(k, x)  BY <1>11, <3>1, BindBecomes
        <3>3. x.pendingNew = conn[k].pendingNew  BY ConnectionTyped DEF Connection
        <3> HIDE DEF x
        <3> QED BY <1>5, <3>2, <3>3
    <2> QED BY <1>3, <1>4, <2>1, <2>2, <2>3
<1>12. ASSUME NEW c \in Calls, NEW k \in 1 .. Len(conn), Asks(c, k) PROVE Queued'
    BY <1>1, <1>12, QueuedAsks
<1>13. ASSUME NEW c \in Calls, NEW k \in 1 .. Len(conn), Prompts(c, k) PROVE Queued'
    <2>1. UNCHANGED <<out, attributed>> /\ \A d \in Calls : d # c => call'[d] = call[d]
        BY <1>13 DEF Prompts, Rest, SdkTypeOK
    <2>2. \A i \in 1 .. Len(out) : out[i] # c  BY <1>13, NotInOut DEF Prompts, At
    <2> DEFINE x == [conn[k] EXCEPT !.replay = [conn[k].replay EXCEPT ![S(c)] = FALSE]]
    <2>3. Becomes(k, x)  BY <1>13, PromptsBecomes
    <2>4. x.pendingNew = conn[k].pendingNew  BY ConnectionTyped DEF Connection
    <2> HIDE DEF x
    <2>5. Len(conn') = Len(conn)
          /\ \A j \in 1 .. Len(conn) : conn'[j].pendingNew = conn[j].pendingNew
        BY <1>5, <2>3, <2>4
    <2> QED BY <1>3, <1>4, <2>1, <2>2, <2>5
<1>14. ASSUME NEW k \in 1 .. Len(conn),
              ConnectionOpens(k) \/ ConnectionFails(k) \/ ConnectionBreaks(k)
       PROVE  Queued'
    <2>1. UNCHANGED <<out, attributed, call>>
        BY <1>14 DEF ConnectionOpens, ConnectionFails, ConnectionBreaks, wireVars, callVars
    <2>2. Len(conn') = Len(conn)
          /\ \A j \in 1 .. Len(conn) : conn'[j].pendingNew = conn[j].pendingNew
        <3>1. conn[k] \in Connection  BY ConnectionTyped
        <3>2. ASSUME NEW s, Becomes(k, [conn[k] EXCEPT !.state = s])
              PROVE  Len(conn') = Len(conn)
                     /\ \A j \in 1 .. Len(conn) : conn'[j].pendingNew = conn[j].pendingNew
            <4>1. [conn[k] EXCEPT !.state = s].pendingNew = conn[k].pendingNew
                BY <3>1 DEF Connection
            <4> QED BY <1>5, <3>2, <4>1
        <3>3. ASSUME NEW s, NEW r, Becomes(k, [conn[k] EXCEPT !.state = s, !.result = r])
              PROVE  Len(conn') = Len(conn)
                     /\ \A j \in 1 .. Len(conn) : conn'[j].pendingNew = conn[j].pendingNew
            <4>1. [conn[k] EXCEPT !.state = s, !.result = r].pendingNew = conn[k].pendingNew
                BY <3>1 DEF Connection
            <4> QED BY <1>5, <3>3, <4>1
        <3>4. CASE ConnectionOpens(k)
            <4>1. live # 0 => Becomes(k, [conn[k] EXCEPT !.state = "closed", !.result = live])
                BY <3>4, OpensBecomes
            <4>2. live = 0 => Becomes(k, [conn[k] EXCEPT !.state = "open", !.result = k])
                BY <3>4, OpensBecomes
            <4> QED BY <3>3, <4>1, <4>2
        <3>5. CASE ConnectionFails(k) \/ ConnectionBreaks(k)
            <4>1. PICK s \in {"failed", "orphaned", "broken"} : Becomes(k, [conn[k] EXCEPT !.state = s])
                BY <3>5, StateBecomes DEF ConnectionFails, ConnectionBreaks, Unmade
            <4> QED BY <3>2, <4>1
        <3> QED BY <1>14, <3>4, <3>5
    <2> QED BY <1>4, <2>1, <2>2
<1>15. CASE Emit  BY <1>1, <1>15, QueuedEmit
<1> QED BY <1>6, <1>7, <1>8, <1>9, <1>10, <1>11, <1>12, <1>13, <1>14, <1>15 DEF SdkStep

-----------------------------------------------------------------------------
(* What a dispose() has still to close.                                     *)

\* The result of an attempt to connect, once there is one, stays.
Settles ==
    \A p \in 1 .. Len(conn) :
        conn[p].state \notin {"opening", "failed", "orphaned"} =>
            conn'[p].state \notin {"opening", "failed", "orphaned"} /\ conn'[p].result = conn[p].result

\* What a dispose() holds it keeps, as long as it does not move.
LEMMA HoldKept ==
    ASSUME SdkTypeOK, Wired, Settles, NEW c \in Calls, call'[c].pc = call[c].pc,
           dispose'[c] = dispose[c], NEW k \in Nat
    PROVE  /\ TakenBy(c, k) => TakenBy(c, k)'
           /\ AwaitedBy(c, k) => AwaitedBy(c, k)'
<1>1. dispose[c].pending \in Nat /\ dispose[c].pending <= Len(conn) /\ Len(conn) \in Nat
    BY SdkAssumption, CountsTyped DEF SdkTypeOK, Wired, CallWired
<1>2. ASSUME TakenBy(c, k) PROVE TakenBy(c, k)'
    <2>1. CASE call[c].pc \in {"settling", "closing"} /\ k \in dispose[c].taken
        BY <2>1 DEF TakenBy
    <2>2. CASE /\ At(c, "settling") /\ dispose[c].pending # 0
               /\ conn[dispose[c].pending].state \notin {"opening", "failed", "orphaned"}
               /\ conn[dispose[c].pending].result = k
        <3>1. dispose[c].pending \in 1 .. Len(conn)  BY <1>1, <2>2
        <3> QED BY <2>2, <3>1 DEF TakenBy, Settles, At
    <2> QED BY <1>2, <2>1, <2>2 DEF TakenBy
<1>3. AwaitedBy(c, k) => AwaitedBy(c, k)'  BY DEF AwaitedBy, At
<1> QED BY <1>2, <1>3

\* No dispose() moves.
LEMMA NoneMoves ==
    ASSUME SdkTypeOK, Wired, Grows, Settles, UNCHANGED dispose,
           \A c \in Calls : Kind(c) = "dispose" => call'[c].pc = call[c].pc
    PROVE  /\ \A c \in Calls, k \in Nat : (TakenBy(c, k) => TakenBy(c, k)')
                                          /\ (AwaitedBy(c, k) => AwaitedBy(c, k)')
           /\ \A k \in Nat : After(k) => After(k)'
<1>1. ASSUME NEW c \in Calls, NEW k \in Nat
      PROVE  (TakenBy(c, k) => TakenBy(c, k)') /\ (AwaitedBy(c, k) => AwaitedBy(c, k)')
    <2>1. CASE Kind(c) = "dispose"  BY <1>1, <2>1, HoldKept
    <2>2. CASE Kind(c) # "dispose"
        <3>1. call[c].pc \notin {"settling", "closing"}  BY <2>2 DEF Wired, CallWired
        <3> QED BY <3>1 DEF TakenBy, AwaitedBy, At
    <2> QED BY <2>1, <2>2
<1>2. ASSUME NEW k \in Nat, After(k) PROVE After(k)'
    BY <1>2 DEF After, Grows, Kind, At
<1> QED BY <1>1, <1>2

\* Nothing that matters to a dispose() changes.
LEMMA AccountedKept ==
    ASSUME SdkTypeOK, Wired, Accounted, Grows, Len(conn') = Len(conn),
           UNCHANGED <<live, opening, dispose>>,
           \A c \in Calls : Kind(c) = "dispose" => call'[c].pc = call[c].pc,
           \A k \in 1 .. Len(conn) :
               conn'[k].state = conn[k].state /\ conn'[k].result = conn[k].result
    PROVE  Accounted'
<1>1. Settles  BY DEF Settles
<1>2. /\ \A c \in Calls, k \in Nat : (TakenBy(c, k) => TakenBy(c, k)')
                                     /\ (AwaitedBy(c, k) => AwaitedBy(c, k)')
      /\ \A k \in Nat : After(k) => After(k)'
    BY <1>1, NoneMoves
<1>3. ASSUME NEW k \in 1 .. Len(conn), conn'[k].state = "open"
      PROVE  (live' = k /\ After(k)') \/ \E c \in Calls : TakenBy(c, k)'
    <2>1. k \in Nat /\ conn[k].state = "open"  BY <1>3
    <2>2. (live = k /\ After(k)) \/ \E c \in Calls : TakenBy(c, k)  BY <2>1 DEF Accounted
    <2> QED BY <1>2, <2>1, <2>2
<1>4. ASSUME NEW k \in 1 .. Len(conn), conn'[k].state = "opening"
      PROVE  (opening' = k /\ After(k)') \/ \E c \in Calls : AwaitedBy(c, k)'
    <2>1. k \in Nat /\ conn[k].state = "opening"  BY <1>4
    <2>2. (opening = k /\ After(k)) \/ \E c \in Calls : AwaitedBy(c, k)  BY <2>1 DEF Accounted
    <2> QED BY <1>2, <2>1, <2>2
<1> QED BY <1>3, <1>4 DEF Accounted

\* A connection changes: k, and what a dispose() holds of it.
LEMMA AccountedChange ==
    ASSUME SdkTypeOK, Wired, Accounted, Grows, Settles, Len(conn') = Len(conn),
           UNCHANGED <<dispose, call>>, NEW k \in 1 .. Len(conn),
           \A j \in 1 .. Len(conn) : j # k => conn'[j] = conn[j],
           \A j \in 1 .. Len(conn) : j # k =>
               /\ live = j => live' = j
               /\ opening = j => opening' = j,
           conn'[k].state # "opening",
           conn'[k].state = "open" => (live' = k /\ After(k)) \/ \E c \in Calls : TakenBy(c, k)'
    PROVE  Accounted'
<1>1. /\ \A c \in Calls, j \in Nat : (TakenBy(c, j) => TakenBy(c, j)')
                                     /\ (AwaitedBy(c, j) => AwaitedBy(c, j)')
      /\ \A j \in Nat : After(j) => After(j)'
    BY NoneMoves
<1>2. ASSUME NEW j \in 1 .. Len(conn), conn'[j].state = "open"
      PROVE  (live' = j /\ After(j)') \/ \E c \in Calls : TakenBy(c, j)'
    <2>1. CASE j = k  BY <1>1, <1>2, <2>1
    <2>2. CASE j # k
        <3>1. (live = j /\ After(j)) \/ \E c \in Calls : TakenBy(c, j)
            BY <1>2, <2>2 DEF Accounted
        <3> QED BY <1>1, <2>2, <3>1
    <2> QED BY <2>1, <2>2
<1>3. ASSUME NEW j \in 1 .. Len(conn), conn'[j].state = "opening"
      PROVE  (opening' = j /\ After(j)') \/ \E c \in Calls : AwaitedBy(c, j)'
    <2>1. j # k  BY <1>3
    <2>2. (opening = j /\ After(j)) \/ \E c \in Calls : AwaitedBy(c, j)
        BY <1>3, <2>1 DEF Accounted
    <2> QED BY <1>1, <2>1, <2>2
<1> QED BY <1>2, <1>3 DEF Accounted

LEMMA AccountedConnects ==
    ASSUME SdkTypeOK, Wired, Accounted, Grows, NEW c \in Calls, Connects(c)
    PROVE  Accounted'
<1>1. PICK n \in Nat : n = Len(conn) + 1  BY CountsTyped
<1>2. /\ Len(conn) \in Nat /\ Len(conn') = n /\ \A k \in 1 .. Len(conn) : conn'[k] = conn[k]
      /\ conn'[n].state = "opening"
    BY <1>1, ConnectsBecomes, CountsTyped
<1>3. live = 0 /\ live' = 0 /\ opening = 0 /\ opening' = n /\ UNCHANGED dispose
    BY <1>1 DEF Connects
<1>4. Kind(c) # "dispose"  BY NotDisposing DEF Connects, At
<1>5. \A d \in Calls : d # c => call'[d] = call[d]  BY DEF Connects, SdkTypeOK
<1>6. Settles  BY <1>2 DEF Settles
<1>7. /\ \A d \in Calls, k \in Nat : (TakenBy(d, k) => TakenBy(d, k)')
                                     /\ (AwaitedBy(d, k) => AwaitedBy(d, k)')
      /\ \A k \in Nat : After(k) => After(k)'
    BY <1>3, <1>4, <1>5, <1>6, NoneMoves
<1>8. After(n)'
    <2>1. ASSUME NEW d \in Calls PROVE dispose[d].before < n
        <3>1. dispose[d].before \in Nat /\ dispose[d].before <= Len(conn)
            BY SdkAssumption DEF SdkTypeOK, Wired, CallWired
        <3> QED BY <1>1, <1>2, <3>1
    <2>2. After(n)  BY <2>1 DEF After
    <2> QED BY <1>7, <2>2
<1>9. ASSUME NEW k \in 1 .. n, k # n PROVE k \in 1 .. Len(conn) /\ k \in Nat /\ k # 0
    BY <1>1, <1>2, <1>9
<1>10. ASSUME NEW k \in 1 .. n, conn'[k].state = "open"
       PROVE  \E d \in Calls : TakenBy(d, k)'
    <2>1. k # n  BY <1>2, <1>10
    <2>2. conn[k].state = "open" /\ live # k  BY <1>2, <1>3, <1>9, <1>10, <2>1
    <2>3. \E d \in Calls : TakenBy(d, k)  BY <1>9, <2>1, <2>2 DEF Accounted
    <2> QED BY <1>7, <1>9, <2>1, <2>3
<1>11. ASSUME NEW k \in 1 .. n, conn'[k].state = "opening"
       PROVE  (opening' = k /\ After(k)') \/ \E d \in Calls : AwaitedBy(d, k)'
    <2>1. CASE k = n  BY <1>3, <1>8, <2>1
    <2>2. CASE k # n
        <3>1. conn[k].state = "opening" /\ opening # k  BY <1>2, <1>3, <1>9, <1>11, <2>2
        <3>2. \E d \in Calls : AwaitedBy(d, k)  BY <1>9, <2>2, <3>1 DEF Accounted
        <3> QED BY <1>7, <1>9, <2>2, <3>2
    <2> QED BY <2>1, <2>2
<1> QED BY <1>2, <1>10, <1>11 DEF Accounted

\* The connection is live, or a dispose() that waited for it has it to close.
LEMMA AccountedOpens ==
    ASSUME SdkTypeOK, Wired, Accounted, Grows, NEW k \in 1 .. Len(conn),
           ConnectionOpens(k) \/ ConnectionFails(k) \/ ConnectionBreaks(k)
    PROVE  Accounted'
<1>1. conn[k] \in Connection /\ k \in Nat /\ live \in Nat  BY ConnectionTyped, CountsTyped
<1>2. UNCHANGED <<dispose, call>>
    BY DEF ConnectionOpens, ConnectionFails, ConnectionBreaks, callVars
<1>3. ASSUME NEW x, Becomes(k, x),
             conn[k].state \notin {"opening", "failed", "orphaned"}
             => x.state \notin {"opening", "failed", "orphaned"} /\ x.result = conn[k].result
      PROVE  Settles /\ Len(conn') = Len(conn)
             /\ \A j \in 1 .. Len(conn) : j # k => conn'[j] = conn[j]
    BY <1>3 DEF Settles, Becomes
<1>4. CASE ConnectionOpens(k) /\ live # 0
    <2> DEFINE x == [conn[k] EXCEPT !.state = "closed", !.result = live]
    <2>1. Becomes(k, x)  BY <1>4, OpensBecomes
    <2>2. x.state = "closed"  BY <1>1 DEF Connection
    <2>3. conn[k].state = "opening"  BY <1>4 DEF ConnectionOpens
    <2> HIDE DEF x
    <2>4. conn'[k].state = "closed"  BY <2>1, <2>2 DEF Becomes
    <2>5. Settles /\ Len(conn') = Len(conn)
          /\ \A j \in 1 .. Len(conn) : j # k => conn'[j] = conn[j]
        BY <1>3, <2>1, <2>3
    <2>6. \A j \in 1 .. Len(conn) : j # k => /\ live = j => live' = j
                                             /\ opening = j => opening' = j
        BY <1>4 DEF ConnectionOpens
    <2> QED BY <1>2, <2>4, <2>5, <2>6, AccountedChange
<1>5. CASE ConnectionOpens(k) /\ live = 0
    <2> DEFINE x == [conn[k] EXCEPT !.state = "open", !.result = k]
    <2>1. Becomes(k, x)  BY <1>5, OpensBecomes
    <2>2. x.state = "open" /\ x.result = k  BY <1>1 DEF Connection
    <2>3. conn[k].state = "opening"  BY <1>5 DEF ConnectionOpens
    <2> HIDE DEF x
    <2>4. conn'[k].state = "open" /\ conn'[k].result = k  BY <2>1, <2>2 DEF Becomes
    <2>5. Settles /\ Len(conn') = Len(conn)
          /\ \A j \in 1 .. Len(conn) : j # k => conn'[j] = conn[j]
        BY <1>3, <2>1, <2>3
    <2>6. live' = k
          /\ \A j \in 1 .. Len(conn) : j # k => /\ live = j => live' = j
                                                /\ opening = j => opening' = j
        BY <1>5 DEF ConnectionOpens
    <2>7. ASSUME NEW c \in Calls, AwaitedBy(c, k) PROVE TakenBy(c, k)'
        <3>1. At(c, "settling")' /\ dispose'[c].pending = k /\ k # 0
            BY <1>1, <1>2, <2>7 DEF AwaitedBy, At
        <3> QED BY <2>4, <3>1 DEF TakenBy
    <2>8. After(k) \/ \E c \in Calls : AwaitedBy(c, k)  BY <2>3 DEF Accounted
    <2>9. (live' = k /\ After(k)) \/ \E c \in Calls : TakenBy(c, k)'
        BY <2>6, <2>7, <2>8
    <2> QED BY <1>2, <2>4, <2>5, <2>6, <2>9, AccountedChange
<1>6. CASE ConnectionFails(k) \/ ConnectionBreaks(k)
    <2>1. PICK s \in {"failed", "orphaned", "broken"} :
             /\ Becomes(k, [conn[k] EXCEPT !.state = s])
             /\ s # "broken" => conn[k].state = "opening"
        BY <1>6, StateBecomes DEF ConnectionFails, ConnectionBreaks, Unmade
    <2> DEFINE x == [conn[k] EXCEPT !.state = s]
    <2>2. x.state = s /\ x.result = conn[k].result /\ Becomes(k, x)  BY <1>1, <2>1 DEF Connection
    <2> HIDE DEF x
    <2>3. conn'[k].state = s  BY <2>2 DEF Becomes
    <2>4. Settles /\ Len(conn') = Len(conn)
          /\ \A j \in 1 .. Len(conn) : j # k => conn'[j] = conn[j]
        BY <1>3, <2>1, <2>2
    <2>5. \A j \in 1 .. Len(conn) : j # k => /\ live = j => live' = j
                                             /\ opening = j => opening' = j
        BY <1>6 DEF ConnectionFails, ConnectionBreaks
    <2> QED BY <1>2, <2>3, <2>4, <2>5, AccountedChange
<1> QED BY <1>4, <1>5, <1>6

\* What was live or was being made is what the dispose() took.
LEMMA AccountedDisposes ==
    ASSUME SdkTypeOK, Wired, Accounted, Grows, NEW c \in Calls, StartDispose(c)
    PROVE  Accounted'
<1>1. /\ call'[c].pc = "settling" /\ dispose'[c].taken = {live} \ {0}
      /\ dispose'[c].pending = opening
      /\ \A d \in Calls : d # c => call'[d] = call[d] /\ dispose'[d] = dispose[d]
    BY CallTyped DEF StartDispose, Goto, SdkTypeOK, Call
<1>2. conn' = conn /\ live \in Nat /\ opening \in Nat
    BY CountsTyped DEF StartDispose
<1>3. Settles  BY <1>2 DEF Settles
<1>4. ASSUME NEW d \in Calls, d # c, NEW k \in Nat
      PROVE  (TakenBy(d, k) => TakenBy(d, k)') /\ (AwaitedBy(d, k) => AwaitedBy(d, k)')
    BY <1>1, <1>3, <1>4, HoldKept
<1>5. \A k \in Nat : ~TakenBy(c, k) /\ ~AwaitedBy(c, k)
    BY DEF StartDispose, At, TakenBy, AwaitedBy
<1>6. ASSUME NEW k \in 1 .. Len(conn), conn[k].state = "open"
      PROVE  \E d \in Calls : TakenBy(d, k)'
    <2>1. CASE live = k
        <3>1. k \in dispose'[c].taken  BY <1>1, <2>1
        <3>2. TakenBy(c, k)'  BY <1>1, <3>1 DEF TakenBy
        <3> QED BY <3>2
    <2>2. CASE live # k
        <3>1. PICK d \in Calls : TakenBy(d, k)  BY <1>6, <2>2 DEF Accounted
        <3> QED BY <1>4, <1>5, <3>1
    <2> QED BY <2>1, <2>2
<1>7. ASSUME NEW k \in 1 .. Len(conn), conn[k].state = "opening"
      PROVE  \E d \in Calls : AwaitedBy(d, k)'
    <2>1. CASE opening = k
        <3>1. AwaitedBy(c, k)'  BY <1>1, <2>1 DEF AwaitedBy, At
        <3> QED BY <3>1
    <2>2. CASE opening # k
        <3>1. PICK d \in Calls : AwaitedBy(d, k)  BY <1>7, <2>2 DEF Accounted
        <3> QED BY <1>4, <1>5, <3>1
    <2> QED BY <2>1, <2>2
<1> QED BY <1>2, <1>6, <1>7 DEF Accounted

\* A dispose() that goes on: its connections are closed only then.
LEMMA AccountedCloses ==
    ASSUME SdkTypeOK, Wired, Accounted, Grows, NEW c \in Calls,
           PendingSettled(c) \/ CloseConnections(c)
    PROVE  Accounted'
<1>1. \A d \in Calls : d # c => call'[d] = call[d] /\ dispose'[d] = dispose[d]
    BY DEF PendingSettled, CloseConnections, Goto, SdkTypeOK
<1>2. dispose'[c].before = dispose[c].before
    BY DEF PendingSettled, CloseConnections, SdkTypeOK
<1>3. UNCHANGED <<live, opening>> /\ Len(conn') = Len(conn)
    BY CloseBecomes DEF PendingSettled, CloseConnections, connVars
<1>4. \A k \in 1 .. Len(conn) :
         \/ conn'[k] = conn[k]
         \/ /\ CloseConnections(c) /\ k \in dispose[c].taken /\ conn[k].state = "open"
            /\ conn'[k].state = "closed" /\ conn'[k].result = conn[k].result
    <2>1. CASE PendingSettled(c)  BY <2>1 DEF PendingSettled, connVars
    <2>2. CASE CloseConnections(c)
        <3>1. ASSUME NEW k \in 1 .. Len(conn)
              PROVE  /\ [conn[k] EXCEPT !.state = "closed"].state = "closed"
                     /\ [conn[k] EXCEPT !.state = "closed"].result = conn[k].result
            BY ConnectionTyped DEF Connection
        <3>2. ASSUME NEW k \in 1 .. Len(conn)
              PROVE  \/ conn'[k] = conn[k]
                     \/ /\ k \in dispose[c].taken /\ conn[k].state = "open"
                        /\ conn'[k].state = "closed" /\ conn'[k].result = conn[k].result
            <4>1. conn'[k] = IF k \in dispose[c].taken /\ conn[k].state = "open"
                             THEN [conn[k] EXCEPT !.state = "closed"] ELSE conn[k]
                BY <2>2, CloseBecomes
            <4> QED BY <3>1, <4>1
        <3> QED BY <2>2, <3>2
    <2> QED BY <2>1, <2>2
<1>5. Settles  BY <1>4 DEF Settles
<1>6. ASSUME NEW d \in Calls, d # c, NEW k \in Nat
      PROVE  (TakenBy(d, k) => TakenBy(d, k)') /\ (AwaitedBy(d, k) => AwaitedBy(d, k)')
    BY <1>1, <1>5, <1>6, HoldKept
<1>7. ~At(c, "idle")  BY DEF PendingSettled, CloseConnections, At
<1>8. ASSUME NEW k \in Nat, After(k) PROVE After(k)'
    <2>1. Kind(c) = "dispose"  BY DEF PendingSettled, CloseConnections, At, Wired, CallWired
    <2>2. dispose[c].before < k  BY <1>7, <1>8, <2>1 DEF After
    <2>3. ASSUME NEW d \in Calls, Kind(d)' = "dispose", ~At(d, "idle")'
          PROVE  dispose'[d].before < k
        <3>1. CASE d = c  BY <1>2, <2>2, <3>1
        <3>2. CASE d # c
            <4>1. Kind(d) = "dispose" /\ ~At(d, "idle") /\ dispose'[d] = dispose[d]
                BY <1>1, <2>3, <3>2 DEF Kind, At, Grows
            <4> QED BY <1>8, <4>1 DEF After
        <3> QED BY <3>1, <3>2
    <2> QED BY <2>3 DEF After
<1>9. ASSUME NEW k \in 1 .. Len(conn), conn'[k].state = "open"
      PROVE  (live' = k /\ After(k)') \/ \E d \in Calls : TakenBy(d, k)'
    <2>1. conn[k].state = "open" /\ k \in Nat /\ conn'[k] = conn[k]  BY <1>4, <1>9
    <2>2. CASE live = k /\ After(k)  BY <1>3, <1>8, <2>1, <2>2
    <2>3. ASSUME NEW d \in Calls, d # c, TakenBy(d, k) PROVE \E e \in Calls : TakenBy(e, k)'
        BY <1>6, <2>1, <2>3
    <2>4. CASE TakenBy(c, k) /\ PendingSettled(c)
        <3>1. call'[c].pc = "closing"
            BY <2>4, CallTyped DEF PendingSettled, Goto, SdkTypeOK, Call, TakenBy, At
        <3>4. dispose'[c].taken =
                IF dispose[c].pending # 0 /\ conn[dispose[c].pending].state \notin Unmade
                THEN dispose[c].taken \cup {conn[dispose[c].pending].result}
                ELSE dispose[c].taken
            <4> DEFINE R == IF dispose[c].pending # 0 /\ conn[dispose[c].pending].state \notin Unmade
                            THEN dispose[c].taken \cup {conn[dispose[c].pending].result}
                            ELSE dispose[c].taken
            <4>1. dispose' = [dispose EXCEPT ![c].taken = R]
                BY <2>4 DEF PendingSettled
            <4> HIDE DEF R
            <4>2. dispose'[c].taken = R  BY <4>1 DEF SdkTypeOK
            <4> QED BY <4>2 DEF R
        <3>5. k \in dispose'[c].taken  BY <2>4, <3>4 DEF TakenBy, Unmade, At
        <3>2. TakenBy(c, k)'  BY <3>1, <3>5 DEF TakenBy
        <3> QED BY <3>2
    <2>5. CASE TakenBy(c, k) /\ CloseConnections(c)
        <3>1. k \in dispose[c].taken  BY <2>5 DEF CloseConnections, TakenBy, At
        <3>2. conn'[k] = [conn[k] EXCEPT !.state = "closed"]  BY <2>1, <2>5, <3>1, CloseBecomes
        <3>3. [conn[k] EXCEPT !.state = "closed"].state = "closed"
            BY ConnectionTyped DEF Connection
        <3> QED BY <1>9, <3>2, <3>3
    <2>6. (live = k /\ After(k)) \/ \E d \in Calls : TakenBy(d, k)  BY <2>1 DEF Accounted
    <2> QED BY <2>2, <2>3, <2>4, <2>5, <2>6
<1>10. ASSUME NEW k \in 1 .. Len(conn), conn'[k].state = "opening"
       PROVE  (opening' = k /\ After(k)') \/ \E d \in Calls : AwaitedBy(d, k)'
    <2>1. conn[k].state = "opening" /\ k \in Nat /\ k # 0  BY <1>4, <1>10
    <2>2. CASE opening = k /\ After(k)  BY <1>3, <1>8, <2>1, <2>2
    <2>3. ASSUME NEW d \in Calls, AwaitedBy(d, k) PROVE AwaitedBy(d, k)'
        <3>1. d # c  BY <2>1, <2>3 DEF AwaitedBy, PendingSettled, CloseConnections, At
        <3> QED BY <1>6, <2>1, <2>3, <3>1
    <2>4. (opening = k /\ After(k)) \/ \E d \in Calls : AwaitedBy(d, k)
        BY <2>1 DEF Accounted
    <2> QED BY <2>2, <2>3, <2>4
<1> QED BY <1>3, <1>9, <1>10 DEF Accounted

LEMMA AccountedStep ==
    ASSUME SdkTypeOK, Wired, Queued, Accounted, SdkStep
    PROVE  Accounted'
<1>1. Grows  BY StepGrows
<1>2. ASSUME NEW c \in Calls, Kind(c) # "dispose", \A d \in Calls : d # c => call'[d] = call[d],
             UNCHANGED <<live, opening, dispose>>, NEW k \in 1 .. Len(conn), NEW x, Becomes(k, x),
             x.state = conn[k].state, x.result = conn[k].result
      PROVE  Accounted'
    <2>1. \A d \in Calls : Kind(d) = "dispose" => call'[d].pc = call[d].pc  BY <1>2
    <2>2. Len(conn') = Len(conn)
          /\ \A j \in 1 .. Len(conn) :
                conn'[j].state = conn[j].state /\ conn'[j].result = conn[j].result
        BY <1>2 DEF Becomes
    <2> QED BY <1>1, <1>2, <2>1, <2>2, AccountedKept
<1>3. ASSUME NEW c \in Calls, NEW x \in Call, OnItsOwn(c, x) PROVE Accounted'
    <2>1. /\ UNCHANGED <<conn, live, opening, dispose>>
          /\ call'[c] = x /\ \A d \in Calls : d # c => call'[d] = call[d]
        BY <1>3 DEF OnItsOwn, SdkTypeOK
    <2>2. \A d \in Calls : Kind(d) = "dispose" => call'[d].pc = call[d].pc
        BY <1>3, <2>1 DEF OnItsOwn
    <2> QED BY <1>1, <2>1, <2>2, AccountedKept
<1>4. ASSUME NEW c \in Calls, NewSessionAnswered(c) PROVE Accounted'
    <2>1. PICK k \in 1 .. Len(conn) : k = call[c].k  BY <1>4, AnsweredBecomes
    <2> DEFINE x == [conn[k] EXCEPT !.bound = [conn[k].bound EXCEPT ![S(c)] = Len(remote) + 1]]
    <2>2. Becomes(k, x)  BY <1>4, <2>1, AnsweredBecomes
    <2>3. x.state = conn[k].state /\ x.result = conn[k].result
        BY ConnectionTyped DEF Connection
    <2> HIDE DEF x
    <2>4. Kind(c) # "dispose"  BY <1>4, NotDisposing DEF NewSessionAnswered, At
    <2>5. UNCHANGED <<live, opening, dispose>> /\ \A d \in Calls : d # c => call'[d] = call[d]
        BY <1>4 DEF NewSessionAnswered, SdkTypeOK
    <2> QED BY <1>2, <2>2, <2>3, <2>4, <2>5
<1>5. ASSUME NEW c \in Calls, Bind(c) PROVE Accounted'
    <2>1. PICK k \in 1 .. Len(conn) : k = call[c].k  BY <1>5, BindBecomes
    <2> DEFINE x == [conn[k] EXCEPT
                  !.bound = [conn[k].bound EXCEPT ![S(c)] = call[c].record.agentSessionId],
                  !.replay = IF Kind(c) = "create" THEN conn[k].replay
                             ELSE [conn[k].replay EXCEPT ![S(c)] = TRUE]]
    <2>2. Becomes(k, x)  BY <1>5, <2>1, BindBecomes
    <2>3. x.state = conn[k].state /\ x.result = conn[k].result
        BY ConnectionTyped DEF Connection
    <2> HIDE DEF x
    <2>4. Kind(c) # "dispose"  BY <1>5, NotDisposing DEF Bind, At
    <2>5. UNCHANGED <<live, opening, dispose>> /\ \A d \in Calls : d # c => call'[d] = call[d]
        BY <1>5, BindMoves DEF Bind
    <2> QED BY <1>2, <2>2, <2>3, <2>4, <2>5
<1>6. ASSUME NEW c \in Calls, NEW k \in 1 .. Len(conn), Asks(c, k) PROVE Accounted'
    <2> DEFINE x == [conn[k] EXCEPT !.pendingNew = Append(conn[k].pendingNew, S(c))]
    <2>1. Becomes(k, x)  BY <1>6, AsksBecomes DEF Asks
    <2>2. x.state = conn[k].state /\ x.result = conn[k].result
        BY ConnectionTyped DEF Connection
    <2> HIDE DEF x
    <2>3. Kind(c) # "dispose"  BY <1>6, NotDisposing DEF Asks
    <2>4. UNCHANGED <<live, opening, dispose>> /\ \A d \in Calls : d # c => call'[d] = call[d]
        BY <1>6 DEF Asks, AskNew, Rest, SdkTypeOK
    <2> QED BY <1>2, <2>1, <2>2, <2>3, <2>4
<1>7. ASSUME NEW c \in Calls, NEW k \in 1 .. Len(conn), Prompts(c, k) PROVE Accounted'
    <2> DEFINE x == [conn[k] EXCEPT !.replay = [conn[k].replay EXCEPT ![S(c)] = FALSE]]
    <2>1. Becomes(k, x)  BY <1>7, PromptsBecomes
    <2>2. x.state = conn[k].state /\ x.result = conn[k].result
        BY ConnectionTyped DEF Connection
    <2> HIDE DEF x
    <2>3. Kind(c) # "dispose"  BY <1>7 DEF Prompts
    <2>4. UNCHANGED <<live, opening, dispose>> /\ \A d \in Calls : d # c => call'[d] = call[d]
        BY <1>7 DEF Prompts, Rest, SdkTypeOK
    <2> QED BY <1>2, <2>1, <2>2, <2>3, <2>4
<1>8. CASE Emit
    <2>1. PICK c \in Calls : c = Head(out)  BY <1>8, EmitBecomes
    <2>2. PICK k \in 1 .. Len(conn) : k = call[c].k  BY <1>8, <2>1, EmitBecomes
    <2> DEFINE x == [conn[k] EXCEPT !.pendingNew = Tail(conn[k].pendingNew)]
    <2>3. At(c, "creating") /\ Becomes(k, x) /\ (UNCHANGED call \/ Rejected(c))
        BY <1>8, <2>1, <2>2, EmitBecomes
    <2>4. x.state = conn[k].state /\ x.result = conn[k].result
        BY ConnectionTyped DEF Connection
    <2> HIDE DEF x
    <2>5. Kind(c) # "dispose"  BY <2>3, NotDisposing DEF At
    <2>6. UNCHANGED <<live, opening, dispose>>  BY <1>8 DEF Emit
    <2>7. \A d \in Calls : d # c => call'[d] = call[d]
        BY <2>3 DEF Rejected, Goto, SdkTypeOK
    <2> QED BY <1>2, <2>3, <2>4, <2>5, <2>6, <2>7
<1> QED BY <1>1, <1>3, <1>4, <1>5, <1>6, <1>7, <1>8, AccountedConnects, AccountedOpens,
           AccountedDisposes, AccountedCloses
        DEF SdkStep

-----------------------------------------------------------------------------
(* The history that is still to be given.                                   *)

\* The call c is not about to bind a session, or still binds the same.
Unmoved(c) ==
    /\ call'[c].pc \in {"writing", "binding"} <=> call[c].pc \in {"writing", "binding"}
    /\ call[c].pc \in {"writing", "binding"} =>
          call'[c].k = call[c].k /\ call'[c].record = call[c].record

LEMMA QuietBefore ==
    ASSUME Grows, \A c \in Calls : alone'[c] => alone[c], NEW s
    PROVE  Quiet(s)' => Quiet(s)
BY DEF Quiet, Grows, S

LEMMA OverlappedKept ==
    ASSUME Overlapped, Grows, UNCHANGED alone, \A c \in Calls : Busy(c)' => Busy(c)
    PROVE  Overlapped'
<1> SUFFICES ASSUME NEW c \in Calls, NEW d \in Calls, Busy(c)', Busy(d)', S(c)' = S(d)', c # d
             PROVE  ~alone'[c]
    BY DEF Overlapped
<1>1. S(c) = S(d)  BY DEF Grows, S
<1> QED BY <1>1 DEF Overlapped

LEMMA RecordedKept ==
    ASSUME Recorded, Grows,
           \A s \in Sessions : store'[s] = None => store[s] = None,
           \A c \in Calls : At(c, "binding")' => store'[S(c)] # None,
           \A k \in 1 .. Len(conn'), s \in Sessions :
               conn'[k].replay[s] =>
                   store[s] # None \/ (k \in 1 .. Len(conn) /\ conn[k].replay[s])
    PROVE  Recorded'
<1>1. ASSUME NEW s \in Sessions, store'[s] = None PROVE NothingToReplay(s)'
    BY <1>1 DEF Recorded, NothingToReplay
<1>2. \A c \in Calls : At(c, "binding")' => store'[S(c)'] # None  BY DEF Grows, S
<1> QED BY <1>1, <1>2 DEF Recorded

\* A session that the step does not touch.
LEMMA SessionKept ==
    ASSUME SdkTypeOK, Wired, Grows, NEW s \in Sessions, QuietSession(s),
           \A c \in Calls : S(c) = s => Unmoved(c),
           \A c \in Calls : S(c) = s /\ Kind(c) = "create" /\ Busy(c)'
                            => Busy(c) \/ NothingToReplay(s),
           \A k \in 1 .. Len(conn) : /\ conn'[k].replay[s] = conn[k].replay[s]
                                     /\ conn'[k].bound[s] = conn[k].bound[s],
           \A k \in 1 .. Len(conn') : k > Len(conn) =>
               conn'[k].bound[s] = 0 /\ ~conn'[k].replay[s],
           \A i \in 1 .. Len(remote) :
               remote[i].local = s => remote'[i].prompts = remote[i].prompts
    PROVE  QuietSession(s)'
<1>1. job' = job /\ Len(conn) \in Nat /\ Len(conn') \in Nat  BY DEF Grows
<1>2. ASSUME NothingToReplay(s) PROVE NothingToReplay(s)'
    <2>1. ASSUME NEW k \in 1 .. Len(conn') PROVE ~conn'[k].replay[s]
        <3>1. CASE k > Len(conn)  BY <3>1
        <3>2. CASE ~(k > Len(conn))
            <4>1. k \in 1 .. Len(conn)  BY <1>1, <3>2
            <4> QED BY <1>2, <4>1 DEF NothingToReplay
        <3> QED BY <3>1, <3>2
    <2> QED BY <2>1 DEF NothingToReplay
<1>3. ASSUME NEW c \in Calls, S(c) = s, Busy(c)', Kind(c) = "create" PROVE NothingToReplay(s)'
    <2>1. NothingToReplay(s)  BY <1>3 DEF QuietSession
    <2> QED BY <1>2, <2>1
<1>4. ASSUME NEW c \in Calls, S(c) = s, call'[c].pc \in {"writing", "binding"}
      PROVE  remote'[call'[c].record.agentSessionId].prompts = <<>>
    <2>1. call[c].pc \in {"writing", "binding"} /\ call'[c].record = call[c].record
        BY <1>4 DEF Unmoved
    <2>2. PICK a \in 1 .. Len(remote) : a = call[c].record.agentSessionId /\ remote[a].local = s
        BY <1>4, <2>1 DEF Wired, CallWired, Made
    <2>3. remote[a].prompts = <<>>  BY <1>4, <2>1, <2>2 DEF QuietSession
    <2> QED BY <2>1, <2>2, <2>3
<1>5. ASSUME NEW k \in 1 .. Len(conn') PROVE ReplayDue(s, k)'
    <2>1. CASE k > Len(conn)  BY <2>1 DEF ReplayDue
    <2>2. CASE ~(k > Len(conn))
        <3>1. k \in 1 .. Len(conn)  BY <1>1, <2>2
        <3>2. PICK a \in Nat : a = conn[k].bound[s]  BY <3>1, ConnectionTyped
        <3>3. conn'[k].bound[s] = a /\ conn'[k].replay[s] = conn[k].replay[s]  BY <3>1, <3>2
        <3>4. Restoring(s, k) => Restoring(s, k)'
            BY <1>1 DEF Restoring, Unmoved, S
        <3>5. ASSUME a # 0, ~Restoring(s, k)
              PROVE  conn'[k].replay[s] = (remote'[a].restored /\ remote'[a].prompts = <<>>)
            <4>1. a \in 1 .. Len(remote) /\ remote[a].local = s
                BY <3>1, <3>2, <3>5 DEF Wired, ConnectionWired
            <4>2. remote'[a].prompts = remote[a].prompts /\ remote'[a].restored = remote[a].restored
                BY <4>1 DEF Grows
            <4>3. conn[k].replay[s] = (remote[a].restored /\ remote[a].prompts = <<>>)
                BY <3>1, <3>2, <3>5 DEF QuietSession, ReplayDue
            <4> QED BY <3>3, <4>2, <4>3
        <3> QED BY <3>3, <3>4, <3>5 DEF ReplayDue
    <2> QED BY <2>1, <2>2
<1>6. /\ \A c \in Calls : S(c)' = s /\ Busy(c)' /\ Kind(c)' = "create" => NothingToReplay(s)'
      /\ \A c \in Calls : S(c)' = s /\ call'[c].pc \in {"writing", "binding"} =>
            remote'[call'[c].record.agentSessionId].prompts = <<>>
    BY <1>1, <1>3, <1>4 DEF S, Kind
<1> QED BY <1>5, <1>6 DEF QuietSession

LEMMA FirstKept ==
    ASSUME ReplayFirst, Grows, \A c \in Calls : alone'[c] => alone[c],
           \A i \in 1 .. Len(remote') :
               \/ i \in 1 .. Len(remote) /\ remote'[i].prompts = remote[i].prompts
               \/ remote'[i].prompts = <<>>
    PROVE  ReplayFirst'
<1> SUFFICES ASSUME NEW i \in 1 .. Len(remote'),
                    \A c \in Calls : S(c)' = remote'[i].local => alone'[c],
                    NEW n \in 1 .. Len(remote'[i].prompts)
             PROVE  remote'[i].prompts[n] = (remote'[i].restored /\ n = 1)
    BY DEF ReplayFirst
<1>1. CASE i \in 1 .. Len(remote) /\ remote'[i].prompts = remote[i].prompts
    <2>1. remote'[i].local = remote[i].local /\ remote'[i].restored = remote[i].restored
        BY <1>1 DEF Grows
    <2>2. \A c \in Calls : S(c) = remote[i].local => alone[c]
        BY <2>1 DEF Grows, S
    <2> QED BY <1>1, <2>1, <2>2 DEF ReplayFirst
<1>2. CASE remote'[i].prompts = <<>>
    <2>1. Len(<<>>) = 0 /\ 1 .. 0 = {}  BY EmptySeq
    <2> QED BY <1>2, <2>1
<1> QED BY <1>1, <1>2

\* A step that gives no prompt and binds no session.
LEMMA ReplayedKept ==
    ASSUME SdkTypeOK, Wired, Replayed, Grows, UNCHANGED <<store, alone, remote>>,
           \A c \in Calls : /\ Unmoved(c)
                            /\ Busy(c)' => Busy(c)
                            /\ At(c, "binding")' => At(c, "binding"),
           \A k \in 1 .. Len(conn), s \in Sessions :
               conn'[k].replay[s] = conn[k].replay[s] /\ conn'[k].bound[s] = conn[k].bound[s],
           \A k \in 1 .. Len(conn'), s \in Sessions :
               k > Len(conn) => conn'[k].bound[s] = 0 /\ ~conn'[k].replay[s]
    PROVE  Replayed'
<1>1. Overlapped'  BY OverlappedKept DEF Replayed
<1>2. Recorded'
    <2>1. ASSUME NEW k \in 1 .. Len(conn'), NEW s \in Sessions, conn'[k].replay[s]
          PROVE  k \in 1 .. Len(conn) /\ conn[k].replay[s]
        <3>1. k \in 1 .. Len(conn)  BY <2>1 DEF Grows
        <3> QED BY <2>1, <3>1
    <2>2. \A c \in Calls : At(c, "binding")' => store'[S(c)] # None  BY DEF Replayed, Recorded
    <2> QED BY <2>1, <2>2, RecordedKept DEF Replayed
<1>3. ASSUME NEW s \in Sessions, Quiet(s)' PROVE QuietSession(s)'
    <2>1. QuietSession(s)  BY <1>3, QuietBefore DEF Replayed
    <2> QED BY <1>3, <2>1, SessionKept
<1>4. ReplayFirst'  BY FirstKept DEF Replayed
<1> QED BY <1>1, <1>2, <1>3, <1>4 DEF Replayed

\* The call that moves was not about to bind a session and is not now.
LEMMA Passes ==
    ASSUME Grows, NEW c \in Calls, \A d \in Calls : d # c => call'[d] = call[d],
           call[c].pc \notin {"writing", "binding"}, call'[c].pc \notin {"writing", "binding"},
           Kind(c) = "dispose" \/ call[c].pc \notin {"idle", "done", "failed"}
    PROVE  \A d \in Calls : /\ Unmoved(d)
                            /\ Busy(d)' => Busy(d)
                            /\ At(d, "binding")' => At(d, "binding")
<1>1. job' = job  BY DEF Grows
<1>2. ASSUME NEW d \in Calls, d # c
      PROVE  Unmoved(d) /\ (Busy(d)' => Busy(d)) /\ (At(d, "binding")' => At(d, "binding"))
    BY <1>1, <1>2 DEF Unmoved, Busy, Active, Settled, At, Kind
<1>3. Unmoved(c) /\ (Busy(c)' => Busy(c)) /\ (At(c, "binding")' => At(c, "binding"))
    BY <1>1 DEF Unmoved, Busy, Active, Settled, At, Kind
<1> QED BY <1>2, <1>3

\* A call begins, reads, writes its record or ends.
LEMMA ReplayedOwn ==
    ASSUME SdkTypeOK, Wired, Replayed, Grows, NEW c \in Calls, NEW x \in Call, OnItsOwn(c, x)
    PROVE  Replayed'
<1>1. /\ call'[c] = x /\ \A d \in Calls : d # c => call'[d] = call[d]
      /\ UNCHANGED <<job, conn, remote>> /\ Len(conn) \in Nat
    BY CountsTyped DEF OnItsOwn, SdkTypeOK
<1>2. S(c) \in Sessions /\ call[c] \in Call  BY CallTyped
<1>3. ASSUME NEW d \in Calls PROVE alone'[d] => alone[d]
    BY <1>3 DEF OnItsOwn, Continues, Noticed
<1>4. ASSUME NEW s \in Sessions, store'[s] = None PROVE store[s] = None
    <2>1. CASE UNCHANGED store  BY <1>4, <2>1
    <2>2. CASE /\ call[c].pc \in {"writing", "marking"}
               /\ store' = [store EXCEPT ![S(c)] = call[c].record]
        <3>1. call[c].record # None  BY <2>2 DEF Wired, CallWired, Made, At
        <3>2. s # S(c)  BY <1>2, <1>4, <2>2, <3>1 DEF SdkTypeOK
        <3> QED BY <1>4, <2>2, <3>2 DEF SdkTypeOK
    <2> QED BY <2>1, <2>2 DEF OnItsOwn, Continues, At
<1>5. ASSUME NEW d \in Calls, d # c
      PROVE  Unmoved(d) /\ (Busy(d)' <=> Busy(d)) /\ (At(d, "binding")' => At(d, "binding"))
    BY <1>1, <1>5 DEF Unmoved, Busy, Active, Settled, At, Kind
<1>6. Unmoved(c)
    <2>1. CASE x = call[c]  BY <1>1, <2>1 DEF Unmoved
    <2>2. CASE At(c, "writing") /\ x = [call[c] EXCEPT !.pc = "binding"]
        <3>1. x.pc = "binding" /\ x.k = call[c].k /\ x.record = call[c].record
            BY <1>2, <2>2 DEF Call
        <3> QED BY <1>1, <2>2, <3>1 DEF Unmoved, At
    <2>3. CASE x.pc \notin {"writing", "binding"} /\ call[c].pc \notin {"writing", "binding"}
        BY <1>1, <2>3 DEF Unmoved
    <2> QED BY <2>1, <2>2, <2>3 DEF OnItsOwn, Continues, At
<1>7. Busy(c)' => Busy(c) \/ (At(c, "idle") /\ Noticed(c))
    BY <1>1 DEF OnItsOwn, Continues, Busy, Active, Settled, At, Kind
<1>8. Overlapped'
    <2> SUFFICES ASSUME NEW d \in Calls, NEW e \in Calls, Busy(d)', Busy(e)', S(d)' = S(e)',
                        d # e, alone'[d]
                 PROVE  FALSE
        BY DEF Overlapped
    <2>1. S(d) = S(e) /\ alone[d]  BY <1>1, <1>3 DEF S
    <2>2. CASE Busy(d) /\ Busy(e)  BY <2>1, <2>2 DEF Replayed, Overlapped
    <2>3. CASE d = c /\ ~Busy(c)
        <3>1. Noticed(c) /\ Busy(e) /\ e # c  BY <1>5, <1>7, <2>3
        <3>2. e \in Others(c)  BY <2>1, <2>3, <3>1 DEF Others, Busy
        <3> QED BY <2>3, <3>1, <3>2 DEF Noticed
    <2>4. CASE e = c /\ ~Busy(c)
        <3>1. Noticed(c) /\ Busy(d) /\ d # c  BY <1>5, <1>7, <2>4
        <3>2. d \in Others(c)  BY <2>1, <2>4, <3>1 DEF Others, Busy
        <3> QED BY <3>1, <3>2 DEF Noticed
    <2> QED BY <1>5, <2>2, <2>3, <2>4
<1>9. Recorded'
    <2>1. ASSUME NEW d \in Calls, At(d, "binding")' PROVE store'[S(d)] # None
        <3>1. CASE At(d, "binding")
            <4>1. store[S(d)] # None  BY <3>1 DEF Replayed, Recorded
            <4> QED BY <1>4, <4>1, CallTyped
        <3>2. CASE ~At(d, "binding")
            <4>1. d = c /\ x.pc = "binding" /\ x # call[c]  BY <1>1, <1>5, <2>1, <3>2 DEF At
            <4>2. At(c, "writing") /\ store' = [store EXCEPT ![S(c)] = call[c].record]
                BY <4>1 DEF OnItsOwn, Continues
            <4>3. call[c].record # None  BY <4>2 DEF Wired, CallWired, Made, At
            <4> QED BY <1>2, <4>1, <4>2, <4>3 DEF SdkTypeOK
        <3> QED BY <3>1, <3>2
    <2> QED BY <1>1, <1>4, <2>1, RecordedKept DEF Replayed
<1>10. ASSUME NEW s \in Sessions, Quiet(s)' PROVE QuietSession(s)'
    <2>1. QuietSession(s)  BY <1>3, <1>10, QuietBefore DEF Replayed
    <2>2. ASSUME NEW d \in Calls, S(d) = s, Kind(d) = "create", Busy(d)'
          PROVE  Busy(d) \/ NothingToReplay(s)
        <3>1. CASE Busy(d)  BY <3>1
        <3>2. CASE ~Busy(d)
            <4>1. d = c /\ At(c, "idle") /\ x # call[c]  BY <1>1, <1>5, <1>7, <2>2, <3>2
                DEF Busy, Active, Settled, At, Kind
            <4>2. store[s] = None  BY <2>2, <4>1 DEF OnItsOwn, Continues, Active, At
            <4> QED BY <4>2 DEF Replayed, Recorded
        <3> QED BY <3>1, <3>2
    <2>3. \A k \in 1 .. Len(conn) : /\ conn'[k].replay[s] = conn[k].replay[s]
                                    /\ conn'[k].bound[s] = conn[k].bound[s]
        BY <1>1
    <2>4. \A k \in 1 .. Len(conn') : ~(k > Len(conn))  BY <1>1
    <2>5. \A d \in Calls : Unmoved(d)  BY <1>5, <1>6
    <2> QED BY <1>1, <2>1, <2>2, <2>3, <2>4, <2>5, SessionKept
<1>11. ReplayFirst'  BY <1>1, <1>3, FirstKept DEF Replayed
<1> QED BY <1>8, <1>9, <1>10, <1>11 DEF Replayed

\* The new session was given no prompt; its call is about to bind it.
LEMMA ReplayedAnswered ==
    ASSUME SdkTypeOK, Wired, Queued, Replayed, Grows, NEW c \in Calls, NewSessionAnswered(c)
    PROVE  Replayed'
<1>1. PICK k \in 1 .. Len(conn) : k = call[c].k  BY AnsweredBecomes
<1>2. PICK n \in Nat : n = Len(remote) + 1  BY CountsTyped
<1>0. PICK t \in Sessions : t = S(c)  BY CallTyped
<1> DEFINE x == [conn[k] EXCEPT !.bound = [conn[k].bound EXCEPT ![t] = n]]
<1>3. Becomes(k, x)  BY <1>0, <1>1, <1>2, AnsweredBecomes
<1>4. x.replay = conn[k].replay /\ x.bound = [conn[k].bound EXCEPT ![t] = n]
      /\ conn[k].bound \in [Sessions -> Nat]
    BY ConnectionTyped DEF Connection
<1> HIDE DEF x
<1>5. /\ Len(remote') = n /\ Len(remote) \in Nat
      /\ \A i \in 1 .. Len(remote) : remote'[i] = remote[i]
      /\ remote'[n].prompts = <<>>
    <2>1. Len(remote') = n /\ \A i \in 1 .. Len(remote) : remote'[i] = remote[i]
        BY <1>2, AnsweredRemote
    <2>2. remote'[n] = [local |-> S(c), k |-> call[c].k, restored |-> Kind(c) # "create",
                        prompts |-> <<>>]
        BY <1>2, AnsweredRemote
    <2>3. remote'[n].prompts = <<>>  BY <2>2
    <2> QED BY <2>1, <2>3, CountsTyped
<1>6. /\ call[c].pc = "creating" /\ call'[c].pc = "writing" /\ call'[c].k = k
      /\ call'[c].record.agentSessionId = n
      /\ \A d \in Calls : d # c => call'[d] = call[d]
    <2> DEFINE r == [agentSessionId |-> n, connection |-> k, destroyed |-> FALSE]
    <2>1. r.agentSessionId = n  OBVIOUS
    <2>2. r \in Record /\ call' = [call EXCEPT ![c] =
                              [call[c] EXCEPT !.pc = "writing", !.record = r]]
        BY <1>1, <1>2, AnsweredRemote
    <2> HIDE DEF r
    <2>3. call[c].pc = "creating"  BY DEF NewSessionAnswered, At
    <2>4. call[c] \in Call /\ call \in [Calls -> Call]  BY CallTyped DEF SdkTypeOK
    <2>5. /\ call'[c] = [call[c] EXCEPT !.pc = "writing", !.record = r]
          /\ \A d \in Calls : d # c => call'[d] = call[d]
        BY <2>2, <2>4
    <2>6. call'[c].pc = "writing" /\ call'[c].k = k /\ call'[c].record = r
        BY <1>1, <2>4, <2>5 DEF Call
    <2> QED BY <2>1, <2>3, <2>5, <2>6
<1>7. UNCHANGED <<job, store, alone>> /\ Len(conn') = Len(conn) /\ Len(conn) \in Nat
    BY <1>3, CountsTyped DEF NewSessionAnswered, Becomes
<1>8. \A j \in 1 .. Len(conn) : conn'[j].replay = conn[j].replay
    BY <1>3, <1>4 DEF Becomes
<1>9. \A d \in Calls : Busy(d)' => Busy(d)
    BY <1>6, <1>7 DEF Busy, Active, Settled, At, Kind
<1>10. Overlapped'  BY <1>7, <1>9, OverlappedKept DEF Replayed
<1>11. Recorded'
    <2>1. ASSUME NEW d \in Calls, At(d, "binding")' PROVE store'[S(d)] # None
        <3>1. At(d, "binding")  BY <1>6, <2>1 DEF At
        <3> QED BY <1>7, <3>1 DEF Replayed, Recorded
    <2> QED BY <1>7, <1>8, <2>1, RecordedKept DEF Replayed
<1>12. ASSUME NEW s \in Sessions, Quiet(s)', s # t PROVE QuietSession(s)'
    <2>1. QuietSession(s)  BY <1>7, <1>12, QuietBefore DEF Replayed
    <2>2. \A d \in Calls : S(d) = s => Unmoved(d)  BY <1>0, <1>6, <1>12 DEF Unmoved
    <2>3. \A j \in 1 .. Len(conn) : conn'[j].bound[s] = conn[j].bound[s]
        BY <1>3, <1>4, <1>12 DEF Becomes
    <2>4. \A j \in 1 .. Len(conn') : ~(j > Len(conn))  BY <1>7
    <2> QED BY <1>5, <1>8, <1>9, <2>1, <2>2, <2>3, <2>4, SessionKept
<1>13. ASSUME NEW s \in Sessions, Quiet(s)', s = t PROVE QuietSession(s)'
    <2>1. QuietSession(s)  BY <1>7, <1>13, QuietBefore DEF Replayed
    <2>2. ASSUME NEW d \in Calls, S(d) = s, Busy(d)', Kind(d) = "create"
          PROVE  NothingToReplay(s)'
        <3>1. NothingToReplay(s)  BY <1>9, <2>1, <2>2 DEF QuietSession
        <3> QED BY <1>7, <1>8, <3>1 DEF NothingToReplay
    <2>3. ASSUME NEW d \in Calls, S(d) = s, call'[d].pc \in {"writing", "binding"}
          PROVE  remote'[call'[d].record.agentSessionId].prompts = <<>>
        <3>1. CASE d = c  BY <1>5, <1>6, <3>1
        <3>2. CASE d # c
            <4>1. call'[d] = call[d]  BY <1>6, <3>2
            <4>2. PICK a \in 1 .. Len(remote) : a = call[d].record.agentSessionId
                BY <2>3, <4>1 DEF Wired, CallWired, Made
            <4>3. remote[a].prompts = <<>>  BY <2>1, <2>3, <4>1, <4>2 DEF QuietSession
            <4> QED BY <1>5, <4>1, <4>2, <4>3
        <3> QED BY <3>1, <3>2
    <2>4. ASSUME NEW j \in 1 .. Len(conn') PROVE ReplayDue(s, j)'
        <3>1. CASE j = k
            <4>1. Restoring(s, j)'  BY <1>0, <1>6, <1>7, <1>13, <3>1 DEF Restoring, S
            <4> QED BY <4>1 DEF ReplayDue
        <3>2. CASE j # k
            <4>1. j \in 1 .. Len(conn) /\ conn'[j] = conn[j]  BY <1>3, <1>7, <3>2 DEF Becomes
            <4>2. PICK a \in Nat : a = conn[j].bound[s]  BY <4>1, ConnectionTyped
            <4>3. Restoring(s, j) => Restoring(s, j)'  BY <1>6, <1>7 DEF Restoring, S
            <4>4. ASSUME a # 0, ~Restoring(s, j)
                  PROVE  conn[j].replay[s] = (remote'[a].restored /\ remote'[a].prompts = <<>>)
                <5>1. a \in 1 .. Len(remote)  BY <4>1, <4>2, <4>4 DEF Wired, ConnectionWired
                <5>2. conn[j].replay[s] = (remote[a].restored /\ remote[a].prompts = <<>>)
                    BY <2>1, <4>1, <4>2, <4>4 DEF QuietSession, ReplayDue
                <5> QED BY <1>5, <5>1, <5>2
            <4> QED BY <4>1, <4>2, <4>3, <4>4 DEF ReplayDue
        <3> QED BY <3>1, <3>2
    <2>5. /\ \A d \in Calls : S(d)' = s /\ Busy(d)' /\ Kind(d)' = "create"
                              => NothingToReplay(s)'
          /\ \A d \in Calls : S(d)' = s /\ call'[d].pc \in {"writing", "binding"} =>
                remote'[call'[d].record.agentSessionId].prompts = <<>>
        BY <1>7, <2>2, <2>3 DEF S, Kind
    <2> QED BY <2>4, <2>5 DEF QuietSession
<1>14. ReplayFirst'
    <2>1. \A i \in 1 .. Len(remote') : i \in 1 .. Len(remote) \/ i = n  BY <1>2, <1>5
    <2> QED BY <1>5, <1>7, <2>1, FirstKept DEF Replayed
<1> QED BY <1>10, <1>11, <1>12, <1>13, <1>14 DEF Replayed

\* The restored session had no prompt, and its history waits from now on.
LEMMA ReplayedBind ==
    ASSUME SdkTypeOK, Wired, Replayed, Grows, NEW c \in Calls, Bind(c)
    PROVE  Replayed'
<1>1. PICK k \in 1 .. Len(conn) : k = call[c].k  BY BindBecomes
<1>2. PICK t \in Sessions : t = S(c)  BY CallTyped
<1>3. PICK a \in 1 .. Len(remote) : a = call[c].record.agentSessionId
                                    /\ remote[a].restored = (Kind(c) # "create")
    BY BindBecomes DEF Made
<1> DEFINE R == IF Kind(c) = "create" THEN conn[k].replay ELSE [conn[k].replay EXCEPT ![t] = TRUE]
           x == [conn[k] EXCEPT !.bound = [conn[k].bound EXCEPT ![t] = a], !.replay = R]
<1>4. Becomes(k, x)  BY <1>1, <1>2, <1>3, BindBecomes
<1>5. x.replay = R /\ x.bound = [conn[k].bound EXCEPT ![t] = a]
      /\ conn[k].bound \in [Sessions -> Nat] /\ conn[k].replay \in [Sessions -> BOOLEAN]
    BY ConnectionTyped DEF Connection
<1> HIDE DEF x
<1>6. call[c].pc = "binding" /\ Kind(c) # "dispose" /\ UNCHANGED <<job, store, remote, alone>>
    BY NotDisposing DEF Bind, At
<1>7. /\ call'[c].pc \in {"done", "reading"}
      /\ Kind(c) = "create" => call'[c].pc = "done"
      /\ \A d \in Calls : d # c => call'[d] = call[d]
    <2>1. ASSUME Kind(c) = "create" PROVE call'[c].pc = "done"
        BY <2>1, CallTyped DEF Bind, Goto, SdkTypeOK, Call
    <2> QED BY <2>1, BindMoves
<1>8. Len(conn') = Len(conn) /\ Len(conn) \in Nat /\ conn'[k] = x
      /\ \A j \in 1 .. Len(conn) : j # k => conn'[j] = conn[j]
    BY <1>4, CountsTyped DEF Becomes
<1>9. Busy(c) /\ \A d \in Calls : Busy(d)' => Busy(d)
    BY <1>6, <1>7 DEF Busy, Active, Settled, At, Kind
<1>10. Overlapped'  BY <1>6, <1>9, OverlappedKept DEF Replayed
<1>11. \A s \in Sessions : s # t => conn'[k].replay[s] = conn[k].replay[s]
                                    /\ conn'[k].bound[s] = conn[k].bound[s]
    BY <1>5, <1>8
<1>12. Recorded'
    <2>1. ASSUME NEW d \in Calls, At(d, "binding")' PROVE store'[S(d)] # None
        <3>1. At(d, "binding")  BY <1>7, <2>1 DEF At
        <3> QED BY <1>6, <3>1 DEF Replayed, Recorded
    <2>2. store[t] # None  BY <1>2, <1>6 DEF Replayed, Recorded, At
    <2>3. ASSUME NEW j \in 1 .. Len(conn'), NEW s \in Sessions, conn'[j].replay[s]
          PROVE  store[s] # None \/ (j \in 1 .. Len(conn) /\ conn[j].replay[s])
        <3>1. CASE s = t  BY <2>2, <3>1
        <3>2. CASE s # t /\ j = k  BY <1>8, <1>11, <2>3, <3>2
        <3>3. CASE j # k  BY <1>8, <2>3, <3>3
        <3> QED BY <3>1, <3>2, <3>3
    <2> QED BY <1>6, <2>1, <2>3, RecordedKept DEF Replayed
<1>13. ASSUME NEW s \in Sessions, Quiet(s)', s # t PROVE QuietSession(s)'
    <2>1. QuietSession(s)  BY <1>6, <1>13, QuietBefore DEF Replayed
    <2>2. \A d \in Calls : S(d) = s => Unmoved(d)  BY <1>2, <1>7, <1>13 DEF Unmoved
    <2>3. \A j \in 1 .. Len(conn) : conn'[j].replay[s] = conn[j].replay[s]
                                    /\ conn'[j].bound[s] = conn[j].bound[s]
        BY <1>8, <1>11, <1>13
    <2>4. \A j \in 1 .. Len(conn') : ~(j > Len(conn))  BY <1>8
    <2> QED BY <1>6, <1>9, <2>1, <2>2, <2>3, <2>4, SessionKept
<1>14. ASSUME NEW s \in Sessions, Quiet(s)', s = t PROVE QuietSession(s)'
    <2>1. Quiet(s) /\ QuietSession(s)  BY <1>6, <1>14, QuietBefore DEF Replayed
\* No other call on the session is under way.
    <2>2. ASSUME NEW d \in Calls, S(d) = s, Busy(d) PROVE d = c
        <3>1. alone[d]  BY <2>1, <2>2 DEF Quiet
        <3> QED BY <1>2, <1>9, <1>14, <2>2, <3>1 DEF Replayed, Overlapped
    <2>3. ASSUME NEW d \in Calls, S(d) = s, Busy(d)', Kind(d) = "create" PROVE FALSE
        <3>1. d = c  BY <1>9, <2>2, <2>3
        <3> QED BY <1>7, <2>3, <3>1 DEF Busy, Active, Settled
    <2>4. ASSUME NEW d \in Calls, S(d) = s, call'[d].pc \in {"writing", "binding"} PROVE FALSE
        <3>1. d # c /\ call[d].pc \in {"writing", "binding"}  BY <1>7, <2>4
        <3>2. Kind(d) # "dispose"  BY <3>1, NotDisposing
        <3>3. Busy(d)  BY <3>1, <3>2 DEF Busy, Active, Settled, At
        <3> QED BY <2>2, <2>4, <3>1, <3>3
    <2>5. ASSUME NEW j \in 1 .. Len(conn') PROVE ReplayDue(s, j)'
        <3>1. CASE j = k
            <4>1. remote[a].prompts = <<>>  BY <1>2, <1>3, <1>6, <1>14, <2>1 DEF QuietSession
            <4>2. Kind(c) = "create" => ~conn[k].replay[s]
                BY <1>2, <1>9, <1>14, <2>1 DEF QuietSession, NothingToReplay
            <4>3. conn'[k].replay[s] = (Kind(c) # "create")
                BY <1>5, <1>8, <1>14, <4>2
            <4>4. conn'[k].bound[s] = a  BY <1>5, <1>8, <1>14
            <4> QED BY <1>3, <1>6, <3>1, <4>1, <4>3, <4>4 DEF ReplayDue
        <3>2. CASE j # k
            <4>1. j \in 1 .. Len(conn) /\ conn'[j] = conn[j]  BY <1>8, <3>2
            <4>2. Restoring(s, j) => Restoring(s, j)'
                BY <1>1, <1>6, <1>7, <3>2 DEF Restoring, S
            <4>3. ReplayDue(s, j)  BY <2>1, <4>1 DEF QuietSession
            <4> QED BY <1>6, <4>1, <4>2, <4>3 DEF ReplayDue
        <3> QED BY <3>1, <3>2
    <2>6. /\ \A d \in Calls : S(d)' = s /\ Busy(d)' /\ Kind(d)' = "create"
                              => NothingToReplay(s)'
          /\ \A d \in Calls : S(d)' = s /\ call'[d].pc \in {"writing", "binding"} =>
                remote'[call'[d].record.agentSessionId].prompts = <<>>
        BY <1>6, <2>3, <2>4 DEF S, Kind
    <2> QED BY <2>5, <2>6 DEF QuietSession
<1>15. ReplayFirst'  BY <1>6, FirstKept DEF Replayed
<1> QED BY <1>10, <1>12, <1>13, <1>14, <1>15 DEF Replayed

\* A prompt takes the history that waits, and no other call is under way that
\* could bind the session again.
LEMMA ReplayedPrompts ==
    ASSUME SdkTypeOK, Wired, Replayed, Grows, NEW c \in Calls, NEW k \in 1 .. Len(conn),
           Prompts(c, k)
    PROVE  Replayed'
<1> DEFINE own == conn[k].bound[S(c)]
           due == conn[k].replay[S(c)]
<1>0. /\ own \in 1 .. Len(remote) /\ due \in BOOLEAN
      /\ remote[own].local = S(c) /\ remote[own].k = k
      /\ remote' \in Seq(Given) /\ Len(remote') = Len(remote)
      /\ remote'[own] = [remote[own] EXCEPT !.prompts = Append(remote[own].prompts, due)]
      /\ \A i \in 1 .. Len(remote) : i # own => remote'[i] = remote[i]
    BY PromptsRemote, ZenonT(40)
<1>1. PICK t \in Sessions : t = S(c)  BY CallTyped
<1>2. PICK a \in 1 .. Len(remote) : a = own  BY <1>0
<1>3. PICK f \in BOOLEAN : f = due  BY <1>0
<1>4. /\ a = conn[k].bound[t] /\ f = conn[k].replay[t]
      /\ remote[a].local = t /\ remote[a].k = k /\ Len(remote') = Len(remote)
      /\ remote'[a] = [remote[a] EXCEPT !.prompts = Append(remote[a].prompts, f)]
      /\ \A i \in 1 .. Len(remote) : i # a => remote'[i] = remote[i]
    <2>1. a = conn[k].bound[t] /\ f = conn[k].replay[t]  BY <1>1, <1>2, <1>3
    <2> HIDE DEF own, due
    <2> QED BY <1>0, <1>1, <1>2, <1>3, <2>1
<1> HIDE DEF own, due
<1>5. /\ remote[a] \in Given /\ remote[a].prompts \in Seq(BOOLEAN)
      /\ Len(remote[a].prompts) \in Nat
    BY RemoteTyped
<1>6. remote'[a].prompts = Append(remote[a].prompts, f)
      /\ remote'[a].restored = remote[a].restored /\ remote'[a].local = t
    BY <1>4, <1>5 DEF Given
<1> DEFINE x == [conn[k] EXCEPT !.replay = [conn[k].replay EXCEPT ![t] = FALSE]]
<1>7. Becomes(k, x)  BY <1>1, PromptsBecomes
<1>8. x.replay = [conn[k].replay EXCEPT ![t] = FALSE] /\ x.bound = conn[k].bound
      /\ conn[k].replay \in [Sessions -> BOOLEAN]
    BY ConnectionTyped DEF Connection
<1> HIDE DEF x
<1>9. Len(conn') = Len(conn) /\ Len(conn) \in Nat /\ conn'[k] = x
      /\ \A j \in 1 .. Len(conn) : j # k => conn'[j] = conn[j]
    BY <1>7, CountsTyped DEF Becomes
<1>10. UNCHANGED <<job, store, alone>> /\ Kind(c) = "prompt"
       /\ call[c].pc \in {"connecting", "joining"}
    BY DEF Prompts, Rest
<1>11. call'[c].pc = "sent" /\ \A d \in Calls : d # c => call'[d] = call[d]
    BY CallTyped DEF Prompts, SdkTypeOK, Call
<1>12. Busy(c) /\ \A d \in Calls : /\ Unmoved(d)
                                   /\ Busy(d)' => Busy(d)
                                   /\ At(d, "binding")' => At(d, "binding")
    <2>1. Busy(c)  BY <1>10 DEF Busy, Active, Settled, At
    <2> QED BY <1>10, <1>11, <2>1, Passes
<1>13. Overlapped'  BY <1>10, <1>12, OverlappedKept DEF Replayed
<1>14. \A j \in 1 .. Len(conn), s \in Sessions :
          /\ conn'[j].replay[s] => conn[j].replay[s]
          /\ conn'[j].bound[s] = conn[j].bound[s]
          /\ s # t => conn'[j].replay[s] = conn[j].replay[s]
    <2>1. ASSUME NEW j \in 1 .. Len(conn), NEW s \in Sessions
          PROVE  /\ conn'[j].replay[s] => conn[j].replay[s]
                 /\ conn'[j].bound[s] = conn[j].bound[s]
                 /\ s # t => conn'[j].replay[s] = conn[j].replay[s]
        <3>1. CASE j # k  BY <1>9, <3>1
        <3>2. CASE j = k  BY <1>8, <1>9, <3>2
        <3> QED BY <3>1, <3>2
    <2> QED BY <2>1
<1>15. Recorded'
    <2>1. ASSUME NEW d \in Calls, At(d, "binding")' PROVE store'[S(d)] # None
        BY <1>10, <1>12, <2>1 DEF Replayed, Recorded
    <2> QED BY <1>9, <1>10, <1>14, <2>1, RecordedKept DEF Replayed
<1>16. ASSUME NEW s \in Sessions, Quiet(s)', s # t PROVE QuietSession(s)'
    <2>1. QuietSession(s)  BY <1>10, <1>16, QuietBefore DEF Replayed
    <2>2. ASSUME NEW i \in 1 .. Len(remote), remote[i].local = s
          PROVE  remote'[i].prompts = remote[i].prompts
        BY <1>4, <1>16, <2>2
    <2>3. \A j \in 1 .. Len(conn') : ~(j > Len(conn))  BY <1>9
    <2> QED BY <1>12, <1>14, <1>16, <2>1, <2>2, <2>3, SessionKept
\* No other call on the session is under way.
<1>17. ASSUME Quiet(t)
       PROVE  /\ QuietSession(t)
              /\ \A d \in Calls : S(d) = t /\ Busy(d) => d = c
              /\ \A d \in Calls : S(d) = t => call[d].pc \notin {"writing", "binding"}
    <2>1. ASSUME NEW d \in Calls, S(d) = t, Busy(d) PROVE d = c
        <3>1. alone[d]  BY <1>17, <2>1 DEF Quiet
        <3> QED BY <1>1, <1>12, <2>1, <3>1 DEF Replayed, Overlapped
    <2>2. ASSUME NEW d \in Calls, S(d) = t, call[d].pc \in {"writing", "binding"} PROVE FALSE
        <3>1. Kind(d) # "dispose"  BY <2>2, NotDisposing
        <3>2. Busy(d)  BY <2>2, <3>1 DEF Busy, Active, Settled, At
        <3> QED BY <1>10, <2>1, <2>2, <3>2
    <2> QED BY <1>17, <2>1, <2>2 DEF Replayed
<1>18. ASSUME Quiet(t) PROVE f = (remote[a].restored /\ remote[a].prompts = <<>>)
    <2>1. ReplayDue(t, k) /\ ~Restoring(t, k)
        BY <1>17, <1>18 DEF QuietSession, Restoring
    <2>2. a # 0  OBVIOUS
    <2> QED BY <1>4, <2>1, <2>2 DEF ReplayDue
<1>19. ASSUME NEW s \in Sessions, Quiet(s)', s = t PROVE QuietSession(s)'
    <2>1. Quiet(t)  BY <1>10, <1>19, QuietBefore
    <2>2. ASSUME NEW d \in Calls, S(d) = s, Busy(d)', Kind(d) = "create" PROVE FALSE
        <3>1. d = c  BY <1>12, <1>17, <1>19, <2>1, <2>2
        <3> QED BY <1>10, <2>2, <3>1
    <2>3. ASSUME NEW d \in Calls, S(d) = s, call'[d].pc \in {"writing", "binding"} PROVE FALSE
        BY <1>12, <1>17, <1>19, <2>1, <2>3 DEF Unmoved
    <2>4. ASSUME NEW j \in 1 .. Len(conn') PROVE ReplayDue(s, j)'
        <3>1. j \in 1 .. Len(conn)  BY <1>9
        <3>2. CASE j = k
            <4>1. conn'[k].bound[s] = a /\ ~conn'[k].replay[s]
                BY <1>4, <1>8, <1>9, <1>19
            <4>2. remote'[a].prompts # <<>>
                <5> DEFINE P == remote[a].prompts
                <5>1. P \in Seq(BOOLEAN) /\ Len(P) \in Nat  BY <1>5
                <5>3. remote'[a].prompts = Append(P, f)  BY <1>6
                <5> HIDE DEF P
                <5>4. Len(Append(P, f)) = Len(P) + 1  BY <5>1, AppendProperties
                <5>2. Len(<<>>) = 0  BY EmptySeq
                <5> QED BY <5>1, <5>2, <5>3, <5>4
            <4>3. conn'[k].replay[s] = FALSE  BY <1>8, <1>9, <1>19
            <4> QED BY <3>2, <4>1, <4>2, <4>3 DEF ReplayDue
        <3>3. CASE j # k
            <4>1. PICK b \in Nat : b = conn[j].bound[s]  BY <3>1, ConnectionTyped
            <4>2. conn'[j].bound[s] = b /\ conn'[j].replay[s] = conn[j].replay[s]
                BY <1>9, <3>1, <3>3, <4>1
            <4>3. ASSUME b # 0
                  PROVE  conn[j].replay[s] = (remote'[b].restored /\ remote'[b].prompts = <<>>)
                <5>1. b \in 1 .. Len(remote) /\ remote[b].k = j
                    BY <3>1, <4>1, <4>3 DEF Wired, ConnectionWired
                <5>2. remote'[b] = remote[b]  BY <1>4, <3>3, <5>1
                <5>3. ReplayDue(t, j) /\ ~Restoring(t, j)
                    BY <1>17, <2>1, <3>1 DEF QuietSession, Restoring
                <5> QED BY <1>19, <4>1, <4>3, <5>2, <5>3 DEF ReplayDue
            <4> QED BY <4>2, <4>3 DEF ReplayDue
        <3> QED BY <3>2, <3>3
    <2>5. /\ \A d \in Calls : S(d)' = s /\ Busy(d)' /\ Kind(d)' = "create"
                              => NothingToReplay(s)'
          /\ \A d \in Calls : S(d)' = s /\ call'[d].pc \in {"writing", "binding"} =>
                remote'[call'[d].record.agentSessionId].prompts = <<>>
        BY <1>10, <2>2, <2>3 DEF S, Kind
    <2> QED BY <2>4, <2>5 DEF QuietSession
<1>20. ReplayFirst'
    <2> SUFFICES ASSUME NEW i \in 1 .. Len(remote'),
                        \A d \in Calls : S(d)' = remote'[i].local => alone'[d],
                        NEW n \in 1 .. Len(remote'[i].prompts)
                 PROVE  remote'[i].prompts[n] = (remote'[i].restored /\ n = 1)
        BY DEF ReplayFirst
    <2>1. i \in 1 .. Len(remote)  BY <1>4
    <2>2. CASE i # a
        <3>1. remote'[i] = remote[i]  BY <1>4, <2>1, <2>2
        <3>2. \A d \in Calls : S(d) = remote[i].local => alone[d]  BY <1>10, <3>1 DEF S
        <3> QED BY <2>1, <3>1, <3>2 DEF Replayed, ReplayFirst
    <2>3. CASE i = a
        <3> DEFINE P == remote[a].prompts
        <3>1. \A d \in Calls : S(d) = t => alone[d]  BY <1>6, <1>10, <2>3 DEF S
        <3>2. Quiet(t)  BY <3>1 DEF Quiet
        <3>3. /\ Len(remote'[a].prompts) = Len(P) + 1 /\ remote'[a].prompts[Len(P) + 1] = f
              /\ \A m \in 1 .. Len(P) : remote'[a].prompts[m] = P[m]
            BY <1>5, <1>6, AppendProperties
        <3>4. CASE n \in 1 .. Len(P)
            <4>1. P[n] = (remote[a].restored /\ n = 1)
                <5>1. ReplayFirst  BY DEF Replayed
                <5>2. \A d \in Calls : S(d) = remote[a].local => alone[d]  BY <1>4, <3>1
                <5>3. \A m \in 1 .. Len(remote[a].prompts) :
                         remote[a].prompts[m] = (remote[a].restored /\ m = 1)
                    BY <5>1, <5>2 DEF ReplayFirst
                <5> QED BY <3>4, <5>3
            <4>2. remote'[a].prompts[n] = P[n]  BY <3>3, <3>4
            <4>3. remote'[a].restored = remote[a].restored  BY <1>6
            <4> QED BY <2>3, <4>1, <4>2, <4>3
        <3>5. CASE n = Len(P) + 1
            <4>1. f = (remote[a].restored /\ P = <<>>)  BY <1>18, <3>2
            <4>2. (P = <<>>) = (n = 1)  BY <1>5, <3>5, EmptySeq
            <4>3. remote'[a].prompts[n] = f  BY <3>3, <3>5
            <4>4. remote'[a].restored = remote[a].restored  BY <1>6
            <4>5. (remote[a].restored /\ P = <<>>) = (remote[a].restored /\ n = 1)  BY <4>2
            <4>6. remote'[a].prompts[n] = (remote[a].restored /\ n = 1)  BY <4>1, <4>3, <4>5
            <4> QED BY <2>3, <4>4, <4>6
        <3> QED BY <1>5, <2>3, <3>3, <3>4, <3>5
    <2> QED BY <2>2, <2>3
<1> QED BY <1>13, <1>15, <1>16, <1>19, <1>20 DEF Replayed

LEMMA ReplayedStep ==
    ASSUME SdkTypeOK, Wired, Queued, Replayed, SdkStep
    PROVE  Replayed'
<1>1. Grows /\ Len(conn) \in Nat  BY StepGrows DEF Grows
\* A call that passes, and a connection of which no binding changes.
<1>2. ASSUME UNCHANGED <<store, alone, remote>>, Len(conn') = Len(conn), NEW c \in Calls,
             \A d \in Calls : d # c => call'[d] = call[d],
             call[c].pc \notin {"writing", "binding"}, call'[c].pc \notin {"writing", "binding"},
             Kind(c) = "dispose" \/ call[c].pc \notin {"idle", "done", "failed"},
             \A k \in 1 .. Len(conn) :
                 conn'[k].replay = conn[k].replay /\ conn'[k].bound = conn[k].bound
      PROVE  Replayed'
    <2>1. \A k \in 1 .. Len(conn') : ~(k > Len(conn))  BY <1>1, <1>2
    <2>2. \A d \in Calls : /\ Unmoved(d)
                           /\ Busy(d)' => Busy(d)
                           /\ At(d, "binding")' => At(d, "binding")
        BY <1>1, <1>2, Passes
    <2> QED BY <1>1, <1>2, <2>1, <2>2, ReplayedKept
<1>3. ASSUME NEW k \in 1 .. Len(conn), NEW x, Becomes(k, x),
             x.replay = conn[k].replay, x.bound = conn[k].bound
      PROVE  /\ Len(conn') = Len(conn)
             /\ \A j \in 1 .. Len(conn) :
                    conn'[j].replay = conn[j].replay /\ conn'[j].bound = conn[j].bound
    BY <1>3 DEF Becomes
<1>4. ASSUME NEW c \in Calls, StartDispose(c) PROVE Replayed'
    <2>1. Kind(c) = "dispose" /\ call[c].pc = "idle" /\ UNCHANGED <<store, alone, remote, conn>>
        BY <1>4 DEF StartDispose, At
    <2>2. call'[c].pc = "settling" /\ \A d \in Calls : d # c => call'[d] = call[d]
        BY <1>4, CallTyped DEF StartDispose, Goto, SdkTypeOK, Call
    <2> QED BY <1>2, <2>1, <2>2
<1>5. ASSUME NEW c \in Calls, PendingSettled(c) PROVE Replayed'
    <2>1. call[c].pc = "settling" /\ UNCHANGED <<store, alone, remote, conn>>
        BY <1>5 DEF PendingSettled, At, connVars
    <2>2. call'[c].pc = "closing" /\ \A d \in Calls : d # c => call'[d] = call[d]
        BY <1>5, CallTyped DEF PendingSettled, Goto, SdkTypeOK, Call
    <2> QED BY <1>2, <2>1, <2>2
<1>6. ASSUME NEW c \in Calls, CloseConnections(c) PROVE Replayed'
    <2>1. call[c].pc = "closing" /\ UNCHANGED <<store, alone, remote>>
        BY <1>6 DEF CloseConnections, At
    <2>2. call'[c].pc = "done" /\ \A d \in Calls : d # c => call'[d] = call[d]
        BY <1>6, CallTyped DEF CloseConnections, Goto, SdkTypeOK, Call
    <2>3. ASSUME NEW k \in 1 .. Len(conn)
          PROVE  conn'[k].replay = conn[k].replay /\ conn'[k].bound = conn[k].bound
        <3>1. conn'[k] = conn[k] \/ conn'[k] = [conn[k] EXCEPT !.state = "closed"]
            BY <1>6, CloseBecomes
        <3> QED BY <3>1, ConnectionTyped DEF Connection
    <2>4. Len(conn') = Len(conn)  BY <1>6, CloseBecomes
    <2> QED BY <1>2, <2>1, <2>2, <2>3, <2>4
<1>7. ASSUME NEW c \in Calls, Connects(c) PROVE Replayed'
    <2>1. call[c].pc = "connecting" /\ UNCHANGED <<store, alone, remote>>
        BY <1>7 DEF Connects, At
    <2>2. call'[c].pc = "joining" /\ \A d \in Calls : d # c => call'[d] = call[d]
        BY <1>7, CallTyped DEF Connects, SdkTypeOK, Call
    <2>3. PICK n \in Nat : n = Len(conn) + 1  BY <1>1
    <2>4. /\ Len(conn') = n /\ \A k \in 1 .. Len(conn) : conn'[k] = conn[k]
          /\ \A s \in Sessions : conn'[n].bound[s] = 0 /\ ~conn'[n].replay[s]
        BY <1>7, <2>3, ConnectsBecomes
    <2>5. \A k \in 1 .. Len(conn') : k > Len(conn) => k = n  BY <1>1, <2>3, <2>4
    <2>6. \A d \in Calls : /\ Unmoved(d)
                           /\ Busy(d)' => Busy(d)
                           /\ At(d, "binding")' => At(d, "binding")
        BY <1>1, <2>1, <2>2, Passes
    <2> QED BY <1>1, <2>1, <2>4, <2>5, <2>6, ReplayedKept
<1>8. ASSUME NEW c \in Calls, NEW k \in 1 .. Len(conn), Asks(c, k) PROVE Replayed'
    <2> DEFINE x == [conn[k] EXCEPT !.pendingNew = Append(conn[k].pendingNew, S(c))]
    <2>1. Becomes(k, x)  BY <1>8, AsksBecomes DEF Asks
    <2>2. x.replay = conn[k].replay /\ x.bound = conn[k].bound
        BY ConnectionTyped DEF Connection
    <2> HIDE DEF x
    <2>3. call[c].pc \in {"connecting", "joining", "collecting"}
          /\ UNCHANGED <<store, alone, remote>>
        BY <1>8 DEF Asks, AskNew, Rest
    <2>4. call'[c].pc = "creating" /\ \A d \in Calls : d # c => call'[d] = call[d]
        BY <1>8, CallTyped DEF Asks, AskNew, SdkTypeOK, Call
    <2> QED BY <1>2, <1>3, <2>1, <2>2, <2>3, <2>4
<1>9. ASSUME NEW k \in 1 .. Len(conn),
             ConnectionOpens(k) \/ ConnectionFails(k) \/ ConnectionBreaks(k)
      PROVE  Replayed'
    <2>1. PICK x : Becomes(k, x) /\ x.replay = conn[k].replay /\ x.bound = conn[k].bound
        <3>1. conn[k] \in Connection  BY ConnectionTyped
        <3>2. ASSUME NEW s, NEW r
              PROVE  /\ [conn[k] EXCEPT !.state = s, !.result = r].replay = conn[k].replay
                     /\ [conn[k] EXCEPT !.state = s, !.result = r].bound = conn[k].bound
                     /\ [conn[k] EXCEPT !.state = s].replay = conn[k].replay
                     /\ [conn[k] EXCEPT !.state = s].bound = conn[k].bound
            BY <3>1 DEF Connection
        <3>3. CASE ConnectionOpens(k)
            <4>1. live # 0 => Becomes(k, [conn[k] EXCEPT !.state = "closed", !.result = live])
                BY <3>3, OpensBecomes
            <4>2. live = 0 => Becomes(k, [conn[k] EXCEPT !.state = "open", !.result = k])
                BY <3>3, OpensBecomes
            <4>3. CASE live = 0
                <5> DEFINE x == [conn[k] EXCEPT !.state = "open", !.result = k]
                <5>1. Becomes(k, x)  BY <4>2, <4>3
                <5>2. x.replay = conn[k].replay /\ x.bound = conn[k].bound  BY <3>2
                <5> HIDE DEF x
                <5> QED BY <5>1, <5>2
            <4>4. CASE live # 0
                <5> DEFINE x == [conn[k] EXCEPT !.state = "closed", !.result = live]
                <5>1. Becomes(k, x)  BY <4>1, <4>4
                <5>2. x.replay = conn[k].replay /\ x.bound = conn[k].bound  BY <3>2
                <5> HIDE DEF x
                <5> QED BY <5>1, <5>2
            <4> QED BY <4>3, <4>4
        <3>4. CASE ConnectionFails(k) \/ ConnectionBreaks(k)
            <4>1. PICK s \in {"failed", "orphaned", "broken"} : Becomes(k, [conn[k] EXCEPT !.state = s])
                BY <3>4, StateBecomes DEF ConnectionFails, ConnectionBreaks, Unmade
            <4> QED BY <3>2, <4>1
        <3> QED BY <1>9, <3>3, <3>4
    <2>2. UNCHANGED <<store, alone, remote, call, job>>
        BY <1>9 DEF ConnectionOpens, ConnectionFails, ConnectionBreaks, callVars
    <2>3. Len(conn') = Len(conn)
          /\ \A j \in 1 .. Len(conn) :
                conn'[j].replay = conn[j].replay /\ conn'[j].bound = conn[j].bound
        BY <1>3, <2>1
    <2>4. \A d \in Calls : /\ Unmoved(d)
                           /\ Busy(d)' => Busy(d)
                           /\ At(d, "binding")' => At(d, "binding")
        BY <2>2 DEF Unmoved, Busy, Active, Settled, At, Kind
    <2>5. \A j \in 1 .. Len(conn') : ~(j > Len(conn))  BY <1>1, <2>3
    <2> QED BY <1>1, <2>2, <2>3, <2>4, <2>5, ReplayedKept
<1>10. CASE Emit
    <2>1. PICK c \in Calls : c = Head(out)  BY <1>10, EmitBecomes
    <2>2. PICK k \in 1 .. Len(conn) : k = call[c].k  BY <1>10, <2>1, EmitBecomes
    <2> DEFINE x == [conn[k] EXCEPT !.pendingNew = Tail(conn[k].pendingNew)]
    <2>3. At(c, "creating") /\ Becomes(k, x) /\ (UNCHANGED call \/ Rejected(c))
        BY <1>10, <2>1, <2>2, EmitBecomes
    <2>4. x.replay = conn[k].replay /\ x.bound = conn[k].bound
        BY ConnectionTyped DEF Connection
    <2> HIDE DEF x
    <2>5. UNCHANGED <<store, alone, remote>>  BY <1>10 DEF Emit
    <2>6. call'[c].pc \in {"creating", "noting", "failed"}
          /\ \A d \in Calls : d # c => call'[d] = call[d]
        BY <2>3, CallTyped DEF Rejected, Goto, SdkTypeOK, Call, At
    <2>7. call[c].pc = "creating"  BY <2>3 DEF At
    <2> QED BY <1>2, <1>3, <2>3, <2>4, <2>5, <2>6, <2>7
<1> QED BY <1>1, <1>4, <1>5, <1>6, <1>7, <1>8, <1>9, <1>10, ReplayedOwn, ReplayedAnswered,
           ReplayedBind, ReplayedPrompts
        DEF SdkStep

-----------------------------------------------------------------------------
(* The sessions at first, and the theorems.                                 *)

LEMMA SdkInitial ==
    ASSUME SdkInit
    PROVE  SdkIInv
<1>1. conn = <<>> /\ out = <<>> /\ remote = <<>> /\ Len(conn) = 0 /\ Len(out) = 0
      /\ Len(remote) = 0 /\ 1 .. 0 = {}
    BY EmptySeq DEF SdkInit
<1>2. /\ job \in [Calls -> [kind : CallKinds, session : Sessions]]
      /\ \A c \in Calls : S(c) \in Sessions
    BY SdkAssumption DEF SdkInit, S
<1>3. SdkTypeOK
    <2>1. call \in [Calls -> Call]  BY DEF SdkInit, Call, CallPlaces
    <2>2. store \in [Sessions -> Record \cup {None}]  BY DEF SdkInit, Record
    <2>3. /\ conn \in Seq(Connection) /\ out \in Seq(Calls)
          /\ remote \in Seq([local : Sessions, k : Nat, restored : BOOLEAN,
                             prompts : Seq(BOOLEAN)])
        BY <1>1, EmptySeq
    <2>4. live \in 0 .. Len(conn) /\ opening \in 0 .. Len(conn) /\ breaks \in 0 .. MaxBreaks
        BY <1>1, SdkAssumption DEF SdkInit
    <2>5. dispose \in [Calls -> [taken : SUBSET (1 .. MaxConnections),
                                 pending : 0 .. MaxConnections, before : 0 .. MaxConnections]]
        BY SdkAssumption DEF SdkInit
    <2>6. attributed \in [Calls -> Sessions \cup {None}]
          /\ permission \in [Calls -> {"none", "pending", "settled"}]
          /\ alone \in [Calls -> BOOLEAN]
        BY <1>2 DEF SdkInit
    <2> QED BY <2>1, <2>2, <2>3, <2>4, <2>5, <2>6 DEF SdkInit, SdkTypeOK
<1>4. \A c \in Calls : call[c].pc = "idle"  BY DEF SdkInit
<1>5. Wired
    <2>1. \A c \in Calls : dispose[c].pending = 0 /\ dispose[c].before = 0  BY DEF SdkInit
    <2> QED BY <1>1, <1>4, <2>1, SdkAssumption DEF Wired, CallWired, At
<1>6. Queued
    <2>1. LoggedUnderItsSession  BY DEF SdkInit, LoggedUnderItsSession
    <2> QED BY <1>1, <2>1 DEF Queued
<1>7. Accounted  BY <1>1 DEF Accounted
<1>8. Replayed
    <2>1. \A c \in Calls : ~Busy(c)  BY <1>4 DEF Busy, Active, Settled, At
    <2>2. ASSUME NEW s \in Sessions PROVE NothingToReplay(s)  BY <1>1 DEF NothingToReplay
    <2>3. ASSUME NEW s \in Sessions PROVE QuietSession(s)
        BY <1>1, <1>4, <2>2 DEF QuietSession
    <2>4. ReplayFirst  BY <1>1 DEF ReplayFirst
    <2>5. Overlapped /\ Recorded  BY <1>4, <2>1, <2>2 DEF Overlapped, Recorded, At
    <2> QED BY <2>3, <2>4, <2>5 DEF Replayed
<1> QED BY <1>3, <1>5, <1>6, <1>7, <1>8 DEF SdkIInv

LEMMA SdkStutters ==
    ASSUME SdkIInv, UNCHANGED sdkVars
    PROVE  SdkIInv'
<1> USE DEF sdkVars, callVars, connVars, wireVars
<1>1. SdkTypeOK'  BY DEF SdkIInv, SdkTypeOK
<1>2. Wired'
    BY DEF SdkIInv, Wired, CallWired, ConnectionWired, Made, At, S, Kind
<1>3. Queued'
    <2>1. \A f, k : InLine(f, k) => InLine(f, k)'  BY DEF InLine, S
    <2> QED BY <2>1 DEF SdkIInv, Queued, LoggedUnderItsSession, At, S
<1>4. Accounted'
    BY DEF SdkIInv, Accounted, TakenBy, AwaitedBy, After, At, Kind
<1>5. Replayed'
    BY DEF SdkIInv, Replayed, Overlapped, Recorded, QuietSession, Quiet, Busy, Active, Settled,
           NothingToReplay, ReplayDue, Restoring, ReplayFirst, At, S, Kind
<1> QED BY <1>1, <1>2, <1>3, <1>4, <1>5 DEF SdkIInv

\* The sessions of the SDK keep their inductive invariant: the calls and the
\* connections are wired to what was made for them, a request waits for its
\* envelope behind those asked before it, every open connection is live or held by
\* a dispose(), and the history of a restored session waits until its first prompt.
THEOREM SdkInvariant == SdkSpec => []SdkIInv
<1>1. SdkInit => SdkIInv  BY SdkInitial
<1>2. SdkIInv /\ [SdkNext]_sdkVars => SdkIInv'
    <2> SUFFICES ASSUME SdkIInv, [SdkNext]_sdkVars PROVE SdkIInv'
        OBVIOUS
    <2>1. CASE SdkNext
        <3>1. SdkTypeOK /\ Wired /\ Queued /\ Accounted /\ Replayed  BY DEF SdkIInv
        <3>2. SdkStep  BY <2>1, <3>1, SdkStepCases
        <3>3. SdkTypeOK' /\ Wired' /\ Queued'
            BY <3>1, <3>2, SdkNextType, WiredStep, QueuedStep
        <3>4. Accounted' /\ Replayed'  BY <3>1, <3>2, AccountedStep, ReplayedStep
        <3> QED BY <3>3, <3>4 DEF SdkIInv
    <2>2. CASE UNCHANGED sdkVars  BY <2>2, SdkStutters
    <2> QED BY <2>1, <2>2
<1> QED BY <1>1, <1>2, PTL DEF SdkSpec

\* Every variable of the SDK's sessions stays in its type.
THEOREM SdkTypeCorrect == SdkSpec => []SdkTypeOK
<1>1. SdkIInv => SdkTypeOK  BY DEF SdkIInv
<1> QED BY <1>1, SdkInvariant, PTL

\* resolveSessionId logs the envelope of every session/new under the session it
\* was sent for: the sessions that wait on a connection stand in the order of
\* their requests.
THEOREM EnvelopesLogged == SdkSpec => []LoggedUnderItsSession
<1>1. SdkIInv => LoggedUnderItsSession  BY DEF SdkIInv, Queued
<1> QED BY <1>1, SdkInvariant, PTL

\* A restored session is given the history with its first prompt, once, and a new
\* one never, as long as no two calls on the session overlapped.
THEOREM HistoryFirst == SdkSpec => []ReplayFirst
<1>1. SdkIInv => ReplayFirst  BY DEF SdkIInv, Replayed
<1> QED BY <1>1, SdkInvariant, PTL

\* When every dispose() has returned, each of the connections that one of them
\* found is closed, has ended, or never initialized: then its transport may be open.
THEOREM DisposeCloses == SdkSpec => []NothingLeftOpen
<1>1. SdkIInv => NothingLeftOpen
    <2> SUFFICES ASSUME SdkIInv, NEW c \in Calls, Kind(c) = "dispose", At(c, "done"),
                        \A d \in Calls : Kind(d) = "dispose" => ~Active(d),
                        NEW k \in 1 .. dispose[c].before,
                        conn[k].state \notin {"closed", "broken"} \cup Unmade
                 PROVE  FALSE
        BY DEF NothingLeftOpen
    <2>1. k \in 1 .. Len(conn)
        <3>1. dispose[c].before \in Nat /\ dispose[c].before <= Len(conn)
            BY SdkAssumption DEF SdkIInv, SdkTypeOK, Wired, CallWired
        <3> QED BY <3>1, CountsTyped DEF SdkIInv
    <2>2. ~After(k)
        <3>1. ~(dispose[c].before < k) /\ ~At(c, "idle")
            BY SdkAssumption DEF At, SdkIInv, SdkTypeOK
        <3> QED BY <3>1 DEF After
    <2>3. ASSUME NEW d \in Calls PROVE ~TakenBy(d, k) /\ ~AwaitedBy(d, k)
        <3>1. call[d].pc \notin {"settling", "closing"}
            BY DEF SdkIInv, Wired, CallWired, Active, Settled, At
        <3> QED BY <3>1 DEF TakenBy, AwaitedBy, At
    <2>4. conn[k].state \in {"opening", "open"}
        BY <2>1, ConnectionTyped DEF SdkIInv, Unmade
    <2> QED BY <2>1, <2>2, <2>3, <2>4 DEF SdkIInv, Accounted
<1> QED BY <1>1, SdkInvariant, PTL

=============================================================================
