--------------------------- MODULE GoWatcherProofs ---------------------------
(***************************************************************************)
(* For any connections, capacities and number of messages: a client of the *)
(* Go watcher gets what is broadcast from its subscription on in order and *)
(* once, except what was dropped for it.                                   *)
(***************************************************************************)
EXTENDS GoWatcher, FiniteSetTheorems, SequenceTheorems, TLAPS

\* The last message that was offered to all subscribers, or to c.
Front(c) == IF c \in todo THEN Received - 1 ELSE Received

\* run() broadcasts the message it has received last, to subscribers.
BroadcastInv ==
    /\ reader = "events" => made > 0
    /\ IF events = 0 THEN todo = {} ELSE events = Received
    /\ todo \subseteq subscribers

\* A connection that has not subscribed has nothing; one that is a subscriber
\* writes one message at a time.
ConnectionInv ==
    /\ subscribers = {c \in Conns : conn[c] \in {"waiting", "writing", "removing"}}
    /\ \A c \in Conns :
          /\ conn[c] \in {"none", "adding"} => /\ channel[c] = <<>> /\ sent[c] = <<>>
                                               /\ offered[c] = {} /\ lost[c] = {}
                                               /\ unread[c] = 0
          /\ writing[c] # 0 <=> conn[c] \in {"writing", "removing", "closed"}

\* The messages that c was offered, up to the front, have no gap.
OfferedInv ==
    \A c \in Conns :
        /\ \A m \in offered[c] : m <= Received
        /\ \A m, n \in offered[c] : m..n \subseteq offered[c]
        /\ c \in subscribers /\ offered[c] # {} =>
              /\ Front(c) \in offered[c]
              /\ \A m \in offered[c] : m <= Front(c)

Increasing(s) == \A i, j \in DOMAIN s : i < j => s[i] < s[j]

\* The stream of c holds what it was offered and has not lost, in order.
StreamInv ==
    \A c \in Conns :
        /\ Increasing(Stream(c))
        /\ Elements(Stream(c)) = offered[c] \ lost[c]
        /\ lost[c] \subseteq offered[c]

GInv ==
    /\ TypeOK
    /\ BroadcastInv
    /\ ConnectionInv
    /\ OfferedInv
    /\ StreamInv

-----------------------------------------------------------------------------
(* Streams *)

\* A larger message at the end of an increasing sequence.
LEMMA AppendLarger ==
    ASSUME NEW s \in Seq(Nat), NEW x \in Nat, Increasing(s), \A e \in Elements(s) : e < x
    PROVE  Increasing(Append(s, x)) /\ Elements(Append(s, x)) = Elements(s) \cup {x}
<1> DEFINE t == Append(s, x)
<1>1. /\ t \in Seq(Nat) /\ Len(s) \in Nat
      /\ DOMAIN t = 1..Len(s) + 1 /\ DOMAIN s = 1..Len(s)
      /\ \A i \in 1..Len(s) : t[i] = s[i]
      /\ t[Len(s) + 1] = x
  BY AppendProperties
<1> HIDE DEF t
<1>2. ASSUME NEW i \in DOMAIN t, NEW j \in DOMAIN t, i < j PROVE t[i] < t[j]
  <2>1. i \in 1..Len(s) /\ t[i] = s[i] /\ s[i] \in Elements(s)
    BY <1>1, <1>2 DEF Elements
  <2>2. CASE j = Len(s) + 1
    BY <2>1, <2>2, <1>1
  <2>3. CASE j # Len(s) + 1
    BY <2>1, <2>3, <1>1, <1>2 DEF Increasing
  <2>4. QED
    BY <2>2, <2>3
<1>3. Elements(t) = Elements(s) \cup {x}
  <2>1. ASSUME NEW i \in DOMAIN t PROVE t[i] \in Elements(s) \cup {x}
    BY <1>1 DEF Elements
  <2>2. ASSUME NEW e \in Elements(s) \cup {x} PROVE e \in Elements(t)
    <3>1. CASE e = x
      <4>1. Len(s) + 1 \in DOMAIN t
        BY <1>1
      <4>2. QED
        BY <3>1, <4>1, <1>1 DEF Elements
    <3>2. CASE e \in Elements(s)
      <4>1. PICK i \in DOMAIN s : e = s[i]
        BY <3>2 DEF Elements
      <4>2. i \in DOMAIN t /\ t[i] = e
        BY <4>1, <1>1
      <4>3. QED
        BY <4>2 DEF Elements
    <3>3. QED
      BY <3>1, <3>2
  <2>3. QED
    BY <2>1, <2>2 DEF Elements
<1>4. QED
  BY <1>2, <1>3 DEF t, Increasing

\* Sequences of messages are sequences of numbers.
LEMMA MessagesAreNumbers ==
    ASSUME NEW s \in Seq(Messages)
    PROVE  s \in Seq(Nat)
<1>1. Messages \subseteq Nat
  BY GoAssumption DEF Messages
<1>2. ASSUME NEW i \in 1..Len(s) PROVE s[i] \in Nat
  <2>1. s[i] \in Messages
    OBVIOUS
  <2>2. QED
    BY <2>1, <1>1
<1>3. s = [i \in 1..Len(s) |-> s[i]]
  OBVIOUS
<1>4. QED
  BY <1>2, <1>3

\* Messages can be put together from either end.
LEMMA Regrouped ==
    \A s, t, u \in Seq(Messages) : (s \o t) \o u = s \o (t \o u)
BY ConcatAssociative

\* The message in between, of a stream.
Between(w) == IF w = 0 THEN <<>> ELSE <<w>>

\* The streams are sequences of messages.
LEMMA StreamType ==
    ASSUME TypeOK, NEW c \in Conns
    PROVE  /\ Stream(c) = sent[c] \o Between(writing[c]) \o channel[c]
           /\ Between(writing[c]) \in Seq(Messages)
           /\ sent[c] \in Seq(Messages) /\ channel[c] \in Seq(Messages)
           /\ sent[c] \o Between(writing[c]) \in Seq(Messages)
           /\ Stream(c) \in Seq(Messages) /\ Stream(c) \in Seq(Nat)
<1>1. sent[c] \in Seq(Messages) /\ channel[c] \in Seq(Messages) /\ writing[c] \in {0} \cup Messages
  BY DEF TypeOK
<1>2. Between(writing[c]) \in Seq(Messages)
  BY <1>1 DEF Between
<1>3. Stream(c) = sent[c] \o Between(writing[c]) \o channel[c]
  BY DEF Stream, Between
<1>4. sent[c] \o Between(writing[c]) \in Seq(Messages)
  BY <1>1, <1>2, ConcatProperties, Zenon
<1>5. Stream(c) \in Seq(Messages)
  BY <1>1, <1>3, <1>4, ConcatProperties, Zenon
<1>6. Stream(c) \in Seq(Nat)
  BY <1>5, MessagesAreNumbers
<1>7. QED
  BY <1>1, <1>2, <1>3, <1>4, <1>5, <1>6

\* A message that is put into the subscription is at the end of the stream.
LEMMA StreamGrows ==
    ASSUME TypeOK, NEW c \in Conns, NEW e \in Messages,
           channel'[c] = Append(channel[c], e),
           sent'[c] = sent[c], writing'[c] = writing[c]
    PROVE  Stream(c)' = Append(Stream(c), e)
<1> DEFINE front == sent[c] \o Between(writing[c])
<1>1. front \in Seq(Messages) /\ channel[c] \in Seq(Messages) /\ <<e>> \in Seq(Messages)
      /\ Stream(c) = front \o channel[c] /\ Stream(c) \in Seq(Messages)
  <2>1. <<e>> \in Seq(Messages)
    OBVIOUS
  <2>2. QED
    BY <2>1, StreamType, Zenon
<1>2. Stream(c)' = front \o Append(channel[c], e)
  BY DEF Stream, Between
<1> HIDE DEF front
<1>3. Append(channel[c], e) = channel[c] \o <<e>>
      /\ Append(Stream(c), e) = Stream(c) \o <<e>>
  BY <1>1, AppendIsConcat
<1>4. front \o (channel[c] \o <<e>>) = (front \o channel[c]) \o <<e>>
  BY <1>1, Regrouped
<1>5. QED
  BY <1>1, <1>2, <1>3, <1>4

\* Taking a message from the subscription leaves the stream as it is.
LEMMA StreamTaken ==
    ASSUME TypeOK, NEW c \in Conns, channel[c] # <<>>, writing[c] = 0,
           writing'[c] = Head(channel[c]), channel'[c] = Tail(channel[c]), sent'[c] = sent[c]
    PROVE  Stream(c)' = Stream(c)
<1>1. /\ sent[c] \in Seq(Messages) /\ channel[c] \in Seq(Messages)
      /\ Head(channel[c]) \in Messages /\ Tail(channel[c]) \in Seq(Messages)
  BY StreamType, HeadTailProperties
<1>2. writing'[c] # 0
  BY <1>1 DEF Messages
<1>3. Stream(c)' = (sent[c] \o <<Head(channel[c])>>) \o Tail(channel[c])
  BY <1>2 DEF Stream
<1>4. Stream(c) = sent[c] \o channel[c]
  <2>1. sent[c] \o <<>> = sent[c]
    BY <1>1, ConcatEmptySeq
  <2>2. Stream(c) = (sent[c] \o <<>>) \o channel[c]
    BY DEF Stream
  <2>3. QED
    BY <2>1, <2>2
<1>5. channel[c] = <<Head(channel[c])>> \o Tail(channel[c])
  BY <1>1, SMTT(30)
<1>6. <<Head(channel[c])>> \in Seq(Messages)
  BY <1>1
<1>7. (sent[c] \o <<Head(channel[c])>>) \o Tail(channel[c])
        = sent[c] \o (<<Head(channel[c])>> \o Tail(channel[c]))
  BY <1>1, <1>6, Regrouped
<1>8. QED
  BY <1>3, <1>4, <1>5, <1>7

\* So does writing it to the client.
LEMMA StreamWritten ==
    ASSUME TypeOK, NEW c \in Conns, writing[c] # 0, writing'[c] = 0,
           sent'[c] = Append(sent[c], writing[c]), channel'[c] = channel[c]
    PROVE  Stream(c)' = Stream(c)
<1>1. sent[c] \in Seq(Messages) /\ writing[c] \in Messages
  BY DEF TypeOK
<1>2. Append(sent[c], writing[c]) = sent[c] \o <<writing[c]>>
      /\ Append(sent[c], writing[c]) \in Seq(Messages)
  BY <1>1, AppendIsConcat, AppendProperties
<1>3. Stream(c)' = (Append(sent[c], writing[c]) \o <<>>) \o channel[c]
  BY DEF Stream
<1>4. Append(sent[c], writing[c]) \o <<>> = Append(sent[c], writing[c])
  BY <1>2, ConcatEmptySeq
<1>5. Stream(c) = (sent[c] \o <<writing[c]>>) \o channel[c]
  BY DEF Stream
<1>6. QED
  BY <1>2, <1>3, <1>4, <1>5

-----------------------------------------------------------------------------
(* The steps *)

\* What run() has received is a message, or 0.
LEMMA ReceivedIsCount ==
    ASSUME TypeOK, BroadcastInv
    PROVE  Received \in {0} \cup Messages /\ Received \in Nat
BY GoAssumption DEF TypeOK, BroadcastInv, Received, Messages

\* Steps of the reader and of run() in its select: the broadcast begins with
\* one message more received than offered.
LEMMA FeedKeeps ==
    ASSUME GInv, ReadEvents \/ ReceiveEvents \/ BroadcastEnds
    PROVE  GInv'
<1>1. /\ TypeOK /\ BroadcastInv /\ ConnectionInv /\ OfferedInv /\ StreamInv
      /\ UNCHANGED <<subscribers, channel, connection, client, offered, lost>>
  BY DEF GInv, ReadEvents, ReceiveEvents, BroadcastEnds, broadcast
<1>2. /\ TypeOK' /\ BroadcastInv'
      /\ Received <= Received'
      /\ \A c \in subscribers : Front(c)' = Front(c)
  <2>1. CASE ReadEvents
    <3>1. UNCHANGED <<events, todo>> /\ Received' = Received
      BY <2>1, <1>1 DEF ReadEvents, broadcast, Received, TypeOK
    <3>2. TypeOK' /\ BroadcastInv'
      BY <2>1, <3>1, <1>1, GoAssumption
         DEF ReadEvents, TypeOK, BroadcastInv, connection, client
    <3>3. QED
      BY <3>1, <3>2, <1>1, ReceivedIsCount DEF Front
  <2>2. CASE ReceiveEvents
    <3>1. CASE reader = "events"
      <4>1. /\ Received' = Received + 1 /\ events' = Received' /\ todo' = subscribers
            /\ todo = {} /\ made > 0 /\ reader' = "reading" /\ made' = made
        BY <2>2, <3>1, <1>1 DEF ReceiveEvents, BroadcastInv, Received, TypeOK
      <4>2. events' \in Messages
        BY <2>2, <3>1, <4>1, <1>1 DEF TypeOK, Messages, Received
      <4>3. TypeOK' /\ BroadcastInv'
        BY <4>1, <4>2, <1>1, GoAssumption DEF TypeOK, BroadcastInv, connection, client, Messages
      <4>4. QED
        BY <4>1, <4>3, <1>1, ReceivedIsCount DEF Front
    <3>2. CASE reader # "events"
      <4>1. /\ UNCHANGED <<events, todo, made>> /\ reader' = "reading"
            /\ Received' = Received
        BY <2>2, <3>2, <1>1 DEF ReceiveEvents, Received
      <4>2. TypeOK' /\ BroadcastInv'
        BY <4>1, <1>1 DEF TypeOK, BroadcastInv, connection, client
      <4>3. QED
        BY <4>1, <4>2, <1>1, ReceivedIsCount DEF Front
    <3>3. QED
      BY <3>1, <3>2
  <2>3. CASE BroadcastEnds
    <3>1. UNCHANGED <<reader, made, todo>> /\ events' = 0 /\ todo = {} /\ Received' = Received
      BY <2>3 DEF BroadcastEnds, Received
    <3>2. TypeOK' /\ BroadcastInv'
      BY <3>1, <1>1 DEF TypeOK, BroadcastInv, connection, client
    <3>3. QED
      BY <3>1, <3>2, <1>1, ReceivedIsCount DEF Front
  <2>4. QED
    BY <2>1, <2>2, <2>3
<1>3. OfferedInv'
  <2> SUFFICES ASSUME NEW c \in Conns
               PROVE  /\ \A m \in offered[c] : m <= Received'
                      /\ \A m, n \in offered[c] : m..n \subseteq offered[c]
                      /\ c \in subscribers /\ offered[c] # {} =>
                            /\ Front(c)' \in offered[c]
                            /\ \A m \in offered[c] : m <= Front(c)'
    BY <1>1 DEF OfferedInv
  <2>1. \A m \in offered[c] : m <= Received /\ m \in Nat
    BY <1>1 DEF OfferedInv, TypeOK, Messages
  <2>2. Received \in Nat /\ Received' \in Nat
    <3>1. made' \in Nat /\ (reader' = "events" => made' > 0)
      BY <1>2, GoAssumption DEF TypeOK, BroadcastInv
    <3>2. Received' = IF reader' = "events" THEN made' - 1 ELSE made'
      BY DEF Received
    <3>3. Received' \in Nat
      <4>1. CASE reader' = "events"
        <5>1. made' \in Nat /\ made' > 0 /\ Received' = made' - 1
          BY <4>1, <3>1, <3>2
        <5>2. \A n \in Nat : n > 0 => n - 1 \in Nat
          OBVIOUS
        <5>3. made' - 1 \in Nat
          BY <5>1, <5>2, Zenon
        <5>4. QED
          BY <5>1, <5>3
      <4>2. CASE reader' # "events"
        BY <4>2, <3>1, <3>2
      <4>3. QED
        BY <4>1, <4>2
    <3>4. Received \in Nat
      BY <1>1, ReceivedIsCount
    <3>5. QED
      BY <3>3, <3>4
  <2>3. QED
    BY <2>1, <2>2, <1>1, <1>2 DEF OfferedInv
<1>4. ConnectionInv' /\ StreamInv'
  BY <1>1 DEF ConnectionInv, StreamInv, Stream, connection, client
<1>5. QED
  BY <1>2, <1>3, <1>4 DEF GInv

\* A message is offered: it ends up in the stream or among the lost ones.
LEMMA OfferKeeps ==
    ASSUME GInv, NEW c \in Conns, Offer(c)
    PROVE  GInv'
<1>1. /\ TypeOK /\ BroadcastInv /\ ConnectionInv /\ OfferedInv /\ StreamInv
      /\ c \in todo /\ todo' = todo \ {c} /\ c \in subscribers
      /\ offered' = [offered EXCEPT ![c] = @ \cup {events}]
      /\ UNCHANGED <<reader, made, events, subscribers, connection, client>>
  BY DEF GInv, Offer, BroadcastInv
<1>2. events = Received /\ events \in Messages /\ events \in Nat \ {0} /\ Received' = Received
  BY <1>1, GoAssumption DEF BroadcastInv, TypeOK, Messages, Received
<1>3. offered[c] \subseteq Messages /\ offered'[c] = offered[c] \cup {events}
      /\ \A d \in Conns \ {c} : offered'[d] = offered[d]
  BY <1>1 DEF TypeOK
<1>4. \A m \in offered[c] : m < events /\ m \in Nat
  <2>1. offered[c] # {} => \A m \in offered[c] : m <= Received - 1
    BY <1>1 DEF OfferedInv, Front
  <2>2. QED
    BY <2>1, <1>2, <1>3 DEF Messages
<1>5. Elements(Stream(c)) = offered[c] \ lost[c] /\ lost[c] \subseteq offered[c]
  BY <1>1 DEF StreamInv
<1>6. ASSUME Len(channel[c]) < Capacity,
             channel' = [channel EXCEPT ![c] = Append(@, events)], UNCHANGED lost
      PROVE  StreamInv'
  <2>1. channel[c] \in Seq(Messages) /\ channel'[c] = Append(channel[c], events)
    BY <1>1, <1>6 DEF TypeOK
  <2>2. channel'[c] \in Seq(Messages) /\ Len(channel'[c]) <= Capacity
    BY <2>1, <1>2, <1>6, AppendProperties, GoAssumption
  <2>3. /\ channel' \in [Conns -> Seq(Messages)]
        /\ \A d \in Conns : Len(channel'[d]) <= Capacity
    BY <2>2, <1>1, <1>6 DEF TypeOK
  <2>4. Stream(c)' = Append(Stream(c), events)
    BY <2>1, <1>1, <1>2, StreamGrows DEF connection
  <2>5. Increasing(Stream(c)') /\ Elements(Stream(c)') = Elements(Stream(c)) \cup {events}
    <3>1. Stream(c) \in Seq(Nat) /\ Increasing(Stream(c))
      BY <1>1, StreamType DEF StreamInv
    <3>2. \A e \in Elements(Stream(c)) : e < events
      BY <1>4, <1>5
    <3>3. QED
      BY <3>1, <3>2, <2>4, <1>2, AppendLarger
  <2>6. ASSUME NEW d \in Conns
        PROVE  /\ Increasing(Stream(d)')
               /\ Elements(Stream(d)') = offered'[d] \ lost'[d]
               /\ lost'[d] \subseteq offered'[d]
    <3>1. CASE d = c
      <4>1. events \notin lost[c]
        BY <1>2, <1>4, <1>5
      <4>2. QED
        BY <3>1, <4>1, <2>5, <1>3, <1>5, <1>6
    <3>2. CASE d # c
      <4>1. Stream(d)' = Stream(d)
        BY <3>2, <1>1, <1>6 DEF Stream, connection, TypeOK
      <4>2. QED
        BY <3>2, <4>1, <1>1, <1>3, <1>6 DEF StreamInv
    <3>3. QED
      BY <3>1, <3>2
  <2>7. QED
    BY <2>3, <2>6, <1>6 DEF StreamInv
<1>7. ASSUME Len(channel[c]) = Capacity,
             lost' = [lost EXCEPT ![c] = @ \cup {events}], UNCHANGED channel
      PROVE  StreamInv'
  <2>1. lost'[c] = lost[c] \cup {events} /\ \A d \in Conns \ {c} : lost'[d] = lost[d]
    BY <1>1, <1>7 DEF TypeOK
  <2>2. \A d \in Conns : Stream(d)' = Stream(d)
    BY <1>1, <1>7 DEF Stream, connection
  <2>3. ASSUME NEW d \in Conns
        PROVE  /\ Increasing(Stream(d)')
               /\ Elements(Stream(d)') = offered'[d] \ lost'[d]
               /\ lost'[d] \subseteq offered'[d]
    <3>1. CASE d = c
      <4>1. events \notin offered[c]
        BY <1>2, <1>4
      <4>2. QED
        BY <3>1, <4>1, <2>1, <2>2, <1>1, <1>3, <1>5 DEF StreamInv
    <3>2. CASE d # c
      BY <3>2, <2>1, <2>2, <1>1, <1>3 DEF StreamInv
    <3>3. QED
      BY <3>1, <3>2
  <2>4. QED
    BY <2>3 DEF StreamInv
<1>8. StreamInv'
  BY <1>6, <1>7 DEF Offer
<1>9. TypeOK'
  <2>1. offered' \in [Conns -> SUBSET Messages]
    BY <1>1, <1>2 DEF TypeOK
  <2>2. CASE UNCHANGED lost /\ channel' = [channel EXCEPT ![c] = Append(@, events)]
             /\ Len(channel[c]) < Capacity
    <3>1. channel[c] \in Seq(Messages)
      BY <1>1 DEF TypeOK
    <3>2. Append(channel[c], events) \in Seq(Messages)
          /\ Len(Append(channel[c], events)) <= Capacity
      BY <3>1, <2>2, <1>2, AppendProperties, GoAssumption
    <3>3. QED
      BY <3>2, <2>1, <2>2, <1>1 DEF TypeOK, connection, client
  <2>3. CASE UNCHANGED channel /\ lost' = [lost EXCEPT ![c] = @ \cup {events}]
    BY <2>1, <2>3, <1>1, <1>2 DEF TypeOK, connection, client
  <2>4. QED
    BY <2>2, <2>3 DEF Offer
<1>10. BroadcastInv'
  BY <1>1, <1>2 DEF BroadcastInv
<1>11. ConnectionInv'
  <2>1. conn[c] \notin {"none", "adding"}
    BY <1>1 DEF ConnectionInv
  <2>2. ASSUME NEW d \in Conns, conn[d] \in {"none", "adding"}
        PROVE  channel'[d] = channel[d] /\ offered'[d] = offered[d] /\ lost'[d] = lost[d]
    BY <2>1, <2>2, <1>1 DEF Offer, TypeOK
  <2>3. QED
    BY <2>2, <1>1 DEF ConnectionInv, connection, client
<1>12. OfferedInv'
  <2> SUFFICES ASSUME NEW d \in Conns
               PROVE  /\ \A m \in offered'[d] : m <= Received'
                      /\ \A m, n \in offered'[d] : m..n \subseteq offered'[d]
                      /\ d \in subscribers /\ offered'[d] # {} =>
                            /\ Front(d)' \in offered'[d]
                            /\ \A m \in offered'[d] : m <= Front(d)'
    BY <1>1 DEF OfferedInv
  <2>1. CASE d = c
    <3>1. Front(c)' = events
      BY <1>1, <1>2 DEF Front
    <3>2. ASSUME NEW m \in offered'[c], NEW n \in offered'[c] PROVE m..n \subseteq offered'[c]
      <4>1. CASE n # events
        BY <4>1, <3>2, <1>1, <1>2, <1>3, <1>4 DEF OfferedInv
      <4>2. CASE n = events /\ offered[c] = {}
        BY <4>2, <3>2, <1>2, <1>3
      <4>3. CASE n = events /\ offered[c] # {} /\ m # events
        <5>1. events - 1 \in offered[c]
          BY <4>3, <1>1, <1>2 DEF OfferedInv, Front
        <5>2. m..(events - 1) \subseteq offered[c]
          BY <4>3, <5>1, <3>2, <1>1, <1>3 DEF OfferedInv
        <5>3. m \in Nat /\ m..n \subseteq (m..(events - 1)) \cup {events}
          BY <4>3, <3>2, <1>2, <1>3, <1>4
        <5>4. QED
          BY <5>2, <5>3, <1>3
      <4>4. CASE n = events /\ m = events
        BY <4>4, <1>2, <1>3
      <4>5. QED
        BY <4>1, <4>2, <4>3, <4>4
    <3>3. QED
      BY <2>1, <3>1, <3>2, <1>2, <1>3, <1>4
  <2>2. CASE d # c
    <3>1. Front(d)' = Front(d)
      BY <2>2, <1>1, <1>2 DEF Front
    <3>2. QED
      BY <2>2, <3>1, <1>1, <1>2, <1>3 DEF OfferedInv
  <2>3. QED
    BY <2>1, <2>2
<1>13. QED
  BY <1>8, <1>9, <1>10, <1>11, <1>12 DEF GInv

\* A connection subscribes when no broadcast is going on.
LEMMA SubscribeKeeps ==
    ASSUME GInv, NEW c \in Conns, Subscribe(c)
    PROVE  GInv'
<1>1. /\ TypeOK /\ BroadcastInv /\ ConnectionInv /\ OfferedInv /\ StreamInv
      /\ conn[c] = "adding" /\ conn' = [conn EXCEPT ![c] = "waiting"]
      /\ events = 0 /\ todo = {}
      /\ subscribers' = subscribers \cup {c}
      /\ UNCHANGED <<reader, made, events, todo, channel, writing, sent, client, offered, lost>>
  BY DEF GInv, Subscribe, BroadcastInv
<1>2. TypeOK' /\ BroadcastInv'
  BY <1>1 DEF TypeOK, BroadcastInv, Received, client
<1>3. ConnectionInv'
  <2>1. conn \in [Conns -> {"none", "adding", "waiting", "writing", "removing", "closed"}]
    BY <1>1 DEF TypeOK
  <2>2. subscribers' = {d \in Conns : conn'[d] \in {"waiting", "writing", "removing"}}
    BY <2>1, <1>1 DEF ConnectionInv
  <2>3. QED
    BY <2>1, <2>2, <1>1 DEF ConnectionInv, client
<1>4. OfferedInv'
  <2>1. offered[c] = {}
    BY <1>1 DEF ConnectionInv
  <2>2. Received' = Received /\ \A d \in Conns : Front(d)' = Front(d)
    BY <1>1 DEF Received, Front
  <2>3. QED
    BY <2>1, <2>2, <1>1 DEF OfferedInv
<1>5. StreamInv'
  BY <1>1 DEF StreamInv, Stream
<1>6. QED
  BY <1>2, <1>3, <1>4, <1>5 DEF GInv

\* A connection takes a message, or has written it: its stream is the same.
LEMMA PassOnKeeps ==
    ASSUME GInv, NEW c \in Conns, Take(c) \/ Written(c)
    PROVE  GInv'
<1>1. /\ TypeOK /\ BroadcastInv /\ ConnectionInv /\ OfferedInv /\ StreamInv
      /\ UNCHANGED <<reader, made, events, todo, subscribers, peer, offered, lost>>
      /\ conn[c] \in {"waiting", "writing"}
  BY DEF GInv, Take, Written, broadcast, client
<1>2. Stream(c)' = Stream(c) /\ TypeOK' /\ ConnectionInv'
  <2>1. CASE Take(c)
    <3>1. /\ channel[c] \in Seq(Messages) /\ Head(channel[c]) \in Messages
          /\ Tail(channel[c]) \in Seq(Messages) /\ Len(Tail(channel[c])) <= Capacity
          /\ 0 \notin Messages
      <4>1. channel[c] \in Seq(Messages) /\ channel[c] # <<>> /\ Len(channel[c]) <= Capacity
        BY <2>1, <1>1 DEF Take, TypeOK
      <4>2. /\ Head(channel[c]) \in Messages /\ Tail(channel[c]) \in Seq(Messages)
            /\ Len(Tail(channel[c])) = Len(channel[c]) - 1
        BY <4>1, HeadTailProperties
      <4>3. Len(channel[c]) \in Nat
        BY <4>1
      <4>4. QED
        BY <4>1, <4>2, <4>3, GoAssumption DEF Messages
    <3>2. /\ writing' = [writing EXCEPT ![c] = Head(channel[c])]
          /\ channel' = [channel EXCEPT ![c] = Tail(channel[c])]
          /\ conn' = [conn EXCEPT ![c] = "writing"] /\ conn[c] = "waiting"
          /\ UNCHANGED <<sent, unread>>
      BY <2>1 DEF Take, client
    <3>3. writing[c] = 0 /\ writing'[c] = Head(channel[c]) /\ channel'[c] = Tail(channel[c])
      BY <3>2, <1>1 DEF ConnectionInv, TypeOK
    <3>4. Stream(c)' = Stream(c)
      BY <3>2, <3>3, <2>1, <1>1, StreamTaken DEF Take
    <3>5. TypeOK'
      BY <3>1, <3>2, <1>1 DEF TypeOK
    <3>6. ConnectionInv'
      <4>1. subscribers' = {d \in Conns : conn'[d] \in {"waiting", "writing", "removing"}}
        BY <3>2, <1>1 DEF ConnectionInv, TypeOK
      <4>2. \A d \in Conns : writing'[d] # 0 <=> conn'[d] \in {"writing", "removing", "closed"}
        BY <3>1, <3>2, <1>1 DEF ConnectionInv, TypeOK
      <4>3. ASSUME NEW d \in Conns, conn'[d] \in {"none", "adding"}
            PROVE  /\ channel'[d] = <<>> /\ sent'[d] = <<>> /\ offered'[d] = {} /\ lost'[d] = {}
                   /\ unread'[d] = 0
        BY <4>3, <3>2, <1>1 DEF ConnectionInv, TypeOK
      <4>4. QED
        BY <4>1, <4>2, <4>3 DEF ConnectionInv
    <3>7. QED
      BY <3>4, <3>5, <3>6
  <2>2. CASE Written(c)
    <3>1. /\ writing' = [writing EXCEPT ![c] = 0]
          /\ sent' = [sent EXCEPT ![c] = Append(sent[c], writing[c])]
          /\ conn' = [conn EXCEPT ![c] = "waiting"] /\ conn[c] = "writing"
          /\ unread' = [unread EXCEPT ![c] = unread[c] + 1] /\ unread[c] < SocketRoom
          /\ channel' = channel
      BY <2>2 DEF Written, broadcast
    <3>2. writing[c] # 0 /\ writing'[c] = 0 /\ sent'[c] = Append(sent[c], writing[c])
      BY <3>1, <1>1 DEF ConnectionInv, TypeOK
    <3>3. Stream(c)' = Stream(c)
      BY <3>1, <3>2, <1>1, StreamWritten
    <3>4. sent[c] \in Seq(Messages) /\ writing[c] \in Messages
      BY <3>2, <1>1 DEF TypeOK
    <3>5. Append(sent[c], writing[c]) \in Seq(Messages)
      BY <3>4, AppendProperties
    <3>6. unread[c] + 1 \in 0..SocketRoom
      BY <3>1, <1>1, GoAssumption DEF TypeOK
    <3>7. TypeOK'
      BY <3>1, <3>5, <3>6, <1>1 DEF TypeOK
    <3>8. ConnectionInv'
      <4>1. subscribers' = {d \in Conns : conn'[d] \in {"waiting", "writing", "removing"}}
        BY <3>1, <1>1 DEF ConnectionInv, TypeOK
      <4>2. \A d \in Conns : writing'[d] # 0 <=> conn'[d] \in {"writing", "removing", "closed"}
        BY <3>1, <1>1 DEF ConnectionInv, TypeOK
      <4>3. ASSUME NEW d \in Conns, conn'[d] \in {"none", "adding"}
            PROVE  /\ channel'[d] = <<>> /\ sent'[d] = <<>> /\ offered'[d] = {} /\ lost'[d] = {}
                   /\ unread'[d] = 0
        BY <4>3, <3>1, <1>1 DEF ConnectionInv, TypeOK
      <4>4. QED
        BY <4>1, <4>2, <4>3 DEF ConnectionInv
    <3>9. QED
      BY <3>3, <3>7, <3>8
  <2>3. QED
    BY <2>1, <2>2
<1>3. BroadcastInv' /\ OfferedInv'
  BY <1>1 DEF BroadcastInv, OfferedInv, Received, Front
<1>4. StreamInv'
  <2>1. \A d \in Conns \ {c} : Stream(d)' = Stream(d)
    BY <1>1 DEF Take, Written, Stream, TypeOK, broadcast
  <2>2. \A d \in Conns : Stream(d)' = Stream(d)
    BY <2>1, <1>2
  <2>3. QED
    BY <2>2, <1>1 DEF StreamInv
<1>5. QED
  BY <1>2, <1>3, <1>4 DEF GInv

\* A connection begins, fails or is removed, or its client does something.
LEMMA OthersKeep ==
    ASSUME GInv, NEW c \in Conns, Accept(c) \/ WriteFails(c) \/ Unsubscribe(c) \/ Peer(c)
    PROVE  GInv'
<1>1. /\ TypeOK /\ BroadcastInv /\ ConnectionInv /\ OfferedInv /\ StreamInv
      /\ UNCHANGED <<reader, made, events, todo, channel, writing, sent, offered, lost>>
  BY DEF GInv, Accept, WriteFails, Unsubscribe, Peer, PeerConnects, PeerReads, PeerLeaves,
         broadcast, connection
<1>2. /\ Received' = Received
      /\ \A d \in Conns : Front(d)' = Front(d) /\ Stream(d)' = Stream(d)
  BY <1>1 DEF Received, Front, Stream
<1>3. /\ subscribers' \subseteq subscribers /\ todo \subseteq subscribers'
      /\ conn' \in [Conns -> {"none", "adding", "waiting", "writing", "removing", "closed"}]
      /\ ConnectionInv'
  <2>0. conn \in [Conns -> {"none", "adding", "waiting", "writing", "removing", "closed"}]
    BY <1>1 DEF TypeOK
  <2>1. CASE Accept(c)
    BY <2>0, <2>1, <1>1 DEF Accept, ConnectionInv, BroadcastInv, broadcast, client
  <2>2. CASE WriteFails(c)
    BY <2>0, <2>2, <1>1 DEF WriteFails, ConnectionInv, BroadcastInv, broadcast, client
  <2>3. CASE Unsubscribe(c)
    BY <2>0, <2>3, <1>1 DEF Unsubscribe, ConnectionInv, BroadcastInv, client
  <2>4. CASE Peer(c)
    <3>1. UNCHANGED <<conn, subscribers>>
      BY <2>4 DEF Peer, PeerConnects, PeerReads, PeerLeaves, broadcast, connection
    <3>2. ASSUME NEW d \in Conns, unread[d] = 0 PROVE unread'[d] = 0
      BY <2>4, <3>2, <1>1 DEF Peer, PeerConnects, PeerReads, PeerLeaves, TypeOK
    <3>3. QED
      BY <2>0, <3>1, <3>2, <1>1 DEF ConnectionInv, BroadcastInv
  <2>5. QED
    BY <2>1, <2>2, <2>3, <2>4
<1>4. peer' \in [Conns -> {"absent", "open", "gone"}] /\ unread' \in [Conns -> 0..SocketRoom]
  <2>1. /\ peer \in [Conns -> {"absent", "open", "gone"}] /\ unread \in [Conns -> 0..SocketRoom]
        /\ SocketRoom \in Nat
    BY <1>1, GoAssumption DEF TypeOK
  <2>2. CASE Accept(c) \/ WriteFails(c) \/ Unsubscribe(c)
    BY <2>1, <2>2 DEF Accept, WriteFails, Unsubscribe, client
  <2>3. CASE PeerConnects(c) \/ PeerLeaves(c)
    BY <2>1, <2>3 DEF PeerConnects, PeerLeaves
  <2>4. CASE PeerReads(c)
    <3>1. unread[c] - 1 \in 0..SocketRoom
      BY <2>1, <2>4 DEF PeerReads
    <3>2. QED
      BY <3>1, <2>1, <2>4 DEF PeerReads
  <2>5. QED
    BY <2>2, <2>3, <2>4 DEF Peer
<1>5. TypeOK'
  BY <1>1, <1>3, <1>4 DEF TypeOK
<1>6. BroadcastInv' /\ OfferedInv' /\ StreamInv'
  BY <1>1, <1>2, <1>3 DEF BroadcastInv, OfferedInv, StreamInv
<1>7. QED
  BY <1>3, <1>5, <1>6 DEF GInv

-----------------------------------------------------------------------------
(* The theorems *)

LEMMA GInvInit == Init => GInv
<1> SUFFICES ASSUME Init PROVE GInv
  OBVIOUS
<1>1. ASSUME NEW c \in Conns
      PROVE  /\ Stream(c) = <<>> /\ Increasing(Stream(c)) /\ Elements(Stream(c)) = {}
             /\ offered[c] = {} /\ lost[c] = {}
  <2>1. Stream(c) = <<>> \o <<>> \o <<>> /\ offered[c] = {} /\ lost[c] = {}
    BY DEF Init, Stream
  <2>2. <<>> \o <<>> \o <<>> = <<>>
    OBVIOUS
  <2>3. QED
    BY <2>1, <2>2 DEF Increasing, Elements
<1>2. TypeOK
  <2>1. <<>> \in Seq(Messages) /\ Len(<<>>) = 0
    BY EmptySeq
  <2>2. /\ channel \in [Conns -> Seq(Messages)] /\ sent \in [Conns -> Seq(Messages)]
        /\ \A c \in Conns : Len(channel[c]) <= Capacity
    BY <2>1, GoAssumption DEF Init
  <2>3. /\ offered \in [Conns -> SUBSET Messages] /\ lost \in [Conns -> SUBSET Messages]
        /\ unread \in [Conns -> 0..SocketRoom] /\ made \in 0..MaxMessages
    BY GoAssumption DEF Init
  <2>4. QED
    BY <2>2, <2>3 DEF Init, TypeOK
<1>3. BroadcastInv /\ ConnectionInv
  BY DEF Init, BroadcastInv, ConnectionInv
<1>4. OfferedInv /\ StreamInv
  BY <1>1 DEF OfferedInv, StreamInv
<1>5. QED
  BY <1>2, <1>3, <1>4 DEF GInv

LEMMA GInvStep == GInv /\ [Next]_vars => GInv'
<1> SUFFICES ASSUME GInv, [Next]_vars PROVE GInv'
  OBVIOUS
<1>1. CASE ReadEvents \/ ReceiveEvents \/ BroadcastEnds
  BY <1>1, FeedKeeps
<1>2. ASSUME NEW c \in Conns, Offer(c) PROVE GInv'
  BY <1>2, OfferKeeps
<1>3. ASSUME NEW c \in Conns, Connection(c) PROVE GInv'
  BY <1>3, SubscribeKeeps, PassOnKeeps, OthersKeep DEF Connection
<1>4. ASSUME NEW c \in Conns, Peer(c) PROVE GInv'
  BY <1>4, OthersKeep
<1>5. CASE UNCHANGED vars
  <2>1. UNCHANGED <<reader, made, events, todo, subscribers, channel, conn, writing, sent,
                    peer, unread, offered, lost>>
    BY <1>5 DEF vars, broadcast, connection, client
  <2>2. QED
    BY <2>1 DEF GInv, TypeOK, BroadcastInv, ConnectionInv, OfferedInv, StreamInv, Received,
                Front, Stream
<1>6. QED
  BY <1>1, <1>2, <1>3, <1>4, <1>5 DEF Next

\* The inductive invariant holds throughout.
LEMMA GInvCorrect == Spec => []GInv
BY GInvInit, GInvStep, PTL DEF Spec

\* The type invariant of the Go watcher; in particular, no subscription holds more
\* than its capacity.
THEOREM GoTypeCorrect == Spec => []TypeOK
<1>1. GInv => TypeOK
  BY DEF GInv
<1>2. QED
  BY <1>1, GInvCorrect, PTL

\* Every client of the Go watcher is offered all messages from its subscription
\* on, and those it has not lost reach it once and in order.
THEOREM StreamsAreInOrder == Spec => []InOrderOrLost
<1>1. GInv => InOrderOrLost
  BY DEF GInv, OfferedInv, StreamInv, Increasing, Elements, InOrderOrLost
<1>2. QED
  BY <1>1, GInvCorrect, PTL

-----------------------------------------------------------------------------
(* The promise of a broadcast *)

\* The parts of an increasing sequence.
LEMMA IncreasingParts ==
    ASSUME NEW s \in Seq(Nat), NEW t \in Seq(Nat), Increasing(s \o t)
    PROVE  /\ Elements(s) \subseteq Elements(s \o t)
           /\ Elements(t) \subseteq Elements(s \o t)
           /\ Increasing(t)
           /\ \A a \in Elements(s), b \in Elements(t) : a < b
<1> DEFINE st == s \o t
<1>1. /\ DOMAIN st = 1..Len(s) + Len(t) /\ DOMAIN s = 1..Len(s) /\ DOMAIN t = 1..Len(t)
      /\ Len(s) \in Nat /\ Len(t) \in Nat
      /\ \A i \in 1..Len(s) : st[i] = s[i]
  OBVIOUS
<1>2. ASSUME NEW j \in 1..Len(t) PROVE Len(s) + j \in DOMAIN st /\ st[Len(s) + j] = t[j]
  BY <1>1
<1> HIDE DEF st
<1>3. \A i, j \in DOMAIN st : i < j => st[i] < st[j]
  BY DEF Increasing, st
<1>4. \A i \in 1..Len(s) : i \in DOMAIN st
  BY <1>1
<1>5. Elements(s) \subseteq Elements(st) /\ Elements(t) \subseteq Elements(st)
  BY <1>1, <1>2, <1>4 DEF Elements
<1>6. ASSUME NEW i \in 1..Len(t), NEW j \in 1..Len(t), i < j PROVE t[i] < t[j]
  <2>1. Len(s) + i < Len(s) + j
    BY <1>1, <1>6
  <2>2. QED
    BY <2>1, <1>2, <1>3
<1>7. ASSUME NEW i \in 1..Len(s), NEW j \in 1..Len(t) PROVE s[i] < t[j]
  <2>1. i < Len(s) + j
    BY <1>1
  <2>2. QED
    BY <2>1, <1>1, <1>2, <1>3, <1>4
<1>8. QED
  BY <1>1, <1>5, <1>6, <1>7 DEF Increasing, Elements, st

\* An increasing sequence has as many elements as its length.
LEMMA IncreasingCardinality ==
    ASSUME NEW s \in Seq(Nat), Increasing(s)
    PROVE  IsFiniteSet(Elements(s)) /\ Cardinality(Elements(s)) = Len(s)
<1> DEFINE D == 1..Len(s)
           at == [i \in D |-> s[i]]
<1>1. Len(s) \in Nat /\ DOMAIN s = D /\ \A i \in D : s[i] \in Nat
  OBVIOUS
<1>2. ASSUME NEW i \in D, NEW j \in D, s[i] = s[j] PROVE i = j
  <2>1. i < j \/ j < i \/ i = j
    BY <1>1
  <2>2. ~(i < j) /\ ~(j < i)
    BY <1>1, <1>2 DEF Increasing
  <2>3. QED
    BY <2>1, <2>2
<1>3. at \in Bijection(D, Elements(s))
  BY <1>1, <1>2 DEF Elements, Bijection, Injection, Surjection, IsInjective
<1>4. IsFiniteSet(D) /\ Cardinality(D) = Len(s)
  BY <1>1, FS_Interval
<1>5. QED
  BY <1>3, <1>4, FS_Bijection DEF ExistsBijection

\* The first element and the others.
LEMMA HeadAndTail ==
    ASSUME NEW s \in Seq(Nat), s # <<>>
    PROVE  Elements(s) = {Head(s)} \cup Elements(Tail(s))
<1>1. /\ Len(s) \in Nat \ {0} /\ Head(s) = s[1]
      /\ Len(Tail(s)) = Len(s) - 1 /\ DOMAIN Tail(s) = 1..Len(s) - 1
      /\ \A i \in 1..Len(s) - 1 : Tail(s)[i] = s[i + 1]
  BY HeadTailProperties, EmptySeq
<1>2. DOMAIN s = 1..Len(s)
  OBVIOUS
<1>3. ASSUME NEW i \in DOMAIN s PROVE s[i] \in {Head(s)} \cup Elements(Tail(s))
  <2>1. CASE i = 1
    BY <2>1, <1>1
  <2>2. CASE i # 1
    <3>1. i - 1 \in DOMAIN Tail(s) /\ Tail(s)[i - 1] = s[i]
      BY <2>2, <1>1, <1>2
    <3>2. QED
      BY <3>1 DEF Elements
  <2>3. QED
    BY <2>1, <2>2
<1>4. Head(s) \in Elements(s)
  BY <1>1, <1>2 DEF Elements
<1>5. ASSUME NEW i \in DOMAIN Tail(s) PROVE Tail(s)[i] \in Elements(s)
  <2>1. i + 1 \in DOMAIN s /\ Tail(s)[i] = s[i + 1]
    BY <1>1, <1>2
  <2>2. QED
    BY <2>1 DEF Elements
<1>6. QED
  BY <1>3, <1>4, <1>5 DEF Elements

\* What is under way to a connection has been offered, the message it writes
\* before those in its subscription.
LEMMA UnderWayInOrder ==
    ASSUME GInv, NEW c \in Conns
    PROVE  /\ channel[c] \in Seq(Nat) /\ Increasing(channel[c])
           /\ Elements(channel[c]) \subseteq offered[c]
           /\ writing[c] # 0 => /\ writing[c] \in offered[c]
                                /\ \A m \in Elements(channel[c]) : writing[c] < m
<1> DEFINE front == sent[c] \o Between(writing[c])
<1>1. /\ TypeOK /\ Increasing(Stream(c)) /\ Elements(Stream(c)) \subseteq offered[c]
  BY DEF GInv, StreamInv
<1>2. /\ Stream(c) = front \o channel[c]
      /\ sent[c] \in Seq(Messages) /\ Between(writing[c]) \in Seq(Messages)
      /\ front \in Seq(Messages) /\ channel[c] \in Seq(Messages)
  BY <1>1, StreamType, Zenon
<1>3. /\ sent[c] \in Seq(Nat) /\ Between(writing[c]) \in Seq(Nat)
      /\ front \in Seq(Nat) /\ channel[c] \in Seq(Nat)
  BY <1>2, MessagesAreNumbers, Zenon
<1>4. /\ Elements(front) \subseteq Elements(Stream(c))
      /\ Elements(channel[c]) \subseteq Elements(Stream(c))
      /\ Increasing(channel[c])
      /\ \A a \in Elements(front), b \in Elements(channel[c]) : a < b
  <2> HIDE DEF front
  <2>1. QED
    BY <1>1, <1>2, <1>3, IncreasingParts
<1>5. writing[c] # 0 => writing[c] \in Elements(front)
  <2> SUFFICES ASSUME writing[c] # 0 PROVE writing[c] \in Elements(front)
    OBVIOUS
  <2>1. front = Append(sent[c], writing[c])
    <3>1. writing[c] \in Messages
      BY <1>1 DEF TypeOK
    <3>2. QED
      BY <3>1, <1>2, AppendIsConcat DEF Between
  <2>2. /\ Len(sent[c]) + 1 \in DOMAIN front /\ front[Len(sent[c]) + 1] = writing[c]
    <3> HIDE DEF front
    <3>1. writing[c] \in Messages
      BY <1>1 DEF TypeOK
    <3>2. Len(front) = Len(sent[c]) + 1 /\ Len(sent[c]) \in Nat /\ front[Len(front)] = writing[c]
      BY <3>1, <2>1, <1>2, AppendProperties
    <3>3. DOMAIN front = 1..Len(front)
      BY <1>3
    <3>4. QED
      BY <3>2, <3>3
  <2>3. QED
    BY <2>2 DEF Elements
<1>6. QED
  BY <1>1, <1>3, <1>4, <1>5

\* A message that is being offered is later than all that were.
LEMMA OfferedIsNew ==
    ASSUME GInv, NEW c \in todo
    PROVE  /\ c \in subscribers /\ c \in Conns
           /\ events = Received /\ events \in Nat \ {0}
           /\ \A m \in offered[c] : m < events
           /\ events \notin Elements(channel[c]) /\ events # writing[c]
<1>1. /\ TypeOK /\ BroadcastInv /\ OfferedInv /\ c \in subscribers /\ c \in Conns
  BY DEF GInv, BroadcastInv, TypeOK
<1>2. events = Received /\ events \in Nat \ {0} /\ offered[c] \subseteq Nat
  BY <1>1 DEF BroadcastInv, TypeOK, Messages
<1>3. \A m \in offered[c] : m <= Received - 1
  BY <1>1 DEF OfferedInv, Front
<1>4. \A m \in offered[c] : m < events
  BY <1>2, <1>3
<1>5. events \notin offered[c]
  BY <1>2, <1>4
<1>6. Elements(channel[c]) \subseteq offered[c] /\ (writing[c] # 0 => writing[c] \in offered[c])
  BY <1>1, UnderWayInOrder
<1>7. events \notin Elements(channel[c]) /\ events # writing[c]
  BY <1>2, <1>5, <1>6
<1>8. QED
  BY <1>1, <1>2, <1>4, <1>7

\* Steps that publish nothing, give and lose nothing and change no membership.
LEMMA PromiseStutters ==
    ASSUME Received' = Received, UNCHANGED <<subscribers, sent, unread>>,
           \A c \in subscribers : UnderWay(c)' = UnderWay(c)
    PROVE  UNCHANGED Promise!vars
BY DEF Promise!vars, Owed, Given

\* run() publishes a message when it receives it.
LEMMA ReceivePublishes ==
    ASSUME GInv, ReceiveEvents
    PROVE  Promise!Publish \/ UNCHANGED Promise!vars
<1>1. /\ TypeOK /\ BroadcastInv /\ events = 0 /\ todo = {} /\ reader' = "reading"
      /\ UNCHANGED <<made, subscribers, channel, writing, sent, unread>>
  BY DEF GInv, BroadcastInv, ReceiveEvents, connection, client
<1>2. CASE reader = "events"
  <2>1. /\ events' = made /\ todo' = subscribers /\ made \in Nat \ {0}
        /\ Received' = Received + 1 /\ Received' = made
    BY <1>1, <1>2 DEF ReceiveEvents, BroadcastInv, TypeOK, Received
  <2>2. ASSUME NEW c \in Conns, c \in subscribers
        PROVE  UnderWay(c)' = UnderWay(c) \cup {Received'}
    BY <2>1, <2>2, <1>1 DEF UnderWay
  <2>3. Owed' = [c \in Conns |-> IF c \in subscribers THEN Owed[c] \cup {Received'} ELSE {}]
    BY <2>2, <1>1 DEF Owed
  <2>4. Given' = Given
    BY <1>1 DEF Given
  <2>5. QED
    BY <2>1, <2>3, <2>4, <1>1 DEF Promise!Publish
<1>3. CASE reader # "events"
  <2>1. Received' = Received /\ events' = events /\ todo' = todo
    BY <1>1, <1>3 DEF ReceiveEvents, Received
  <2>2. \A c \in subscribers : UnderWay(c)' = UnderWay(c)
    BY <2>1, <1>1 DEF UnderWay
  <2>3. QED
    BY <2>1, <2>2, <1>1, PromiseStutters
<1>4. QED
  BY <1>2, <1>3

\* A message that is dropped is the one being published, and a full subscription
\* waits besides.
LEMMA OfferMayLose ==
    ASSUME GInv, NEW c \in Conns, Offer(c)
    PROVE  Promise!Lose(c) \/ UNCHANGED Promise!vars
<1>1. /\ TypeOK /\ c \in todo /\ todo' = todo \ {c}
      /\ UNCHANGED <<reader, made, events, subscribers, writing, sent, unread>>
      /\ Received' = Received /\ Given' = Given
  BY DEF GInv, Offer, connection, client, Received, Given
<1>2. /\ c \in subscribers /\ events = Received /\ events \in Nat \ {0}
      /\ \A m \in offered[c] : m < events
      /\ events \notin Elements(channel[c]) /\ events # writing[c]
  BY <1>1, OfferedIsNew
<1>3. /\ channel[c] \in Seq(Nat) /\ Increasing(channel[c])
      /\ \A m \in Elements(channel[c]) : m < events
  BY <1>2, UnderWayInOrder
<1>4. \A d \in Conns \ {c} : channel'[d] = channel[d]
  BY <1>1 DEF Offer, TypeOK
<1>5. \A d \in subscribers \ {c} : UnderWay(d)' = UnderWay(d)
  BY <1>1, <1>4 DEF UnderWay, TypeOK
<1>6. CASE channel' = [channel EXCEPT ![c] = Append(@, events)]
  <2>1. channel'[c] = Append(channel[c], events)
    BY <1>1, <1>6 DEF TypeOK
  <2>2. Elements(channel'[c]) = Elements(channel[c]) \cup {events}
    BY <2>1, <1>2, <1>3, AppendLarger
  <2>3. UnderWay(c)' = ({writing[c]} \ {0}) \cup Elements(channel'[c])
    BY <1>1 DEF UnderWay
  <2>4. UnderWay(c) = {events} \cup ({writing[c]} \ {0}) \cup Elements(channel[c])
    BY <1>1 DEF UnderWay
  <2>5. \A d \in subscribers : UnderWay(d)' = UnderWay(d)
    BY <2>2, <2>3, <2>4, <1>5
  <2>6. QED
    BY <2>5, <1>1, PromiseStutters
<1>7. CASE Len(channel[c]) = Capacity /\ channel' = channel
  <2>1. UnderWay(c)' = UnderWay(c) \ {events}
    BY <1>1, <1>2, <1>7 DEF UnderWay
  <2>2. Owed[c] = UnderWay(c) /\ Owed' = [Owed EXCEPT ![c] = @ \ {events}]
    BY <2>1, <1>1, <1>2, <1>5 DEF Owed
  <2>3. Cardinality(UnderWay(c)) > Capacity
    <3> DEFINE E == Elements(channel[c])
    <3>1. IsFiniteSet(E) /\ Cardinality(E) = Capacity
      BY <1>3, <1>7, IncreasingCardinality
    <3>2. IsFiniteSet(E \cup {events}) /\ Cardinality(E \cup {events}) = Capacity + 1
      BY <3>1, <1>2, FS_AddElement
    <3>3. UnderWay(c) \in SUBSET ((E \cup {events}) \cup {writing[c]})
          /\ E \cup {events} \in SUBSET UnderWay(c)
      BY <1>1 DEF UnderWay
    <3>4. IsFiniteSet(UnderWay(c))
      <4>1. IsFiniteSet((E \cup {events}) \cup {writing[c]})
        BY <3>2, FS_AddElement
      <4>2. QED
        BY <3>3, <4>1, FS_Subset
    <3>5. Cardinality(E \cup {events}) <= Cardinality(UnderWay(c)) /\ Cardinality(UnderWay(c)) \in Nat
      BY <3>3, <3>4, FS_Subset, FS_CardinalityType
    <3>6. QED
      BY <3>2, <3>5, GoAssumption
  <2>4. events \in UnderWay(c)
    BY <1>1 DEF UnderWay
  <2>5. /\ Received \in Owed[c] /\ Cardinality(Owed[c]) > Capacity
        /\ Owed' = [Owed EXCEPT ![c] = Owed[c] \ {Received}]
    BY <2>2, <2>3, <2>4, <1>2
  <2>6. Promise!Cardinality(Owed[c]) = Cardinality(Owed[c])
    BY DEF Cardinality, Promise!Cardinality
  <2>7. QED
    BY <2>5, <2>6, <1>1 DEF Promise!Lose
<1>8. QED
  BY <1>6, <1>7 DEF Offer

\* A subscriber has nothing under way.
LEMMA SubscribeJoins ==
    ASSUME GInv, NEW c \in Conns, Subscribe(c)
    PROVE  Promise!Join(c)
<1>1. /\ TypeOK /\ BroadcastInv /\ ConnectionInv /\ conn[c] = "adding" /\ todo = {}
      /\ subscribers' = subscribers \cup {c}
      /\ UNCHANGED <<reader, made, events, todo, channel, writing, sent, unread>>
  BY DEF GInv, BroadcastInv, Subscribe, client
<1>2. /\ c \notin subscribers /\ channel[c] = <<>> /\ sent[c] = <<>> /\ writing[c] = 0
      /\ unread' = [unread EXCEPT ![c] = 0]
  BY <1>1 DEF ConnectionInv, TypeOK
<1>3. Received' = Received /\ Given' = Given /\ 0 \in 0..Received
  BY <1>1, ReceivedIsCount DEF Received, Given
<1>4. Given' = [Given EXCEPT ![c] = 0]
  BY <1>2, <1>3 DEF Given
<1>5. Owed' = Owed
  <2>1. UnderWay(c)' = {}
    BY <1>1, <1>2 DEF UnderWay, Elements
  <2>2. \A d \in Conns \ {c} : UnderWay(d)' = UnderWay(d)
    BY <1>1 DEF UnderWay
  <2>3. QED
    BY <2>1, <2>2, <1>1, <1>2 DEF Owed
<1>6. QED
  BY <1>1, <1>2, <1>3, <1>4, <1>5 DEF Promise!Join

\* A message that a connection takes stays under way.
LEMMA TakeStutters ==
    ASSUME GInv, NEW c \in Conns, Take(c)
    PROVE  UNCHANGED Promise!vars
<1>1. /\ TypeOK /\ ConnectionInv /\ conn[c] = "waiting" /\ channel[c] # <<>>
      /\ writing' = [writing EXCEPT ![c] = Head(channel[c])]
      /\ channel' = [channel EXCEPT ![c] = Tail(channel[c])]
      /\ UNCHANGED <<reader, made, events, todo, subscribers, sent, unread>>
  BY DEF GInv, Take, client
<1>2. /\ writing[c] = 0 /\ writing'[c] = Head(channel[c]) /\ channel'[c] = Tail(channel[c])
      /\ \A d \in Conns \ {c} : writing'[d] = writing[d] /\ channel'[d] = channel[d]
  BY <1>1 DEF ConnectionInv, TypeOK
<1>3. Head(channel[c]) # 0 /\ Elements(channel[c]) = {Head(channel[c])} \cup Elements(Tail(channel[c]))
  <2>1. channel[c] \in Seq(Messages) /\ channel[c] \in Seq(Nat)
    BY <1>1, StreamType, MessagesAreNumbers, Zenon
  <2>2. Head(channel[c]) \in Messages
    BY <2>1, <1>1, HeadTailProperties
  <2>3. QED
    BY <2>1, <2>2, <1>1, HeadAndTail DEF Messages
<1>4. UnderWay(c)' = UnderWay(c)
  BY <1>1, <1>2, <1>3 DEF UnderWay
<1>5. \A d \in subscribers : UnderWay(d)' = UnderWay(d)
  BY <1>1, <1>2, <1>4 DEF UnderWay, TypeOK
<1>6. Received' = Received
  BY <1>1 DEF Received
<1>7. QED
  BY <1>1, <1>5, <1>6, PromiseStutters

\* A message that is written was the oldest under way.
LEMMA WrittenGives ==
    ASSUME GInv, NEW c \in Conns, Written(c)
    PROVE  Promise!Give(c)
<1> DEFINE m == writing[c]
<1>1. /\ TypeOK /\ ConnectionInv /\ conn[c] = "writing"
      /\ writing' = [writing EXCEPT ![c] = 0]
      /\ sent' = [sent EXCEPT ![c] = Append(@, m)]
      /\ unread' = [unread EXCEPT ![c] = @ + 1]
      /\ UNCHANGED <<reader, made, events, todo, subscribers, channel>>
  BY DEF GInv, Written, broadcast
<1>2. m # 0 /\ m \in Messages /\ c \in subscribers
  BY <1>1 DEF ConnectionInv, TypeOK
<1>3. /\ \A n \in Elements(channel[c]) : m < n
      /\ m \in offered[c]
  BY <1>2, UnderWayInOrder
<1>4. c \in todo => m < events
  BY <1>3, OfferedIsNew
<1>5. /\ Owed[c] = UnderWay(c) /\ m \in UnderWay(c)
      /\ \A n \in UnderWay(c) : m <= n
  <2>1. m \in Nat
    BY <1>2 DEF Messages
  <2>2. Elements(channel[c]) \subseteq Nat
    BY <1>1, UnderWayInOrder DEF TypeOK, Messages
  <2>3. c \in todo => events \in Nat
    BY OfferedIsNew
  <2>4. QED
    BY <2>1, <2>2, <2>3, <1>2, <1>3, <1>4 DEF Owed, UnderWay
<1>6. UnderWay(c)' = UnderWay(c) \ {m}
  <2>1. m \notin Elements(channel[c]) /\ (c \in todo => m # events)
    <3>1. m \in Nat /\ ~(m < m)
      BY <1>2 DEF Messages
    <3>2. QED
      BY <3>1, <1>3, <1>4
  <2>2. writing'[c] = 0
    BY <1>1 DEF TypeOK
  <2>3. QED
    BY <2>1, <2>2, <1>1 DEF UnderWay
<1>7. \A d \in Conns \ {c} : UnderWay(d)' = UnderWay(d)
  BY <1>1 DEF UnderWay, TypeOK
<1>8. Owed' = [Owed EXCEPT ![c] = @ \ {m}]
  BY <1>1, <1>2, <1>5, <1>6, <1>7 DEF Owed
<1>9. Given' = [Given EXCEPT ![c] = m]
  <2>1. sent[c] \in Seq(Messages) /\ sent'[c] = Append(sent[c], m)
    BY <1>1 DEF TypeOK
  <2>2. sent'[c] # <<>> /\ sent'[c][Len(sent'[c])] = m
    BY <2>1, <1>2, AppendProperties
  <2>3. \A d \in Conns \ {c} : sent'[d] = sent[d]
    BY <1>1 DEF TypeOK
  <2>4. QED
    BY <2>2, <2>3 DEF Given
<1>10. Received' = Received
  BY <1>1 DEF Received
<1>11. QED
  BY <1>1, <1>5, <1>8, <1>9, <1>10 DEF Promise!Give

LEMMA UnsubscribeLeaves ==
    ASSUME GInv, NEW c \in Conns, Unsubscribe(c)
    PROVE  Promise!Leave(c)
<1>1. /\ subscribers' = subscribers \ {c}
      /\ UNCHANGED <<reader, made, events, todo, channel, writing, sent, unread>>
  BY DEF Unsubscribe, client
<1>2. Received' = Received /\ Given' = Given /\ \A d \in Conns : UnderWay(d)' = UnderWay(d)
  BY <1>1 DEF Received, Given, UnderWay
<1>3. Owed' = [Owed EXCEPT ![c] = {}]
  BY <1>1, <1>2 DEF Owed
<1>4. QED
  BY <1>1, <1>2, <1>3 DEF Promise!Leave

LEMMA PeerReadsMessage ==
    ASSUME NEW c \in Conns, PeerReads(c)
    PROVE  Promise!Read(c)
<1>1. /\ unread[c] > 0 /\ unread' = [unread EXCEPT ![c] = @ - 1]
      /\ UNCHANGED <<reader, made, events, todo, subscribers, channel, writing, sent>>
  BY DEF PeerReads, broadcast, connection
<1>2. Received' = Received /\ Given' = Given /\ Owed' = Owed
  BY <1>1 DEF Received, Given, Owed, UnderWay
<1>3. QED
  BY <1>1, <1>2 DEF Promise!Read

\* Every other step is invisible in the broadcast: reading an event, going back
\* to the select, the beginning and the failure of a connection, clients
\* that come and go.
LEMMA OthersPromiseNothing ==
    ASSUME GInv,
           \/ ReadEvents \/ BroadcastEnds \/ UNCHANGED vars
           \/ \E c \in Conns : Accept(c) \/ WriteFails(c) \/ PeerConnects(c) \/ PeerLeaves(c)
    PROVE  UNCHANGED Promise!vars
<1>1. UNCHANGED <<subscribers, todo, channel, writing, sent, unread>>
  BY DEF ReadEvents, BroadcastEnds, vars, Accept, WriteFails, PeerConnects, PeerLeaves,
         broadcast, connection, client
<1>2. Received' = Received
  <2>1. CASE ReadEvents
    BY <2>1 DEF ReadEvents, Received, GInv, TypeOK
  <2>2. CASE ~ReadEvents
    BY <2>2 DEF BroadcastEnds, vars, Accept, WriteFails, PeerConnects, PeerLeaves, Received
  <2>3. QED
    BY <2>1, <2>2
<1>3. \A c \in subscribers : UnderWay(c)' = UnderWay(c)
  <2>1. events' = events \/ todo = {}
    BY DEF ReadEvents, BroadcastEnds, vars, Accept, WriteFails, PeerConnects, PeerLeaves,
           broadcast
  <2>2. QED
    BY <2>1, <1>1 DEF UnderWay
<1>4. QED
  BY <1>1, <1>2, <1>3, PromiseStutters

\* The goroutines and channels of the Go watcher keep the promise of a broadcast
\* that loses a message for a client only when Capacity earlier ones wait for it.
THEOREM GoImplementsBroadcast == Spec => ImplementsBroadcast
<1>1. Init => Promise!Init
  <2> SUFFICES ASSUME Init PROVE Promise!Init
    OBVIOUS
  <2>1. Received = 0 /\ subscribers = {} /\ \A c \in Conns : sent[c] = <<>>
    BY DEF Init, Received
  <2>2. QED
    BY <2>1 DEF Init, Owed, Given, Promise!Init
<1>2. GInv /\ [Next]_vars => [Promise!Next]_(Promise!vars)
  <2> SUFFICES ASSUME GInv, [Next]_vars PROVE [Promise!Next]_(Promise!vars)
    OBVIOUS
  <2>1. CASE \/ ReadEvents \/ BroadcastEnds \/ UNCHANGED vars
             \/ \E c \in Conns : Accept(c) \/ WriteFails(c) \/ PeerConnects(c) \/ PeerLeaves(c)
    BY <2>1, OthersPromiseNothing
  <2>2. CASE ReceiveEvents
    BY <2>2, ReceivePublishes DEF Promise!Next
  <2>3. ASSUME NEW c \in Conns, Offer(c) \/ Take(c)
        PROVE  [Promise!Next]_(Promise!vars)
    BY <2>3, OfferMayLose, TakeStutters DEF Promise!Next
  <2>4. ASSUME NEW c \in Conns, Subscribe(c) \/ Written(c) \/ PeerReads(c) \/ Unsubscribe(c)
        PROVE  Promise!Next
    BY <2>4, SubscribeJoins, WrittenGives, PeerReadsMessage, UnsubscribeLeaves DEF Promise!Next
  <2>5. QED
    BY <2>1, <2>2, <2>3, <2>4 DEF Next, Connection, Peer
<1>3. QED
  BY <1>1, <1>2, GInvCorrect, PTL DEF Spec, ImplementsBroadcast, Promise!Spec

=============================================================================
