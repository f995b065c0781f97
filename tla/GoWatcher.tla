------------------------------ MODULE GoWatcher ------------------------------
(***************************************************************************)
(* The Go watcher (watcher.go:25-122, fswatcher.go:64-241): one goroutine  *)
(* reads events, run() broadcasts them and keeps the set of subscribers,   *)
(* and each connection has a goroutine that subscribes, writes what it     *)
(* gets and unsubscribes when a write fails.  They meet on two unbuffered  *)
(* channels, eventFeed and controlChannel; a send and its receive are one  *)
(* step.  A subscription is a buffered channel; run() never waits for room *)
(* in it but drops the message.                                            *)
(*                                                                         *)
(* Only subscriptions in JSON are used by the program.  The others go the  *)
(* same way.  Messages are numbered in the order in which they are read.   *)
(***************************************************************************)
EXTENDS Naturals, Sequences

CONSTANTS
    Conns,          \* connections, one for each client that comes
    Capacity,       \* of a subscription: 10 in the code
    SocketRoom,     \* messages a client's socket holds
    MaxMessages     \* bound: messages with events

ASSUME GoAssumption ==
    /\ Capacity \in Nat \ {0}
    /\ SocketRoom \in Nat \ {0}
    /\ MaxMessages \in Nat

VARIABLES
    reader,         \* the reading goroutine: reading, or sending what it read
    made,           \* how many messages with events have been read
    events,         \* the message run() is broadcasting; 0 in its select
    todo,           \* the subscribers that have not been offered it yet
    subscribers,    \* jsonSubscribers
    channel,        \* what is in each subscription
    conn,           \* where the goroutine of each connection is
    writing,        \* the message it is writing, or 0
    peer,           \* the client: absent, open or gone
    unread,         \* messages in the client's socket
    sent,           \* history: the messages written to the client
    offered,        \* history: the messages broadcast while it was subscribed
    lost            \* history: those dropped for it

broadcast == <<events, todo, subscribers, channel>>
connection == <<conn, writing, sent>>
client == <<peer, unread>>
vars == <<reader, made, broadcast, connection, client, offered, lost>>

Messages == 1..MaxMessages

Init ==
    /\ reader = "reading"
    /\ made = 0
    /\ events = 0
    /\ todo = {}
    /\ subscribers = {}
    /\ channel = [c \in Conns |-> <<>>]
    /\ conn = [c \in Conns |-> "none"]
    /\ writing = [c \in Conns |-> 0]
    /\ sent = [c \in Conns |-> <<>>]
    /\ peer = [c \in Conns |-> "absent"]
    /\ unread = [c \in Conns |-> 0]
    /\ offered = [c \in Conns |-> {}]
    /\ lost = [c \in Conns |-> {}]

-----------------------------------------------------------------------------
(* The reading goroutine *)

\* ReadEvents() returns; with every event filtered out its result is empty.  An
\* error is printed and changes nothing.
ReadEvents ==
    /\ reader = "reading"
    /\ \/ /\ made < MaxMessages
          /\ made' = made + 1
          /\ reader' = "events"
       \/ /\ reader' = "empty"
          /\ UNCHANGED made
    /\ UNCHANGED <<broadcast, connection, client, offered, lost>>

-----------------------------------------------------------------------------
(* run() *)

\* Changed form of ReceiveEvents: without subscribers nothing is received.
ReceiveEventsForSubscribers ==
    /\ events = 0
    /\ reader # "reading" /\ subscribers # {}
    /\ reader' = "reading"
    /\ IF reader = "events" THEN events' = made /\ todo' = subscribers
                            ELSE UNCHANGED <<events, todo>>
    /\ UNCHANGED <<made, subscribers, channel, connection, client, offered, lost>>

\* eventFeed: an empty message is ignored.
ReceiveEvents ==
    /\ events = 0
    /\ reader # "reading"
    /\ reader' = "reading"
    /\ IF reader = "events" THEN events' = made /\ todo' = subscribers
                            ELSE UNCHANGED <<events, todo>>
    /\ UNCHANGED <<made, subscribers, channel, connection, client, offered, lost>>

\* Changed form of Offer: a full subscription loses its oldest message instead.
OfferDisplacing(c) ==
    /\ c \in todo
    /\ channel' = [channel EXCEPT ![c] = Append(IF Len(@) < Capacity THEN @ ELSE Tail(@), events)]
    /\ offered' = [offered EXCEPT ![c] = @ \cup {events}]
    /\ lost' = [lost EXCEPT ![c] = IF Len(channel[c]) < Capacity THEN @ ELSE @ \cup {events}]
    /\ todo' = todo \ {c}
    /\ UNCHANGED <<reader, made, events, subscribers, connection, client>>

\* Changed form of Offer: the last place of a subscription is not used.
OfferSparing(c) ==
    /\ c \in todo
    /\ IF Len(channel[c]) < Capacity - 1
       THEN channel' = [channel EXCEPT ![c] = Append(@, events)] /\ UNCHANGED lost
       ELSE lost' = [lost EXCEPT ![c] = @ \cup {events}] /\ UNCHANGED channel
    /\ offered' = [offered EXCEPT ![c] = @ \cup {events}]
    /\ todo' = todo \ {c}
    /\ UNCHANGED <<reader, made, events, subscribers, connection, client>>

\* Changed form of Offer: a subscription of any length.
OfferAlways(c) ==
    /\ c \in todo
    /\ channel' = [channel EXCEPT ![c] = Append(@, events)]
    /\ offered' = [offered EXCEPT ![c] = @ \cup {events}]
    /\ todo' = todo \ {c}
    /\ UNCHANGED <<reader, made, events, subscribers, connection, client, lost>>

\* One turn of the loop over the subscribers, in the arbitrary order of a map.
Offer(c) ==
    /\ c \in todo
    /\ \/ /\ Len(channel[c]) < Capacity
          /\ channel' = [channel EXCEPT ![c] = Append(@, events)]
          /\ UNCHANGED lost
       \/ /\ Len(channel[c]) = Capacity
          /\ lost' = [lost EXCEPT ![c] = @ \cup {events}]
          /\ UNCHANGED channel
    /\ offered' = [offered EXCEPT ![c] = @ \cup {events}]
    /\ todo' = todo \ {c}
    /\ UNCHANGED <<reader, made, events, subscribers, connection, client>>

\* Changed form of BroadcastEnds: subscriptions have no buffer, so that run()
\* waits until the message has been taken.
BroadcastEndsTaken ==
    /\ events # 0 /\ todo = {}
    /\ \A c \in subscribers : channel[c] = <<>>
    /\ events' = 0
    /\ UNCHANGED <<reader, made, todo, subscribers, channel, connection, client, offered, lost>>

\* Back to the select.
BroadcastEnds ==
    /\ events # 0 /\ todo = {}
    /\ events' = 0
    /\ UNCHANGED <<reader, made, todo, subscribers, channel, connection, client, offered, lost>>

-----------------------------------------------------------------------------
(* The goroutine of a connection *)

\* Accept() returns and the goroutine starts.
Accept(c) ==
    /\ conn[c] = "none" /\ peer[c] # "absent"
    /\ conn' = [conn EXCEPT ![c] = "adding"]
    /\ UNCHANGED <<reader, made, broadcast, writing, sent, client, offered, lost>>

\* AddJsonSubscription(), on controlChannel.
Subscribe(c) ==
    /\ conn[c] = "adding"
    /\ events = 0
    /\ subscribers' = subscribers \cup {c}
    /\ conn' = [conn EXCEPT ![c] = "waiting"]
    /\ UNCHANGED <<reader, made, events, todo, channel, writing, sent, client, offered, lost>>

Take(c) ==
    /\ conn[c] = "waiting"
    /\ channel[c] # <<>>
    /\ writing' = [writing EXCEPT ![c] = Head(channel[c])]
    /\ channel' = [channel EXCEPT ![c] = Tail(@)]
    /\ conn' = [conn EXCEPT ![c] = "writing"]
    /\ UNCHANGED <<reader, made, events, todo, subscribers, sent, client, offered, lost>>

\* conn.Write() waits until there is room.
Written(c) ==
    /\ conn[c] = "writing"
    /\ peer[c] = "open" /\ unread[c] < SocketRoom
    /\ unread' = [unread EXCEPT ![c] = @ + 1]
    /\ sent' = [sent EXCEPT ![c] = Append(@, writing[c])]
    /\ writing' = [writing EXCEPT ![c] = 0]
    /\ conn' = [conn EXCEPT ![c] = "waiting"]
    /\ UNCHANGED <<reader, made, broadcast, peer, offered, lost>>

\* Changed form of WriteFails: the error does not end the goroutine.
WriteFailsOn(c) ==
    /\ conn[c] = "writing"
    /\ peer[c] = "gone"
    /\ writing' = [writing EXCEPT ![c] = 0]
    /\ conn' = [conn EXCEPT ![c] = "waiting"]
    /\ UNCHANGED <<reader, made, broadcast, sent, client, offered, lost>>

\* The goroutine returns: its deferred subscription.Close() comes first.
WriteFails(c) ==
    /\ conn[c] = "writing"
    /\ peer[c] = "gone"
    /\ conn' = [conn EXCEPT ![c] = "removing"]
    /\ UNCHANGED <<reader, made, broadcast, writing, sent, client, offered, lost>>

\* subscription.Close(), on controlChannel, and conn.Close().
Unsubscribe(c) ==
    /\ conn[c] = "removing"
    /\ events = 0
    /\ subscribers' = subscribers \ {c}
    /\ conn' = [conn EXCEPT ![c] = "closed"]
    /\ UNCHANGED <<reader, made, events, todo, channel, writing, sent, client, offered, lost>>

-----------------------------------------------------------------------------
(* The clients *)

PeerConnects(c) ==
    /\ peer[c] = "absent"
    /\ peer' = [peer EXCEPT ![c] = "open"]
    /\ UNCHANGED <<reader, made, broadcast, connection, unread, offered, lost>>

PeerReads(c) ==
    /\ peer[c] = "open" /\ unread[c] > 0
    /\ unread' = [unread EXCEPT ![c] = @ - 1]
    /\ UNCHANGED <<reader, made, broadcast, connection, peer, offered, lost>>

PeerLeaves(c) ==
    /\ peer[c] = "open"
    /\ peer' = [peer EXCEPT ![c] = "gone"]
    /\ UNCHANGED <<reader, made, broadcast, connection, unread, offered, lost>>

-----------------------------------------------------------------------------
Connection(c) == Accept(c) \/ Subscribe(c) \/ Take(c) \/ Written(c) \/ WriteFails(c) \/ Unsubscribe(c)
Peer(c) == PeerConnects(c) \/ PeerReads(c) \/ PeerLeaves(c)

Next ==
    \/ ReadEvents
    \/ ReceiveEvents
    \/ BroadcastEnds
    \/ \E c \in Conns : Offer(c) \/ Connection(c) \/ Peer(c)

Spec == Init /\ [][Next]_vars

\* Goroutines that can go on do.  A select with several channels ready picks one
\* at random, so a send that waits for it is received some time.  Nothing is
\* assumed of the file system and the clients.
Fairness ==
    /\ SF_vars(ReceiveEvents)
    /\ WF_vars(BroadcastEnds)
    /\ \A c \in Conns :
          /\ WF_vars(Offer(c))
          /\ SF_vars(Subscribe(c) \/ Unsubscribe(c))
          /\ WF_vars(Accept(c) \/ Take(c) \/ Written(c) \/ WriteFails(c))

FairSpec == Spec /\ Fairness

-----------------------------------------------------------------------------
TypeOK ==
    /\ reader \in {"reading", "events", "empty"}
    /\ made \in 0..MaxMessages
    /\ events \in {0} \cup Messages
    /\ todo \subseteq Conns
    /\ subscribers \subseteq Conns
    /\ channel \in [Conns -> Seq(Messages)]
    /\ \A c \in Conns : Len(channel[c]) <= Capacity
    /\ conn \in [Conns -> {"none", "adding", "waiting", "writing", "removing", "closed"}]
    /\ writing \in [Conns -> {0} \cup Messages]
    /\ sent \in [Conns -> Seq(Messages)]
    /\ peer \in [Conns -> {"absent", "open", "gone"}]
    /\ unread \in [Conns -> 0..SocketRoom]
    /\ offered \in [Conns -> SUBSET Messages]
    /\ lost \in [Conns -> SUBSET Messages]

\* What a connection has got or will get of its subscription, oldest first.
Stream(c) == sent[c] \o (IF writing[c] = 0 THEN <<>> ELSE <<writing[c]>>) \o channel[c]

\* From its subscription on a client is offered every message, and gets those
\* that are not dropped for it once each and in order, whatever becomes of the
\* other clients meanwhile (fswatcher.go:230-236, watcher.go:76-80).
InOrderOrLost ==
    \A c \in Conns :
        /\ \A i, j \in DOMAIN Stream(c) : i < j => Stream(c)[i] < Stream(c)[j]
        /\ {Stream(c)[i] : i \in DOMAIN Stream(c)} = offered[c] \ lost[c]
        /\ \A m, n \in offered[c] : m..n \subseteq offered[c]

\* Nobody waits for run() for ever, in AddJsonSubscription() or in Close(), even
\* when another client has stopped reading (fswatcher.go:83, 181, 203, 231).
RequestsAreTaken ==
    \A c \in Conns : conn[c] \in {"adding", "removing"} ~>
                        conn[c] \notin {"adding", "removing"}

\* The reading goroutine always gets rid of what it has read, with subscribers or
\* without: the kernel's queue is drained (fswatcher.go:195, 214-216).
EventsAreDrained == reader # "reading" ~> reader = "reading"

\* The subscription of a client that left goes with the first message it would
\* have got (watcher.go:79-84).
GoneClientsLeave ==
    \A c \in Conns : peer[c] = "gone" /\ channel[c] # <<>> ~> conn[c] = "closed"

\* The last message that run() has received.
Received == IF reader = "events" THEN made - 1 ELSE made

Elements(s) == {s[i] : i \in DOMAIN s}

\* What is under way to a subscriber: the message it has still to be offered, the
\* one its connection is writing, and those in its subscription.
UnderWay(c) ==
    (IF c \in todo THEN {events} ELSE {}) \cup ({writing[c]} \ {0}) \cup Elements(channel[c])
Owed == [c \in Conns |-> IF c \in subscribers THEN UnderWay(c) ELSE {}]
Given == [c \in Conns |-> IF sent[c] = <<>> THEN 0 ELSE sent[c][Len(sent[c])]]

\* A message is published when run() receives it.
Promise == INSTANCE Broadcast WITH
    Clients <- Conns,
    Room <- Capacity,
    published <- Received,
    members <- subscribers,
    owed <- Owed,
    given <- Given,
    inbox <- unread

\* The goroutines and channels together are a broadcast that loses a message for
\* a client only while Capacity earlier ones wait for it, and none for the others
\* (fswatcher.go:195-241, watcher.go:72-91).
ImplementsBroadcast == Promise!Spec

=============================================================================
