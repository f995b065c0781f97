-------------------------- MODULE WatcherLoopProofs --------------------------
(***************************************************************************)
(* For any descriptors, capacities and number of messages: the table of    *)
(* clients is consistent, no client misses a message, buffers are freed    *)
(* exactly once, and only a client that does not read aborts the watcher.  *)
(***************************************************************************)
EXTENDS WatcherLoop, FiniteSetTheorems, SequenceTheorems, TLAPS

\* The queue holds the last messages made, in order.
Numbered ==
    /\ Len(json_queue) <= made
    /\ \A i \in 1..Len(json_queue) : json_queue[i] = Taken + i

\* No descriptor has two entries.
EntriesDistinct == \A i, j \in Used : clients[i] = clients[j] => i = j

\* clients_count and the entries agree with the sockets.
TableInv ==
    phase # "exited" =>
        /\ clients_count = Cardinality(Used)
        /\ Members = {f \in Fds : conn[f] # "free"}

\* Only clients have poll handles, and there are finitely many.
PolledInv ==
    /\ phase # "exited" => Polled \subseteq Members
    /\ IsFiniteSet(Polled)

\* A callback finds what epoll_wait() reported.
BatchInv ==
    /\ "fs" \in handles => made < MaxMessages
    /\ \A f \in writable : conn[f] = "open" => unread[f] < SocketRoom

\* Once the callbacks of an iteration have run, a handle is left over only when
\* its socket was full.
LeftoverInv ==
    /\ phase = "dispatch" /\ Polled \ writable # {} => slow
    /\ phase = "idle" /\ Polled # {} => slow

\* An end without uv_stop() is that by SIGINT.
StoppedInv == phase \in {"ended", "exited"} /\ ~stop => Polled = {}

WInv ==
    /\ TypeOK
    /\ Numbered
    /\ EntriesDistinct /\ TableInv
    /\ PolledInv /\ RefcountExact
    /\ ClientsMissNothing
    /\ BatchInv /\ LeftoverInv /\ StoppedInv
    /\ IdleMeansWork /\ AbortsOnlyForSlowClient

-----------------------------------------------------------------------------
(* The table of clients *)

\* NoFd is no descriptor.
LEMMA NoFdIsFree == NoFd \notin Fds
BY WatcherAssumption DEF NoFd

\* The entries in use are finitely many indices, and name descriptors.
LEMMA UsedEntries ==
    ASSUME TypeOK
    PROVE  /\ Used \subseteq 1..Len(clients)
           /\ IsFiniteSet(Used) /\ Cardinality(Used) \in Nat
           /\ Cardinality(Used) <= Len(clients)
           /\ Cardinality(Used) = Len(clients) => Used = 1..Len(clients)
           /\ \A i \in Used : clients[i] \in Fds
           /\ Members \subseteq Fds
<1>1. clients \in Seq(Fds \cup {NoFd}) /\ Len(clients) \in Nat
  BY DEF TypeOK
<1>2. Used \subseteq 1..Len(clients) /\ \A i \in Used : clients[i] \in Fds
  BY <1>1 DEF Used
<1>3. IsFiniteSet(1..Len(clients)) /\ Cardinality(1..Len(clients)) = Len(clients)
  BY <1>1, FS_Interval
<1>4. /\ IsFiniteSet(Used) /\ Cardinality(Used) <= Len(clients)
      /\ Cardinality(Used) = Len(clients) => Used = 1..Len(clients)
  BY <1>2, <1>3, FS_Subset
<1>5. Cardinality(Used) \in Nat
  BY <1>4, FS_CardinalityType
<1>6. QED
  BY <1>2, <1>4, <1>5 DEF Members

\* With one entry for each client, there are as many entries as clients.
LEMMA OneEntryEach ==
    ASSUME TypeOK, EntriesDistinct
    PROVE  IsFiniteSet(Members) /\ Cardinality(Members) = Cardinality(Used)
<1> DEFINE entry == [i \in Used |-> clients[i]]
<1>1. entry \in Bijection(Used, Members)
  BY DEF EntriesDistinct, Members, Bijection, Injection, Surjection, IsInjective
<1>2. QED
  BY <1>1, UsedEntries, FS_Bijection DEF ExistsBijection

\* send_jsons() reaches every client when clients_count is right.
LEMMA AllAreAddressed ==
    ASSUME TypeOK, clients_count = Cardinality(Used)
    PROVE  Addressed = Members
<1>1. ASSUME NEW j \in Used PROVE Cardinality({k \in Used : k <= j}) <= clients_count
  <2>1. {k \in Used : k <= j} \in SUBSET Used
    OBVIOUS
  <2>2. QED
    BY <2>1, UsedEntries, FS_Subset
<1>2. {j \in Used : Cardinality({k \in Used : k <= j}) <= clients_count} = Used
  BY <1>1
<1>3. QED
  BY <1>2 DEF Addressed, Members

\* The new client gets a free entry: there is one, and the others stay.
LEMMA ClientIsAdded ==
    ASSUME TypeOK, EntriesDistinct, TableInv, phase # "exited",
           NEW f \in Fds, f \notin Members, AddClient(f)
    PROVE  /\ clients' \in Seq(Fds \cup {NoFd})
           /\ EntriesDistinct'
           /\ clients_count' \in Nat
           /\ clients_count' = Cardinality(Used')
           /\ Members' = Members \cup {f}
<1> USE NoFdIsFree
<1>1. /\ clients \in Seq(Fds \cup {NoFd}) /\ Len(clients) \in Nat
      /\ clients_count = Cardinality(Used)
  BY DEF TypeOK, TableInv
<1> DEFINE padding == [i \in 1..Len(clients) |-> NoFd]
           free == {i \in DOMAIN Grown : Grown[i] = NoFd}
<1>2. /\ padding \in Seq(Fds \cup {NoFd}) /\ Len(padding) = Len(clients)
      /\ \A i \in 1..Len(clients) : padding[i] = NoFd
  BY <1>1
<1>3. /\ Grown \in Seq(Fds \cup {NoFd})
      /\ DOMAIN clients \subseteq DOMAIN Grown
      /\ \A i \in DOMAIN clients : Grown[i] = clients[i]
      /\ \A i \in DOMAIN Grown \ DOMAIN clients : Grown[i] = NoFd
      /\ \E i \in DOMAIN Grown : Grown[i] = NoFd
  <2>1. CASE clients = <<>>
    <3>1. Grown = [i \in 1..InitialCapacity |-> NoFd] /\ InitialCapacity \in Nat \ {0}
      BY <2>1, WatcherAssumption DEF Grown
    <3>2. 1 \in DOMAIN Grown /\ Grown[1] = NoFd
      BY <3>1
    <3>3. QED
      BY <2>1, <3>1, <3>2
  <2>2. CASE clients # <<>> /\ clients_count = Len(clients)
    <3>1. Grown = clients \o padding
      BY <2>2 DEF Grown
    <3>2. Len(clients) > 0
      <4>1. Len(clients) \in Nat \ {0}
        BY <2>2, <1>1, EmptySeq, Zenon
      <4>2. QED
        BY <4>1
    <3> HIDE DEF padding
    <3>3. /\ Grown \in Seq(Fds \cup {NoFd})
          /\ Len(Grown) = Len(clients) + Len(clients)
          /\ \A i \in 1..Len(clients) : Grown[i] = clients[i]
          /\ \A i \in 1..Len(clients) : Grown[Len(clients) + i] = padding[i]
      <4>1. /\ Grown \in Seq(Fds \cup {NoFd})
            /\ Len(Grown) = Len(clients) + Len(padding)
            /\ \A i \in 1..Len(clients) + Len(padding) :
                  Grown[i] = IF i <= Len(clients) THEN clients[i] ELSE padding[i - Len(clients)]
        BY <3>1, <1>1, <1>2, ConcatProperties, Zenon
      <4>2. ASSUME NEW i \in 1..Len(clients) PROVE Grown[i] = clients[i]
        BY <4>1, <1>1, <1>2
      <4>3. ASSUME NEW i \in 1..Len(clients) PROVE Grown[Len(clients) + i] = padding[i]
        <5>1. Len(clients) + i \in 1..Len(clients) + Len(padding) /\ ~(Len(clients) + i <= Len(clients))
          BY <1>1, <1>2
        <5>2. Len(clients) + i - Len(clients) = i
          BY <1>1
        <5>3. QED
          BY <5>1, <5>2, <4>1
      <4>4. QED
        BY <4>1, <4>2, <4>3, <1>2
    <3>4. DOMAIN Grown = 1..(Len(clients) + Len(clients)) /\ DOMAIN clients = 1..Len(clients)
      BY <3>3, <1>1
    <3>5. ASSUME NEW i \in DOMAIN Grown \ DOMAIN clients PROVE Grown[i] = NoFd
      <4>1. i - Len(clients) \in 1..Len(clients) /\ i = Len(clients) + (i - Len(clients))
        BY <3>4, <1>1
      <4>2. QED
        BY <4>1, <3>3, <1>2
    <3>6. Len(clients) + 1 \in DOMAIN Grown \ DOMAIN clients
      BY <3>2, <3>4, <1>1
    <3>7. QED
      BY <3>3, <3>4, <3>5, <3>6, <1>1
  <2>3. CASE clients # <<>> /\ clients_count # Len(clients)
    <3>1. Used # 1..Len(clients)
      BY <2>3, <1>1, FS_Interval
    <3>2. PICK i \in 1..Len(clients) : i \notin Used
      BY <3>1, UsedEntries
    <3>3. Grown = clients
      BY <2>3 DEF Grown
    <3>4. QED
      BY <3>2, <3>3, <1>1 DEF Used
  <2>4. QED
    BY <2>1, <2>2, <2>3
<1>4. free # {}
  BY <1>3
<1>5. PICK i \in free : clients' = [Grown EXCEPT ![i] = f] /\ clients_count' = clients_count + 1
  BY <1>4 DEF AddClient
<1>6. /\ clients' \in Seq(Fds \cup {NoFd}) /\ DOMAIN clients' = DOMAIN Grown
      /\ clients'[i] = f /\ i \notin Used
      /\ \A j \in DOMAIN Grown \ {i} : clients'[j] = Grown[j]
  <2>1. Grown \in Seq(Fds \cup {NoFd}) /\ i \in DOMAIN Grown /\ Grown[i] = NoFd
    BY <1>3
  <2>2. i \notin Used
    BY <2>1, <1>3 DEF Used
  <2>3. QED
    BY <1>5, <2>1, <2>2
<1>7. Used' = Used \cup {i} /\ \A j \in Used : clients'[j] = clients[j]
  BY <1>3, <1>6 DEF Used
<1>8. Members' = Members \cup {f}
  BY <1>6, <1>7 DEF Members
<1>9. EntriesDistinct'
  BY <1>6, <1>7 DEF EntriesDistinct, Members
<1>10. Cardinality(Used') = Cardinality(Used) + 1
  BY <1>6, <1>7, UsedEntries, FS_AddElement
<1>11. QED
  BY <1>1, <1>5, <1>6, <1>8, <1>9, <1>10, UsedEntries

\* The entry of a client that is removed is freed, and only that.
LEMMA ClientIsRemoved ==
    ASSUME TypeOK, EntriesDistinct, TableInv, phase # "exited",
           NEW f \in Members, RemoveClient(f)
    PROVE  /\ clients' \in Seq(Fds \cup {NoFd})
           /\ EntriesDistinct'
           /\ clients_count' \in Nat
           /\ clients_count' = Cardinality(Used')
           /\ Members' = Members \ {f}
<1> USE NoFdIsFree
<1>1. /\ clients \in Seq(Fds \cup {NoFd}) /\ Len(clients) \in Nat
      /\ clients_count = Cardinality(Used)
  BY DEF TypeOK, TableInv
<1>2. PICK i \in Used : clients[i] = f
  BY DEF Members
<1>3. f \in Fds /\ f # NoFd
  BY <1>2, UsedEntries
<1>4. /\ clients' \in Seq(Fds \cup {NoFd}) /\ DOMAIN clients' = DOMAIN clients
      /\ \A j \in DOMAIN clients : clients'[j] = IF clients[j] = f THEN NoFd ELSE clients[j]
  <2>1. clients' = [j \in 1..Len(clients) |-> IF clients[j] = f THEN NoFd ELSE clients[j]]
    BY <1>1 DEF RemoveClient
  <2>2. \A j \in 1..Len(clients) : (IF clients[j] = f THEN NoFd ELSE clients[j]) \in Fds \cup {NoFd}
    BY <1>1
  <2>3. QED
    BY <2>1, <2>2, <1>1
<1>5. Used' = Used \ {i}
  BY <1>2, <1>3, <1>4 DEF Used, EntriesDistinct
<1>6. Members' = Members \ {f} /\ EntriesDistinct'
  BY <1>2, <1>4, <1>5 DEF Used, Members, EntriesDistinct
<1>7. Cardinality(Used') = Cardinality(Used) - 1 /\ Cardinality(Used') \in Nat
  BY <1>2, <1>5, UsedEntries, FS_RemoveElement, FS_CardinalityType
<1>8. QED
  BY <1>1, <1>4, <1>6, <1>7 DEF RemoveClient

-----------------------------------------------------------------------------
(* The steps *)

\* The number of messages taken is itself that of a message, or 0.
LEMMA TakenIsCount ==
    ASSUME TypeOK, Numbered
    PROVE  Taken \in {0} \cup Messages
<1>1. Len(json_queue) \in Nat /\ made \in 0..MaxMessages /\ MaxMessages \in Nat
  BY WatcherAssumption DEF TypeOK
<1>2. QED
  BY <1>1 DEF Numbered, Taken, Messages

\* Steps that leave the table, the handles and what they hold alone.
LEMMA TableKept ==
    ASSUME EntriesDistinct, TableInv, PolledInv, RefcountExact,
           UNCHANGED <<table, pending, refcount>>,
           phase' = "exited" <=> phase = "exited",
           \A f \in Fds : conn'[f] = "free" <=> conn[f] = "free"
    PROVE  /\ EntriesDistinct' /\ TableInv' /\ PolledInv' /\ RefcountExact'
           /\ Members' = Members /\ Polled' = Polled
<1>1. Used' = Used /\ Members' = Members /\ Polled' = Polled
  BY DEF Used, Members, Polled, table
<1>2. EntriesDistinct' /\ PolledInv' /\ RefcountExact'
  BY <1>1 DEF EntriesDistinct, PolledInv, RefcountExact, table
<1>3. {f \in Fds : conn'[f] # "free"} = {f \in Fds : conn[f] # "free"}
  OBVIOUS
<1>4. TableInv'
  BY <1>1, <1>3 DEF TableInv, table
<1>5. QED
  BY <1>1, <1>2, <1>4

\* A message leaves the queue and gets a handle for every client.
LEMMA SendKeeps ==
    ASSUME WInv, SendJsons
    PROVE  WInv'
<1> DEFINE m == Head(json_queue)
<1>1. /\ TypeOK /\ Numbered /\ TableInv /\ EntriesDistinct /\ PolledInv /\ RefcountExact
      /\ phase = "idle" /\ phase' = "poll" /\ json_queue # <<>> /\ idleStarted
      /\ json_queue' = Tail(json_queue)
      /\ UNCHANGED <<stop, handles, writable, made, clients, clients_count, conn, unread,
                     got, slow>>
  BY DEF WInv, SendJsons, batch, table, sockets
<1>2. Addressed = Members /\ Members \subseteq Fds
  BY <1>1, AllAreAddressed, UsedEntries DEF TableInv
<1>3. Polled = {} /\ writable = {}
  BY <1>1, <1>2 DEF SendJsons, PolledInv, TypeOK
<1>4. /\ json_queue \in Seq(Messages) /\ Len(json_queue) \in Nat \ {0}
      /\ m \in Messages /\ json_queue' \in Seq(Messages)
      /\ Len(json_queue') = Len(json_queue) - 1
      /\ \A i \in 1..Len(json_queue') : json_queue'[i] = json_queue[i + 1]
      /\ m = json_queue[1]
  <2>1. json_queue \in Seq(Messages)
    BY <1>1 DEF TypeOK
  <2>2. QED
    BY <1>1, <2>1, HeadTailProperties, EmptySeq
<1>5. Taken' = Taken + 1 /\ m = Taken + 1 /\ Numbered'
  <2>1. made \in Nat /\ Len(json_queue) <= made
    BY <1>1 DEF TypeOK, Numbered
  <2>2. Taken' = Taken + 1 /\ Taken \in Nat
    BY <2>1, <1>1, <1>4 DEF Taken
  <2>3. m = Taken + 1
    BY <1>1, <1>4 DEF Numbered
  <2>4. ASSUME NEW i \in 1..Len(json_queue') PROVE json_queue'[i] = Taken' + i
    <3>1. i + 1 \in 1..Len(json_queue)
      BY <1>4
    <3>2. json_queue[i + 1] = Taken + (i + 1)
      BY <3>1, <1>1 DEF Numbered
    <3>3. QED
      BY <3>2, <2>2, <1>4
  <2>5. QED
    BY <2>1, <2>2, <2>3, <2>4, <1>1, <1>4 DEF Numbered
<1>6. pending' = [f \in Fds |-> IF f \in Members THEN m ELSE 0]
  BY <1>1, <1>2, <1>3 DEF SendJsons, Polled, TypeOK
<1>7. m # 0
  BY <1>4 DEF Messages
<1>8. Used' = Used /\ Members' = Members /\ Polled' = Members
  BY <1>1, <1>2, <1>6, <1>7 DEF Used, Members, Polled
<1>9. IsFiniteSet(Members) /\ Cardinality(Members) \in Nat
  BY <1>1, OneEntryEach, UsedEntries
<1>10. RefcountExact' /\ refcount' \in [Messages -> Nat]
  <2>1. refcount' = [refcount EXCEPT ![m] = Cardinality(Members)]
    BY <1>2 DEF SendJsons, Buffered
  <2>2. refcount \in [Messages -> Nat]
    BY <1>1 DEF TypeOK
  <2>3. ASSUME NEW n \in Messages PROVE refcount'[n] = Cardinality({f \in Fds : pending'[f] = n})
    <3>1. CASE n = m
      <4>1. {f \in Fds : pending'[f] = n} = Members
        BY <3>1, <1>2, <1>6, <1>7
      <4>2. QED
        BY <3>1, <4>1, <2>1, <2>2
    <3>2. CASE n # m
      <4>1. {f \in Fds : pending'[f] = n} = {} /\ {f \in Fds : pending[f] = n} = {}
        BY <3>2, <1>3, <1>6 DEF Messages, Polled
      <4>2. refcount'[n] = refcount[n]
        BY <3>2, <2>1, <2>2
      <4>3. QED
        BY <4>1, <4>2, <1>1 DEF RefcountExact
    <3>3. QED
      BY <3>1, <3>2
  <2>4. QED
    BY <2>1, <2>2, <2>3, <1>9 DEF RefcountExact
<1>11. TypeOK'
  <2>1. pending' \in [Fds -> {0} \cup Messages]
    BY <1>4, <1>6
  <2>2. idleStarted' \in BOOLEAN
    BY DEF SendJsons, MoreJsons
  <2>3. QED
    BY <1>1, <1>3, <1>4, <1>10, <2>1, <2>2 DEF TypeOK
<1>12. EntriesDistinct' /\ TableInv' /\ PolledInv'
  BY <1>1, <1>8, <1>9 DEF EntriesDistinct, TableInv, PolledInv
<1>13. ClientsMissNothing'
  <2> SUFFICES ASSUME NEW f \in Members
               PROVE  pending'[f] # 0 /\ got'[f] + 1 = pending'[f] /\ pending'[f] = Taken'
    BY <1>8 DEF ClientsMissNothing
  <2>1. pending'[f] = m /\ pending[f] = 0
    BY <1>2, <1>3, <1>6 DEF Polled
  <2>2. got[f] = Taken
    BY <2>1, <1>1 DEF WInv, ClientsMissNothing, Running
  <2>3. QED
    BY <2>1, <2>2, <1>1, <1>5, <1>7
<1>14. IdleMeansWork'
  <2>1. json_queue' # <<>> <=> Len(json_queue) > 1
    BY <1>4, EmptySeq
  <2>2. QED
    BY <2>1 DEF IdleMeansWork, SendJsons, MoreJsons
<1>15. BatchInv' /\ LeftoverInv' /\ StoppedInv' /\ AbortsOnlyForSlowClient'
  BY <1>1, <1>3 DEF WInv, BatchInv, LeftoverInv, StoppedInv, AbortsOnlyForSlowClient
<1>16. QED
  BY <1>5, <1>10, <1>11, <1>12, <1>13, <1>14, <1>15 DEF WInv

\* The rest of the idle phase, epoll_wait(), uv_stop() and the end of an
\* iteration change no message, no handle and no client.
LEMMA PhaseKeeps ==
    ASSUME WInv,
           \/ SendAborts \/ IdleSkips \/ Poll \/ NextIteration
           \/ \E source \in {"fs", "listen"} : Terminate(source)
    PROVE  WInv'
<1>1. /\ TypeOK /\ Numbered /\ TableInv /\ EntriesDistinct /\ PolledInv /\ RefcountExact
      /\ phase \in {"idle", "poll", "dispatch"}
      /\ phase' \in {"idle", "poll", "dispatch", "aborted", "ended"}
      /\ UNCHANGED <<idleStarted, json_queue, made, table, pending, refcount, sockets>>
  BY DEF WInv, SendAborts, IdleSkips, Poll, NextIteration, Terminate
<1>2. Addressed = Members
  BY <1>1, AllAreAddressed DEF TableInv
<1>3. /\ EntriesDistinct' /\ TableInv' /\ PolledInv' /\ RefcountExact'
      /\ Members' = Members /\ Polled' = Polled
  BY <1>1, TableKept DEF sockets
<1>4. Taken' = Taken /\ Numbered'
  BY <1>1 DEF Taken, Numbered
<1>5. ClientsMissNothing' /\ IdleMeansWork'
  BY <1>1, <1>3, <1>4 DEF WInv, ClientsMissNothing, IdleMeansWork, Running, sockets
<1>6. CASE SendAborts
  <2>1. Polled # {} /\ phase = "idle"
    BY <1>6 DEF SendAborts
  <2>2. slow
    BY <2>1 DEF WInv, LeftoverInv
  <2>3. TypeOK'
    BY <1>1, <1>3, <1>6 DEF TypeOK, SendAborts, table, sockets, batch
  <2>4. QED
    BY <1>3, <1>4, <1>5, <1>6, <2>2, <2>3
       DEF WInv, SendAborts, BatchInv, LeftoverInv, StoppedInv, AbortsOnlyForSlowClient,
           batch, sockets
<1>7. CASE IdleSkips
  <2>1. TypeOK'
    BY <1>1, <1>3, <1>7 DEF TypeOK, IdleSkips, table, sockets, batch
  <2>2. QED
    BY <1>3, <1>4, <1>5, <1>7, <2>1
       DEF WInv, IdleSkips, BatchInv, LeftoverInv, StoppedInv, AbortsOnlyForSlowClient,
           batch, sockets
<1>8. CASE Poll
  <2>1. TypeOK'
    BY <1>1, <1>3, <1>8 DEF TypeOK, Poll, table, sockets
  <2>2. BatchInv'
    BY <1>1, <1>8, WatcherAssumption DEF TypeOK, Poll, BatchInv, Writable, sockets
  <2>3. LeftoverInv'
    BY <1>3, <1>8 DEF Poll, LeftoverInv
  <2>4. QED
    BY <1>3, <1>4, <1>5, <1>8, <2>1, <2>2, <2>3
       DEF WInv, Poll, StoppedInv, AbortsOnlyForSlowClient
<1>9. CASE NextIteration
  <2>1. TypeOK'
    BY <1>1, <1>3, <1>9 DEF TypeOK, NextIteration, table, sockets, batch
  <2>2. LeftoverInv' /\ StoppedInv'
    BY <1>3, <1>9 DEF WInv, NextIteration, LeftoverInv, StoppedInv
  <2>3. QED
    BY <1>3, <1>4, <1>5, <1>9, <2>1, <2>2
       DEF WInv, NextIteration, BatchInv, AbortsOnlyForSlowClient, batch, sockets
<1>10. ASSUME NEW source \in {"fs", "listen"}, Terminate(source) PROVE WInv'
  <2>1. TypeOK'
    BY <1>1, <1>3, <1>10 DEF TypeOK, Terminate, table, sockets
  <2>2. QED
    BY <1>3, <1>4, <1>5, <1>10, <2>1
       DEF WInv, Terminate, BatchInv, LeftoverInv, StoppedInv, AbortsOnlyForSlowClient, sockets
<1>11. QED
  BY <1>6, <1>7, <1>8, <1>9, <1>10

\* A message is made and queued, and the idle handle started.
LEMMA FsEventKeeps ==
    ASSUME WInv, FsEvent
    PROVE  WInv'
<1>1. /\ TypeOK /\ Numbered /\ TableInv /\ EntriesDistinct /\ PolledInv /\ RefcountExact
      /\ phase = "dispatch" /\ phase' = phase
      /\ made < MaxMessages
      /\ handles' = handles \ {"fs"}
      /\ UNCHANGED <<writable, stop, table, pending, refcount, sockets, slow>>
  BY DEF WInv, FsEvent, BatchInv
<1>2. /\ EntriesDistinct' /\ TableInv' /\ PolledInv' /\ RefcountExact'
      /\ Members' = Members /\ Polled' = Polled
  BY <1>1, TableKept DEF sockets
<1>3. /\ json_queue \in Seq(Messages) /\ Len(json_queue) \in Nat
      /\ made \in Nat /\ MaxMessages \in Nat
  BY <1>1, WatcherAssumption DEF TypeOK
<1>4. /\ Taken' = Taken /\ Numbered' /\ IdleMeansWork'
      /\ json_queue' \in Seq(Messages) /\ made' \in 0..MaxMessages /\ idleStarted' \in BOOLEAN
  <2>1. CASE json_queue' = Append(json_queue, made + 1) /\ made' = made + 1 /\ idleStarted' = TRUE
    <3>1. /\ json_queue' \in Seq(Messages)
          /\ Len(json_queue') = Len(json_queue) + 1
          /\ \A i \in 1..Len(json_queue) : json_queue'[i] = json_queue[i]
          /\ json_queue'[Len(json_queue) + 1] = made + 1
      BY <1>1, <1>3, <2>1, AppendProperties DEF Messages
    <3>2. Taken' = Taken /\ Taken \in Int /\ made + 1 = Taken + (Len(json_queue) + 1)
      BY <1>3, <2>1, <3>1 DEF Taken
    <3>3. ASSUME NEW i \in 1..Len(json_queue') PROVE json_queue'[i] = Taken' + i
      BY <1>1, <1>3, <3>1, <3>2 DEF Numbered
    <3>4. json_queue' # <<>>
      BY <1>3, <3>1, EmptySeq
    <3>5. QED
      BY <1>1, <1>3, <2>1, <3>1, <3>2, <3>3, <3>4 DEF Numbered, IdleMeansWork
  <2>2. CASE UNCHANGED <<made, json_queue, idleStarted>>
    BY <1>1, <2>2 DEF WInv, TypeOK, Taken, Numbered, IdleMeansWork, Running
  <2>3. QED
    BY <2>1, <2>2 DEF FsEvent
<1>5. TypeOK'
  BY <1>1, <1>2, <1>4 DEF TypeOK, table, sockets
<1>6. ClientsMissNothing'
  BY <1>1, <1>2, <1>4 DEF WInv, ClientsMissNothing, Running, sockets
<1>7. BatchInv' /\ LeftoverInv' /\ StoppedInv' /\ AbortsOnlyForSlowClient'
  BY <1>1, <1>2 DEF WInv, BatchInv, LeftoverInv, StoppedInv, AbortsOnlyForSlowClient, sockets
<1>8. QED
  BY <1>2, <1>4, <1>5, <1>6, <1>7 DEF WInv

\* A client joins with nothing to send to it yet.
LEMMA AcceptKeeps ==
    ASSUME WInv, NEW f \in Fds, Accept(f)
    PROVE  WInv'
<1>1. /\ TypeOK /\ Numbered /\ TableInv /\ EntriesDistinct /\ PolledInv /\ RefcountExact
      /\ phase = "dispatch" /\ phase' = phase
      /\ handles' = handles \ {"listen"}
      /\ conn[f] = "free" /\ conn' = [conn EXCEPT ![f] = "open"]
      /\ unread' = [unread EXCEPT ![f] = 0]
      /\ got' = [got EXCEPT ![f] = Taken]
      /\ UNCHANGED <<writable, stop, idleStarted, json_queue, made, pending, refcount, slow>>
  BY DEF WInv, Accept
<1>2. f \notin Members
  BY <1>1 DEF TableInv
<1>3. /\ clients' \in Seq(Fds \cup {NoFd})
      /\ EntriesDistinct'
      /\ clients_count' \in Nat
      /\ clients_count' = Cardinality(Used')
      /\ Members' = Members \cup {f}
  BY <1>1, <1>2, ClientIsAdded DEF Accept
<1>4. TableInv'
  <2>1. Members = {g \in Fds : conn[g] # "free"} /\ conn \in [Fds -> {"free", "open", "gone"}]
    BY <1>1 DEF TableInv, TypeOK
  <2>2. Members' = {g \in Fds : conn'[g] # "free"}
    BY <2>1, <1>1, <1>3
  <2>3. QED
    BY <2>2, <1>3 DEF TableInv
<1>5. Polled' = Polled /\ Taken' = Taken
  BY <1>1 DEF Polled, Taken
<1>6. f \notin Polled /\ pending[f] = 0
  BY <1>1, <1>2 DEF PolledInv, Polled
<1>7. TypeOK'
  <2>1. 0 \in 0..SocketRoom /\ Taken \in {0} \cup Messages
    BY <1>1, WatcherAssumption, TakenIsCount
  <2>2. conn' \in [Fds -> {"free", "open", "gone"}] /\ unread' \in [Fds -> 0..SocketRoom]
        /\ got' \in [Fds -> {0} \cup Messages]
    BY <2>1, <1>1 DEF TypeOK
  <2>3. QED
    BY <1>1, <1>3, <1>5, <2>2 DEF TypeOK
<1>8. PolledInv' /\ RefcountExact' /\ Numbered'
  BY <1>1, <1>3, <1>5 DEF PolledInv, RefcountExact, Numbered
<1>9. ClientsMissNothing'
  <2> SUFFICES ASSUME NEW g \in Members'
               PROVE  IF pending'[g] = 0 THEN got'[g] = Taken'
                      ELSE got'[g] + 1 = pending'[g] /\ pending'[g] = Taken'
    BY DEF ClientsMissNothing
  <2>1. CASE g = f
    BY <2>1, <1>1, <1>5, <1>6 DEF TypeOK
  <2>2. CASE g # f
    BY <2>2, <1>1, <1>3, <1>5 DEF WInv, ClientsMissNothing, Running, TypeOK
  <2>3. QED
    BY <2>1, <2>2
<1>10. BatchInv'
  BY <1>1, <1>6 DEF WInv, BatchInv, TypeOK
<1>11. LeftoverInv' /\ StoppedInv' /\ IdleMeansWork' /\ AbortsOnlyForSlowClient'
  BY <1>1, <1>5
     DEF WInv, LeftoverInv, StoppedInv, IdleMeansWork, Running, AbortsOnlyForSlowClient
<1>12. QED
  BY <1>3, <1>4, <1>7, <1>8, <1>9, <1>10, <1>11 DEF WInv

\* A handle goes with its message: sent, or lost with its client.
LEMMA WriteableKeeps ==
    ASSUME WInv, NEW f \in Fds, ClientWriteable(f)
    PROVE  WInv'
<1> DEFINE m == pending[f]
<1>1. /\ TypeOK /\ Numbered /\ TableInv /\ EntriesDistinct /\ PolledInv /\ RefcountExact
      /\ phase = "dispatch" /\ phase' = phase
      /\ f \in writable /\ writable' = writable \ {f}
      /\ refcount' = [refcount EXCEPT ![m] = @ - 1]
      /\ pending' = [pending EXCEPT ![f] = 0]
      /\ UNCHANGED <<handles, stop, idleStarted, json_queue, made, slow>>
  BY DEF WInv, ClientWriteable
<1>2. f \in Polled /\ f \in Members /\ m \in Messages /\ 0 \notin Messages
  BY <1>1 DEF TypeOK, PolledInv, Polled, Messages
<1>3. Polled' = Polled \ {f} /\ Taken' = Taken
  BY <1>1 DEF Polled, Taken, TypeOK
<1>4. RefcountExact' /\ refcount' \in [Messages -> Nat]
  <2> DEFINE Holders(n) == {g \in Fds : pending[g] = n}
  <2>1. ASSUME NEW n \in Messages
        PROVE  /\ IsFiniteSet(Holders(n)) /\ Cardinality(Holders(n)) \in Nat
               /\ refcount[n] = Cardinality(Holders(n))
    <3>1. Holders(n) \in SUBSET Polled
      BY <1>2 DEF Polled
    <3>2. IsFiniteSet(Holders(n))
      BY <3>1, <1>1, FS_Subset DEF PolledInv
    <3>3. QED
      BY <3>2, <1>1, FS_CardinalityType DEF RefcountExact
  <2>2. ASSUME NEW n \in Messages
        PROVE  /\ refcount'[n] = Cardinality({g \in Fds : pending'[g] = n})
               /\ refcount'[n] \in Nat
    <3>1. CASE n = m
      <4>1. {g \in Fds : pending'[g] = n} = Holders(n) \ {f} /\ f \in Holders(n)
        BY <3>1, <1>1, <1>2 DEF TypeOK
      <4>2. /\ Cardinality(Holders(n) \ {f}) = Cardinality(Holders(n)) - 1
            /\ IsFiniteSet(Holders(n) \ {f})
        BY <4>1, <2>1, FS_RemoveElement
      <4>3. Cardinality(Holders(n) \ {f}) \in Nat
        BY <4>2, FS_CardinalityType
      <4>4. refcount'[n] = refcount[n] - 1
        BY <3>1, <1>1, <1>2 DEF TypeOK
      <4>5. QED
        BY <4>1, <4>2, <4>3, <4>4, <2>1
    <3>2. CASE n # m
      <4>1. {g \in Fds : pending'[g] = n} = Holders(n)
        BY <3>2, <1>1, <1>2 DEF TypeOK
      <4>2. refcount'[n] = refcount[n]
        BY <3>2, <1>1 DEF TypeOK
      <4>3. QED
        BY <4>1, <4>2, <2>1
    <3>3. QED
      BY <3>1, <3>2
  <2>3. refcount' = [n \in Messages |-> refcount'[n]]
    BY <1>1 DEF TypeOK
  <2>4. QED
    BY <2>2, <2>3 DEF RefcountExact
<1>5. IsFiniteSet(Polled')
  BY <1>1, <1>3, FS_RemoveElement DEF PolledInv
<1>6. pending' \in [Fds -> {0} \cup Messages] /\ writable' \subseteq Polled'
  BY <1>1, <1>3 DEF TypeOK
<1>7. Numbered' /\ LeftoverInv' /\ StoppedInv' /\ IdleMeansWork' /\ AbortsOnlyForSlowClient'
  BY <1>1, <1>3
     DEF WInv, Numbered, LeftoverInv, StoppedInv, IdleMeansWork, Running,
         AbortsOnlyForSlowClient
<1>8. CASE /\ conn[f] = "gone" /\ conn' = [conn EXCEPT ![f] = "free"]
           /\ RemoveClient(f) /\ UNCHANGED <<unread, got>>
  <2>1. /\ clients' \in Seq(Fds \cup {NoFd})
        /\ EntriesDistinct'
        /\ clients_count' \in Nat
        /\ clients_count' = Cardinality(Used')
        /\ Members' = Members \ {f}
    BY <1>1, <1>2, <1>8, ClientIsRemoved
  <2>2. Members = {g \in Fds : conn[g] # "free"} /\ conn \in [Fds -> {"free", "open", "gone"}]
    BY <1>1 DEF TableInv, TypeOK
  <2>3. Members' = {g \in Fds : conn'[g] # "free"}
    BY <2>1, <2>2, <1>8
  <2>4. TableInv' /\ PolledInv'
    BY <2>1, <2>3, <1>1, <1>3, <1>5 DEF TableInv, PolledInv
  <2>5. TypeOK'
    BY <2>1, <1>1, <1>4, <1>6, <1>8 DEF TypeOK
  <2>6. ClientsMissNothing'
    BY <2>1, <1>1, <1>3, <1>8 DEF WInv, ClientsMissNothing, Running, TypeOK
  <2>7. BatchInv'
    BY <1>1, <1>8 DEF WInv, BatchInv, TypeOK
  <2>8. QED
    BY <1>4, <1>7, <2>1, <2>4, <2>5, <2>6, <2>7 DEF WInv
<1>9. CASE /\ conn[f] = "open" /\ unread' = [unread EXCEPT ![f] = @ + 1]
           /\ got' = [got EXCEPT ![f] = pending[f]] /\ UNCHANGED <<conn, table>>
  <2>1. Used' = Used /\ Members' = Members
    BY <1>9 DEF Used, Members, table
  <2>2. EntriesDistinct' /\ TableInv' /\ PolledInv'
    BY <2>1, <1>1, <1>3, <1>5, <1>9 DEF EntriesDistinct, TableInv, PolledInv, table
  <2>3. unread[f] < SocketRoom /\ unread \in [Fds -> 0..SocketRoom] /\ SocketRoom \in Nat
    BY <1>1, <1>9, WatcherAssumption DEF WInv, BatchInv, TypeOK
  <2>4. unread' \in [Fds -> 0..SocketRoom] /\ got' \in [Fds -> {0} \cup Messages]
    BY <2>3, <1>1, <1>2, <1>9 DEF TypeOK
  <2>5. TypeOK'
    BY <2>4, <1>1, <1>4, <1>6, <1>9 DEF TypeOK, table
  <2>6. ClientsMissNothing'
    <3>1. m = Taken
      BY <1>1, <1>2 DEF WInv, ClientsMissNothing, Running
    <3>2. QED
      BY <3>1, <2>1, <1>1, <1>3, <1>9, UsedEntries
         DEF WInv, ClientsMissNothing, Running, TypeOK
  <2>7. BatchInv'
    BY <1>1, <1>9 DEF WInv, BatchInv, TypeOK
  <2>8. QED
    BY <1>4, <1>7, <2>2, <2>5, <2>6, <2>7 DEF WInv
<1>10. QED
  BY <1>8, <1>9 DEF ClientWriteable

\* SIGINT drops all handles and their references.
LEMMA SigintKeeps ==
    ASSUME WInv, Sigint
    PROVE  WInv'
<1>1. /\ TypeOK /\ Numbered /\ TableInv /\ EntriesDistinct /\ PolledInv /\ RefcountExact
      /\ phase = "dispatch" /\ phase' = "ended" /\ idleStarted' = FALSE /\ handles' = {}
      /\ writable = {} /\ writable' = {}
      /\ pending' = [f \in Fds |-> 0]
      /\ refcount' = [m \in Messages |->
                        refcount[m] - Cardinality({f \in Fds : pending[f] = m})]
      /\ UNCHANGED <<stop, json_queue, made, table, sockets, slow>>
  BY DEF WInv, Sigint, HandlesClosed
<1>2. Used' = Used /\ Members' = Members /\ Polled' = {}
  BY <1>1 DEF Used, Members, Polled, table
<1>3. ASSUME NEW m \in Messages
      PROVE  refcount'[m] = 0 /\ Cardinality({f \in Fds : pending'[f] = m}) = 0
  <2>1. refcount[m] \in Nat /\ refcount[m] = Cardinality({f \in Fds : pending[f] = m})
    BY <1>1 DEF TypeOK, RefcountExact
  <2>2. refcount'[m] = refcount[m] - Cardinality({f \in Fds : pending[f] = m})
    BY <1>1
  <2>3. refcount'[m] = 0
    BY <2>1, <2>2
  <2>4. {f \in Fds : pending'[f] = m} = {}
    BY <1>1 DEF Messages
  <2>5. QED
    BY <2>3, <2>4, FS_EmptySet
<1>4. RefcountExact' /\ refcount' \in [Messages -> Nat]
  <2>1. refcount' = [m \in Messages |-> refcount'[m]]
    BY <1>1
  <2>2. RefcountExact'
    BY <1>3, Zenon DEF RefcountExact
  <2>3. \A m \in Messages : refcount'[m] \in Nat
    <3>1. \A m \in Messages : refcount'[m] = 0
      BY <1>3, Zenon
    <3>2. QED
      BY <3>1
  <2>4. QED
    BY <2>1, <2>2, <2>3
<1>5. PolledInv' /\ EntriesDistinct' /\ TableInv' /\ Numbered'
  BY <1>1, <1>2, FS_EmptySet
     DEF PolledInv, EntriesDistinct, TableInv, Numbered, Taken, table, sockets
<1>6. TypeOK'
  BY <1>1, <1>4 DEF TypeOK, table, sockets
<1>7. /\ ClientsMissNothing' /\ IdleMeansWork' /\ BatchInv' /\ LeftoverInv' /\ StoppedInv'
      /\ AbortsOnlyForSlowClient'
  BY <1>1, <1>2 DEF ClientsMissNothing, IdleMeansWork, Running, BatchInv, LeftoverInv,
                    StoppedInv, AbortsOnlyForSlowClient
<1>8. QED
  BY <1>4, <1>5, <1>6, <1>7 DEF WInv

\* main() closes the clients after the loop has ended.
LEMMA CleanUpKeeps ==
    ASSUME WInv, CleanUp
    PROVE  WInv'
<1>1. /\ TypeOK /\ Numbered /\ PolledInv /\ RefcountExact
      /\ phase = "ended" /\ phase' = "exited"
      /\ conn' = [f \in Fds |-> IF f \in Members THEN "free" ELSE conn[f]]
      /\ clients' = <<>> /\ json_queue' = <<>>
      /\ UNCHANGED <<stop, handles, writable, idleStarted, made, clients_count, pending,
                     refcount, unread, got, slow>>
  BY DEF WInv, CleanUp, batch
<1>2. Used' = {} /\ Polled' = Polled
  BY <1>1 DEF Used, Polled
<1>3. conn' \in [Fds -> {"free", "open", "gone"}]
  BY <1>1 DEF TypeOK
<1>4. json_queue' \in Seq(Messages) /\ clients' \in Seq(Fds \cup {NoFd}) /\ Len(json_queue') = 0
  BY <1>1, EmptySeq
<1>5. TypeOK'
  BY <1>1, <1>2, <1>3, <1>4 DEF TypeOK
<1>6. Numbered'
  BY <1>1, <1>4 DEF Numbered, TypeOK
<1>7. EntriesDistinct' /\ TableInv' /\ PolledInv' /\ RefcountExact'
  BY <1>1, <1>2 DEF EntriesDistinct, TableInv, PolledInv, RefcountExact
<1>8. /\ ClientsMissNothing' /\ IdleMeansWork' /\ BatchInv' /\ LeftoverInv' /\ StoppedInv'
      /\ AbortsOnlyForSlowClient'
  <2>1. BatchInv'
    BY <1>1 DEF WInv, BatchInv, TypeOK, Polled
  <2>2. StoppedInv'
    BY <1>1, <1>2 DEF WInv, StoppedInv
  <2>3. QED
    BY <1>1, <2>1, <2>2 DEF ClientsMissNothing, IdleMeansWork, Running, LeftoverInv,
                            AbortsOnlyForSlowClient
<1>9. QED
  BY <1>5, <1>6, <1>7, <1>8 DEF WInv

\* What clients do makes sockets no fuller and closes no descriptor.
LEMMA PeerKeeps ==
    ASSUME WInv, NEW f \in Fds, PeerReads(f) \/ PeerLeaves(f)
    PROVE  WInv'
<1>1. /\ TypeOK /\ EntriesDistinct /\ TableInv /\ PolledInv /\ RefcountExact
      /\ conn[f] = "open"
      /\ UNCHANGED <<phase, stop, batch, idleStarted, json_queue, made, table, pending,
                     refcount, got, slow>>
      /\ \/ /\ unread[f] > 0 /\ unread' = [unread EXCEPT ![f] = @ - 1] /\ conn' = conn
         \/ unread' = unread /\ conn' = [conn EXCEPT ![f] = "gone"]
  BY DEF WInv, PeerReads, PeerLeaves
<1>2. /\ conn' \in [Fds -> {"free", "open", "gone"}] /\ unread' \in [Fds -> 0..SocketRoom]
      /\ \A g \in Fds : conn'[g] = "free" <=> conn[g] = "free"
      /\ \A g \in Fds : conn'[g] = "open" => conn[g] = "open"
      /\ \A g \in Fds : unread'[g] <= unread[g]
  <2>1. conn \in [Fds -> {"free", "open", "gone"}] /\ unread \in [Fds -> 0..SocketRoom]
    BY <1>1 DEF TypeOK
  <2>2. CASE unread' = unread /\ conn' = [conn EXCEPT ![f] = "gone"]
    BY <2>1, <2>2, <1>1
  <2>3. CASE unread[f] > 0 /\ unread' = [unread EXCEPT ![f] = @ - 1] /\ conn' = conn
    <3>1. unread[f] - 1 \in 0..SocketRoom /\ unread[f] - 1 <= unread[f]
      BY <2>1, <2>3, WatcherAssumption
    <3>2. QED
      BY <3>1, <2>1, <2>3
  <2>4. QED
    BY <2>2, <2>3, <1>1
<1>3. /\ EntriesDistinct' /\ TableInv' /\ PolledInv' /\ RefcountExact'
      /\ Members' = Members /\ Polled' = Polled
  BY <1>1, <1>2, TableKept
<1>4. TypeOK'
  BY <1>1, <1>2, <1>3 DEF TypeOK, batch, table
<1>5. Numbered' /\ ClientsMissNothing' /\ IdleMeansWork'
  BY <1>1, <1>3 DEF WInv, Numbered, Taken, ClientsMissNothing, IdleMeansWork, Running
<1>6. BatchInv'
  <2> SUFFICES ASSUME NEW g \in writable', conn'[g] = "open" PROVE unread'[g] < SocketRoom
    BY <1>1 DEF WInv, BatchInv, batch
  <2>1. g \in Fds /\ g \in writable
    BY <1>1 DEF TypeOK, Polled, batch
  <2>2. unread[g] < SocketRoom
    BY <2>1, <1>2 DEF WInv, BatchInv
  <2>3. QED
    BY <2>1, <2>2, <1>1, <1>2, WatcherAssumption DEF TypeOK
<1>7. LeftoverInv' /\ StoppedInv' /\ AbortsOnlyForSlowClient'
  BY <1>1, <1>3 DEF WInv, LeftoverInv, StoppedInv, AbortsOnlyForSlowClient, batch
<1>8. QED
  BY <1>3, <1>4, <1>5, <1>6, <1>7 DEF WInv

-----------------------------------------------------------------------------
(* The theorems *)

LEMMA WInvInit == Init => WInv
<1> SUFFICES ASSUME Init PROVE WInv
  OBVIOUS
<1>1. /\ Used = {} /\ Members = {} /\ Polled = {} /\ Len(json_queue) = 0
      /\ Cardinality(Used) = 0 /\ IsFiniteSet(Polled)
  <2>1. clients = <<>> /\ json_queue = <<>> /\ pending = [f \in Fds |-> 0]
    BY DEF Init
  <2>2. Used = {} /\ Polled = {} /\ Len(json_queue) = 0
    BY <2>1 DEF Used, Polled
  <2>3. Members = {}
    BY <2>2 DEF Members
  <2>4. QED
    BY <2>2, <2>3, FS_EmptySet
<1>2. TypeOK
  <2>1. json_queue \in Seq(Messages) /\ clients \in Seq(Fds \cup {NoFd})
    BY EmptySeq DEF Init
  <2>2. /\ pending \in [Fds -> {0} \cup Messages] /\ refcount \in [Messages -> Nat]
        /\ conn \in [Fds -> {"free", "open", "gone"}] /\ got \in [Fds -> {0} \cup Messages]
    BY DEF Init
  <2>3. unread \in [Fds -> 0..SocketRoom] /\ made \in 0..MaxMessages
    BY WatcherAssumption DEF Init
  <2>4. QED
    BY <2>1, <2>2, <2>3 DEF Init, TypeOK
<1>3. RefcountExact
  <2>1. \A m \in Messages : {f \in Fds : pending[f] = m} = {}
    BY DEF Init, Messages
  <2>2. QED
    BY <2>1, FS_EmptySet DEF Init, RefcountExact
<1>4. Numbered /\ EntriesDistinct /\ TableInv /\ PolledInv
  BY <1>1 DEF Init, Numbered, EntriesDistinct, TableInv, PolledInv
<1>5. /\ ClientsMissNothing /\ BatchInv /\ LeftoverInv /\ StoppedInv /\ IdleMeansWork
      /\ AbortsOnlyForSlowClient
  BY <1>1 DEF Init, ClientsMissNothing, BatchInv, LeftoverInv, StoppedInv, IdleMeansWork,
              AbortsOnlyForSlowClient
<1>6. QED
  BY <1>2, <1>3, <1>4, <1>5 DEF WInv

LEMMA WInvStep == WInv /\ [Next]_vars => WInv'
<1> SUFFICES ASSUME WInv, [Next]_vars PROVE WInv'
  OBVIOUS
<1>1. CASE IdlePhase
  BY <1>1, SendKeeps, PhaseKeeps DEF IdlePhase
<1>2. CASE Poll \/ NextIteration
  BY <1>2, PhaseKeeps
<1>3. CASE Callback
  BY <1>3, FsEventKeeps, PhaseKeeps, AcceptKeeps, WriteableKeeps, SigintKeeps DEF Callback
<1>4. CASE CleanUp
  BY <1>4, CleanUpKeeps
<1>5. CASE \E f \in Fds : PeerReads(f) \/ PeerLeaves(f)
  BY <1>5, PeerKeeps
<1>6. CASE UNCHANGED vars
  <2>1. /\ UNCHANGED <<phase, stop, handles, writable, idleStarted, json_queue, made, table,
                       pending, refcount, conn, unread, got, slow>>
    BY <1>6 DEF vars, batch, sockets
  <2>2. /\ EntriesDistinct' /\ TableInv' /\ PolledInv' /\ RefcountExact'
        /\ Members' = Members /\ Polled' = Polled
    BY <2>1, TableKept DEF WInv
  <2>3. TypeOK'
    BY <2>1, <2>2 DEF WInv, TypeOK, table
  <2>4. QED
    BY <2>1, <2>2, <2>3
       DEF WInv, Numbered, Taken, ClientsMissNothing, Running, BatchInv, LeftoverInv,
           StoppedInv, IdleMeansWork, AbortsOnlyForSlowClient
<1>7. QED
  BY <1>1, <1>2, <1>3, <1>4, <1>5, <1>6 DEF Next, LoopStep

\* The inductive invariant holds throughout.
LEMMA WInvCorrect == Spec => []WInv
BY WInvInit, WInvStep, PTL DEF Spec

\* The type invariant of the event loop; in particular, reference counts and
\* clients_count never go below zero and no socket is written that is full.
THEOREM WatcherTypeCorrect == Spec => []TypeOK
<1>1. WInv => TypeOK
  BY DEF WInv
<1>2. QED
  BY <1>1, WInvCorrect, PTL

\* However clients come and go, loop_add_client() and loop_remove_client() keep
\* one entry for each open connection and count them.
THEOREM TableStaysConsistent == Spec => []TableIsConsistent
<1>1. WInv => TableIsConsistent
  BY OneEntryEach DEF WInv, TableInv, TableIsConsistent
<1>2. QED
  BY <1>1, WInvCorrect, PTL

\* A buffer's reference count is the number of handles that will still send it.
THEOREM BuffersAreCounted == Spec => []RefcountExact
<1>1. WInv => RefcountExact
  BY DEF WInv
<1>2. QED
  BY <1>1, WInvCorrect, PTL

\* A client gets every message from its joining on, whatever the others do.
THEOREM NoClientMissesAMessage == Spec => []ClientsMissNothing
<1>1. WInv => ClientsMissNothing
  BY DEF WInv
<1>2. QED
  BY <1>1, WInvCorrect, PTL

\* With clients that read, uv_poll_init() never finds a handle left over.
THEOREM OnlySlowClientsAbort == Spec => []AbortsOnlyForSlowClient
<1>1. WInv => AbortsOnlyForSlowClient
  BY DEF WInv
<1>2. QED
  BY <1>1, WInvCorrect, PTL

\* The idle handle is active exactly while a message is queued.
THEOREM IdleHandleMeansWork == Spec => []IdleMeansWork
<1>1. WInv => IdleMeansWork
  BY DEF WInv
<1>2. QED
  BY <1>1, WInvCorrect, PTL

\* After a SIGINT every handle and every buffer has been given back.
THEOREM ShutdownIsClean == Spec => []CleanShutdown
<1>1. WInv => CleanShutdown
  <2> SUFFICES ASSUME WInv, phase \in {"ended", "exited"}, ~stop
               PROVE  Polled = {} /\ \A m \in Messages : refcount[m] = 0
    BY DEF CleanShutdown
  <2>1. Polled = {}
    BY DEF WInv, StoppedInv
  <2>2. \A m \in Messages : {f \in Fds : pending[f] = m} = {}
    BY <2>1 DEF Polled, Messages
  <2>3. QED
    BY <2>1, <2>2, FS_EmptySet DEF WInv, RefcountExact
<1>2. QED
  BY <1>1, WInvCorrect, PTL

-----------------------------------------------------------------------------
(* The promise of a broadcast *)

\* Joined and Taken are where the abstract broadcast has them.
LEMMA PromisedNumbers ==
    ASSUME WInv
    PROVE  /\ Taken \in Nat
           /\ got \in [Fds -> Nat]
           /\ Joined \subseteq Fds
           /\ phase # "exited" => Joined = Members
<1>1. Taken \in {0} \cup Messages /\ got \in [Fds -> {0} \cup Messages] /\ TableInv
  BY TakenIsCount DEF WInv, TypeOK
<1>2. ({0} \cup Messages) \subseteq Nat
  BY DEF Messages
<1>3. Taken \in Nat /\ got \in [Fds -> Nat]
  BY <1>1, <1>2
<1>4. QED
  BY <1>1, <1>3 DEF TableInv, Joined

\* Steps that publish nothing, give nothing and change no membership.
LEMMA PromiseStutters ==
    ASSUME Taken' = Taken, got' = got, Joined' = Joined, unread' = unread
    PROVE  UNCHANGED Promise!vars
BY DEF Promise!vars, Owed

\* send_jsons() publishes a message to the clients.
LEMMA SendPublishes ==
    ASSUME WInv, SendJsons
    PROVE  Promise!Publish
<1>1. /\ phase = "idle" /\ json_queue # <<>> /\ json_queue' = Tail(json_queue)
      /\ UNCHANGED <<made, conn, got, unread>>
  BY DEF SendJsons, sockets
<1>2. Taken' = Taken + 1
  <2>1. json_queue \in Seq(Messages) /\ made \in Nat
    BY DEF WInv, TypeOK
  <2>2. Len(json_queue') = Len(json_queue) - 1 /\ Len(json_queue) \in Nat
    BY <2>1, <1>1, HeadTailProperties
  <2>3. QED
    BY <2>1, <2>2, <1>1 DEF Taken
<1>3. Joined' = Joined
  BY <1>1 DEF Joined
<1>4. ASSUME NEW f \in Joined PROVE (got[f] + 1)..Taken' = Owed[f] \cup {Taken'}
  <2>1. f \in Fds /\ Owed[f] = (got[f] + 1)..Taken
    BY <1>4 DEF Joined, Owed
  <2>2. got[f] \in Nat /\ Taken \in Nat
    BY <2>1, PromisedNumbers
  <2>3. got[f] <= Taken
    <3>1. f \in Members /\ Running
      BY <1>1, <1>4, PromisedNumbers DEF Running
    <3>2. got[f] = Taken \/ got[f] + 1 = Taken
      BY <3>1 DEF WInv, ClientsMissNothing
    <3>3. QED
      BY <3>2, <2>2
  <2>4. QED
    BY <2>1, <2>2, <2>3, <1>2
<1>5. Owed' = [f \in Fds |-> IF f \in Joined THEN Owed[f] \cup {Taken'} ELSE {}]
  BY <1>1, <1>3, <1>4 DEF Owed
<1>6. QED
  BY <1>1, <1>2, <1>3, <1>5 DEF Promise!Publish

\* A client that is accepted joins.
LEMMA AcceptJoins ==
    ASSUME WInv, NEW f \in Fds, Accept(f)
    PROVE  Promise!Join(f)
<1>1. /\ conn[f] = "free" /\ conn' = [conn EXCEPT ![f] = "open"]
      /\ got' = [got EXCEPT ![f] = Taken]
      /\ unread' = [unread EXCEPT ![f] = 0]
      /\ UNCHANGED <<json_queue, made>>
  BY DEF Accept
<1>2. Taken' = Taken /\ Taken \in Nat /\ got \in [Fds -> Nat]
  BY <1>1, PromisedNumbers DEF Taken
<1>3. Joined' = Joined \cup {f} /\ f \notin Joined
  BY <1>1 DEF Joined, WInv, TypeOK
<1>4. Owed' = Owed
  <2>1. (Taken + 1)..Taken = {}
    BY <1>2
  <2>2. \A g \in Fds : Owed'[g] = Owed[g]
    BY <2>1, <1>1, <1>2, <1>3 DEF Owed
  <2>3. QED
    BY <2>2 DEF Owed
<1>5. Taken \in 0..Taken
  BY <1>2
<1>6. QED
  BY <1>1, <1>2, <1>3, <1>4, <1>5 DEF Promise!Join

\* A callback gives a client the next message, or the client leaves.
LEMMA WriteableGives ==
    ASSUME WInv, NEW f \in Fds, ClientWriteable(f)
    PROVE  Promise!Give(f) \/ Promise!Leave(f)
<1>1. /\ phase = "dispatch" /\ f \in Polled /\ f \in Members /\ f \in Joined
      /\ UNCHANGED <<json_queue, made>>
  BY PromisedNumbers DEF ClientWriteable, WInv, TypeOK, PolledInv
<1>2. Taken' = Taken /\ Taken \in Nat /\ got \in [Fds -> Nat]
  BY <1>1, PromisedNumbers DEF Taken
<1>3. got[f] + 1 = Taken /\ pending[f] = Taken
  BY <1>1 DEF WInv, ClientsMissNothing, Running, Polled
<1>4. CASE /\ conn[f] = "gone" /\ conn' = [conn EXCEPT ![f] = "free"]
           /\ UNCHANGED <<got, unread>>
  <2>1. Joined' = Joined \ {f}
    BY <1>4 DEF Joined, WInv, TypeOK
  <2>2. Owed' = [Owed EXCEPT ![f] = {}]
    BY <2>1, <1>2, <1>4 DEF Owed
  <2>3. QED
    BY <2>1, <2>2, <1>2, <1>4 DEF Promise!Leave
<1>5. CASE /\ conn[f] = "open" /\ got' = [got EXCEPT ![f] = pending[f]] /\ UNCHANGED conn
           /\ unread' = [unread EXCEPT ![f] = @ + 1]
  <2>1. Joined' = Joined
    BY <1>5 DEF Joined
  <2>2. Owed[f] = {Taken}
    BY <1>1, <1>2, <1>3 DEF Owed
  <2>3. got' = [got EXCEPT ![f] = Taken] /\ (Taken + 1)..Taken = {}
    BY <1>2, <1>3, <1>5
  <2>4. Owed' = [Owed EXCEPT ![f] = Owed[f] \ {Taken}]
    BY <2>1, <2>2, <2>3, <1>2 DEF Owed
  <2>5. QED
    BY <2>1, <2>2, <2>3, <2>4, <1>2, <1>5 DEF Promise!Give
<1>6. QED
  BY <1>4, <1>5 DEF ClientWriteable

\* main() ends what is left of the broadcast.
LEMMA CleanUpCloses ==
    ASSUME WInv, CleanUp
    PROVE  Promise!Close
<1>1. /\ phase = "ended" /\ json_queue' = <<>>
      /\ conn' = [f \in Fds |-> IF f \in Members THEN "free" ELSE conn[f]]
      /\ UNCHANGED <<made, got, unread>>
  BY DEF CleanUp
<1>2. Joined' = {} /\ Owed' = [f \in Fds |-> {}]
  <2>1. Joined = Members
    BY <1>1, PromisedNumbers
  <2>2. Joined' = {}
    BY <2>1, <1>1 DEF Joined
  <2>3. QED
    BY <2>2 DEF Owed
<1>3. Taken' \in Nat /\ Taken' >= Taken
  <2>1. made \in Nat /\ Len(json_queue) \in Nat /\ Len(json_queue') = 0
    BY <1>1 DEF WInv, TypeOK
  <2>2. QED
    BY <2>1, <1>1 DEF Taken
<1>4. QED
  BY <1>1, <1>2, <1>3 DEF Promise!Close

LEMMA PeerReadsMessage ==
    ASSUME WInv, NEW f \in Fds, PeerReads(f)
    PROVE  Promise!Read(f)
<1>1. /\ unread[f] > 0 /\ unread' = [unread EXCEPT ![f] = @ - 1]
      /\ UNCHANGED <<json_queue, made, conn, got>>
  BY DEF PeerReads
<1>2. Taken' = Taken /\ Joined' = Joined
  BY <1>1 DEF Taken, Joined
<1>3. Owed' = Owed
  BY <1>1, <1>2 DEF Owed
<1>4. QED
  BY <1>1, <1>2, <1>3 DEF Promise!Read

\* Every other step is invisible in the broadcast.
LEMMA OthersPromiseNothing ==
    ASSUME WInv,
           \/ SendAborts \/ IdleSkips \/ Poll \/ FsEvent \/ Sigint \/ NextIteration
           \/ \E source \in {"fs", "listen"} : Terminate(source)
           \/ \E f \in Fds : PeerLeaves(f)
    PROVE  UNCHANGED Promise!vars
<1>1. Taken' = Taken
  <2>1. CASE FsEvent
    <3>1. made \in Nat /\ json_queue \in Seq(Messages) /\ Len(json_queue) \in Nat
      BY DEF WInv, TypeOK
    <3>2. \/ UNCHANGED <<made, json_queue>>
          \/ made' = made + 1 /\ Len(json_queue') = Len(json_queue) + 1
      BY <2>1, <3>1 DEF FsEvent
    <3>3. QED
      BY <3>1, <3>2 DEF Taken
  <2>2. CASE ~FsEvent
    BY <2>2 DEF SendAborts, IdleSkips, Poll, Sigint, NextIteration, Terminate,
                PeerLeaves, Taken
  <2>3. QED
    BY <2>1, <2>2
<1>2. got' = got /\ unread' = unread
  BY DEF SendAborts, IdleSkips, Poll, FsEvent, Sigint, NextIteration, Terminate, PeerLeaves,
         sockets
<1>3. Joined' = Joined
  <2>1. \/ conn' = conn
        \/ \E f \in Fds : conn[f] = "open" /\ conn' = [conn EXCEPT ![f] = "gone"]
    BY DEF SendAborts, IdleSkips, Poll, FsEvent, Sigint, NextIteration, Terminate,
           PeerLeaves, sockets
  <2>2. QED
    BY <2>1 DEF WInv, TypeOK, Joined
<1>4. QED
  BY <1>1, <1>2, <1>3, PromiseStutters

\* The event loop keeps the promise of a broadcast that loses nothing: with the
\* table, the handles and the reference counts as they are, each callback is the
\* step of a message or a membership, or invisible.
THEOREM WatcherImplementsBroadcast == Spec => ImplementsBroadcast
<1>1. Init => Promise!Init
  <2> SUFFICES ASSUME Init PROVE Promise!Init
    OBVIOUS
  <2>1. Joined = {}
    BY DEF Init, Joined
  <2>2. Taken = 0
    <3>1. made = 0 /\ Len(json_queue) = 0
      BY DEF Init
    <3>2. QED
      BY <3>1 DEF Taken
  <2>3. QED
    BY <2>1, <2>2 DEF Init, Owed, Promise!Init
<1>2. WInv /\ [Next]_vars => [Promise!Next]_(Promise!vars)
  <2> SUFFICES ASSUME WInv, [Next]_vars PROVE [Promise!Next]_(Promise!vars)
    OBVIOUS
  <2>1. CASE UNCHANGED vars
    <3>1. Taken' = Taken /\ got' = got /\ Joined' = Joined /\ unread' = unread
      BY <2>1 DEF vars, sockets, Taken, Joined
    <3>2. QED
      BY <3>1, PromiseStutters
  <2>2. CASE SendJsons \/ CleanUp
    BY <2>2, SendPublishes, CleanUpCloses DEF Promise!Next
  <2>3. ASSUME NEW f \in Fds, Accept(f) \/ ClientWriteable(f) \/ PeerReads(f)
        PROVE  Promise!Next
    BY <2>3, AcceptJoins, WriteableGives, PeerReadsMessage DEF Promise!Next
  <2>4. CASE \/ SendAborts \/ IdleSkips \/ Poll \/ FsEvent \/ Sigint \/ NextIteration
             \/ \E source \in {"fs", "listen"} : Terminate(source)
             \/ \E f \in Fds : PeerLeaves(f)
    BY <2>4, OthersPromiseNothing
  <2>5. QED
    BY <2>1, <2>2, <2>3, <2>4 DEF Next, LoopStep, IdlePhase, Callback
<1>3. QED
  BY <1>1, <1>2, WInvCorrect, PTL DEF Spec, ImplementsBroadcast, Promise!Spec

=============================================================================
