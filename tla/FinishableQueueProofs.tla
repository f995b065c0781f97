------------------------ MODULE FinishableQueueProofs ------------------------
(***************************************************************************)
(* For any sets of items and clients: no client sleeps beside work, and    *)
(* the queue implements FifoChannel.                                       *)
(***************************************************************************)
EXTENDS FinishableQueue, SequenceTheorems, TLAPS

\* Whoever waits in get() can be found by put() and finish().
GettersAreWaiters ==
    ~finished => \A c \in Clients :
        client[c] = "getting" => \E i \in 1..Len(waiters) : waiters[i] = c

\* The event is set whenever there is an item, and nobody is blocked on it then.
EventIsCurrent ==
    /\ q # <<>> => ready
    /\ \A c \in Clients : client[c] = "blocked" => ~ready /\ ~finished

\* Direct handing over happens only past an empty _q (scan.py:122).
WaitersOnlyWhenEmpty == waiters # <<>> => q = <<>>

\* What was accepted is what was delivered followed by what is queued.
Conserved == accepted = delivered \o q

GettersStarve == \A c \in Clients : client[c] = "getting" => q = <<>> /\ ~finished

QInv ==
    /\ GettersAreWaiters
    /\ EventIsCurrent
    /\ WaitersOnlyWhenEmpty
    /\ GettersStarve
    /\ Conserved

-----------------------------------------------------------------------------
\* Popping the head of _q moves one item from the queue to the delivered ones.
LEMMA PopConserves ==
    ASSUME TypeOK, PopHead
    PROVE  /\ q' \in Seq(Items)
           /\ delivered' \in Seq(Items)
           /\ Len(q') = Len(q) - 1
           /\ Conserved => delivered' \o q' = delivered \o q
<1> USE DEF TypeOK, PopHead
<1>1. /\ Head(q) \in Items
      /\ q' \in Seq(Items)
      /\ Len(q') = Len(q) - 1
  BY HeadTailProperties
<1>2. delivered' \in Seq(Items)
  BY <1>1
<1>3. q = <<Head(q)>> \o Tail(q)
  BY SMTT(30)
<1>4. delivered' = delivered \o <<Head(q)>>
  BY <1>1, AppendIsConcat
<1>5. (delivered \o <<Head(q)>>) \o Tail(q) = delivered \o (<<Head(q)>> \o Tail(q))
  BY <1>1, ConcatAssociative
<1>6. QED
  BY <1>1, <1>2, <1>3, <1>4, <1>5

\* The type invariant of the queue.
THEOREM QueueTypeCorrect == Spec => []TypeOK
<1>1. Init => TypeOK
  <2> SUFFICES ASSUME Init PROVE TypeOK
    OBVIOUS
  <2>1. <<>> \in Seq(Items) /\ <<>> \in Seq(Clients)
    BY EmptySeq
  <2>2. client \in [Clients -> ClientState]
    BY DEF Init, ClientState
  <2>3. QED
    BY <2>1, <2>2 DEF Init, TypeOK
<1>2. TypeOK /\ [Next]_vars => TypeOK'
  <2> SUFFICES ASSUME TypeOK, [Next]_vars PROVE TypeOK'
    OBVIOUS
  <2>1. ASSUME NEW x \in Items, Put(x) PROVE TypeOK'
    <3>1. CASE HandOver(x)
      <4>1. Head(waiters) \in Clients /\ Tail(waiters) \in Seq(Clients)
        BY <3>1, HeadTailProperties DEF TypeOK, HandOver
      <4>2. QED
        BY <2>1, <3>1, <4>1 DEF TypeOK, Put, HandOver, ClientState
    <3>2. CASE Enqueue(x)
      BY <2>1, <3>2 DEF TypeOK, Put, Enqueue, Released, ClientState
    <3>3. QED
      BY <2>1, <3>1, <3>2 DEF Put
  <2>2. ASSUME NEW c \in Clients, Get(c) PROVE TypeOK'
    <3>1. CASE GetItem(c)
      BY <3>1, PopConserves DEF TypeOK, GetItem
    <3>2. CASE GetEmpty(c)
      <4>1. waiters' \in Seq(Clients)
        <5>1. waiters' = waiters \/ waiters' = Append(waiters, c)
          BY <3>2 DEF GetEmpty
        <5>2. waiters \in Seq(Clients)
          BY DEF TypeOK
        <5>3. QED
          BY <5>1, <5>2, AppendProperties
      <4>2. client' \in [Clients -> ClientState]
        BY <3>2 DEF TypeOK, GetEmpty, ClientState
      <4>3. UNCHANGED <<q, finished, ready, accepted, delivered>>
        BY <3>2 DEF GetEmpty
      <4>4. QED
        BY <4>1, <4>2, <4>3 DEF TypeOK
    <3>3. QED
      BY <2>2, <3>1, <3>2 DEF Get
  <2>3. ASSUME NEW c \in Clients, GetNowait(c) PROVE TypeOK'
    BY <2>3, PopConserves DEF TypeOK, GetNowait, ClientState
  <2>4. ASSUME NEW c \in Clients, UntilItemReady(c) PROVE TypeOK'
    BY <2>4 DEF TypeOK, UntilItemReady, ClientState
  <2>5. CASE Finish
    BY <2>5 DEF TypeOK, Finish, Released, ClientState
  <2>8. ASSUME NEW c \in Clients, Resume(c) PROVE TypeOK'
    BY <2>8 DEF TypeOK, Resume, ClientState
  <2>6. CASE UNCHANGED vars
    BY <2>6 DEF TypeOK, vars
  <2>7. QED
    BY <2>1, <2>2, <2>3, <2>4, <2>5, <2>6, <2>8 DEF Next
<1>3. QED
  BY <1>1, <1>2, PTL DEF Spec

-----------------------------------------------------------------------------
\* A waiting client is found by put() and finish(), an item wakes the clients
\* blocked on the event, and no item is lost: the inductive invariant.
LEMMA QInvStep ==
    ASSUME TypeOK, QInv, [Next]_vars
    PROVE  QInv'
<1>1. ASSUME NEW x \in Items, Put(x) PROVE QInv'
  <2>1. CASE HandOver(x)
    <3>1. q = <<>> /\ q' = <<>>
      BY <2>1 DEF QInv, WaitersOnlyWhenEmpty, HandOver
    <3>2. GettersAreWaiters'
      <4> SUFFICES ASSUME ~finished', NEW c \in Clients, client'[c] = "getting"
                   PROVE  \E i \in 1..Len(waiters') : waiters'[i] = c
        BY DEF GettersAreWaiters
      <4>1. c # Head(waiters) /\ client[c] = "getting"
        BY <2>1 DEF TypeOK, HandOver
      <4>2. ~finished
        BY <1>1 DEF Put
      <4>3. PICK i \in 1..Len(waiters) : waiters[i] = c
        BY <4>1, <4>2 DEF QInv, GettersAreWaiters
      <4>4. waiters # <<>> /\ waiters' = Tail(waiters) /\ waiters \in Seq(Clients)
        BY <2>1 DEF HandOver, TypeOK
      <4>5. i # 1
        BY <4>1, <4>3, <4>4
      <4>6. i - 1 \in 1..Len(waiters') /\ waiters'[i - 1] = c
        BY <4>3, <4>4, <4>5
      <4>7. QED
        BY <4>6
    <3>3. EventIsCurrent' /\ GettersStarve'
      BY <1>1, <2>1, <3>1 DEF QInv, EventIsCurrent, GettersStarve, TypeOK, Put, HandOver
    <3>4. Conserved'
      <4>1. accepted = delivered
        BY <3>1, ConcatEmptySeq DEF QInv, Conserved, TypeOK
      <4>2. accepted' = Append(accepted, x) /\ delivered' = Append(delivered, x)
        BY <1>1, <2>1 DEF Put, HandOver
      <4>3. delivered' \in Seq(Items)
        BY <4>2, AppendProperties DEF TypeOK
      <4>4. QED
        BY <3>1, <4>1, <4>2, <4>3, ConcatEmptySeq DEF Conserved
    <3>5. QED
      BY <3>1, <3>2, <3>3, <3>4 DEF QInv, WaitersOnlyWhenEmpty
  <2>2. CASE Enqueue(x)
    <3>1. GettersAreWaiters'
      BY <1>1, <2>2 DEF QInv, GettersAreWaiters, TypeOK, ClientState, Put, Enqueue, Released
    <3>2. EventIsCurrent'
      BY <1>1, <2>2 DEF TypeOK, EventIsCurrent, Put, Enqueue, Released, ClientState
    <3>3. GettersStarve'
      <4> SUFFICES ASSUME NEW c \in Clients, client'[c] = "getting" PROVE FALSE
        BY DEF GettersStarve
      <4>1. client[c] = "getting"
        BY <2>2 DEF Enqueue, Released
      <4>2. PICK i \in 1..Len(waiters) : waiters[i] = c
        BY <1>1, <4>1 DEF QInv, GettersAreWaiters, Put
      <4>3. Len(waiters) = 0
        BY <2>2 DEF Enqueue
      <4>4. QED
        BY <4>2, <4>3
    <3>4. Conserved'
      <4>1. accepted' = Append(accepted, x) /\ q' = Append(q, x) /\ delivered' = delivered
        BY <1>1, <2>2 DEF Put, Enqueue
      <4>2. accepted = delivered \o q
        BY DEF QInv, Conserved
      <4>3. /\ delivered \in Seq(Items) /\ q \in Seq(Items) /\ <<x>> \in Seq(Items)
            /\ accepted \in Seq(Items)
        BY DEF TypeOK
      <4>4. accepted \o <<x>> = delivered \o (q \o <<x>>)
        BY <4>2, <4>3, ConcatAssociative
      <4>5. Append(accepted, x) = accepted \o <<x>> /\ Append(q, x) = q \o <<x>>
        BY <4>3, AppendIsConcat
      <4>6. QED
        BY <4>1, <4>4, <4>5 DEF Conserved
    <3>5. WaitersOnlyWhenEmpty'
      BY <2>2 DEF Enqueue, WaitersOnlyWhenEmpty
    <3>6. QED
      BY <3>1, <3>2, <3>3, <3>4, <3>5 DEF QInv
  <2>3. QED
    BY <1>1, <2>1, <2>2 DEF Put
<1>2. ASSUME NEW c \in Clients, GetItem(c) PROVE QInv'
  <2>1. q # <<>> /\ waiters = <<>> /\ waiters' = waiters
    BY <1>2 DEF GetItem, PopHead, QInv, WaitersOnlyWhenEmpty
  <2>2. Conserved'
    BY <1>2, PopConserves DEF GetItem, QInv, Conserved
  <2>3. EventIsCurrent' /\ GettersStarve' /\ GettersAreWaiters'
    BY <1>2, <2>1 DEF GetItem, PopHead, QInv, EventIsCurrent, GettersStarve, GettersAreWaiters
  <2>4. QED
    BY <2>1, <2>2, <2>3 DEF QInv, WaitersOnlyWhenEmpty
<1>3. ASSUME NEW c \in Clients, GetEmpty(c) PROVE QInv'
  <2>1. q = <<>> /\ UNCHANGED <<q, finished, ready, accepted, delivered>>
    BY <1>3 DEF GetEmpty
  <2>2. GettersAreWaiters'
    <3> SUFFICES ASSUME ~finished', NEW d \in Clients, client'[d] = "getting"
                 PROVE  \E i \in 1..Len(waiters') : waiters'[i] = d
      BY DEF GettersAreWaiters
    <3>1. /\ waiters' = Append(waiters, c) /\ waiters \in Seq(Clients)
          /\ d = c \/ client[d] = "getting"
      BY <1>3, <2>1 DEF GetEmpty, TypeOK
    <3>2. /\ Len(waiters') = Len(waiters) + 1
          /\ Len(waiters) \in Nat
          /\ waiters'[Len(waiters) + 1] = c
          /\ \A i \in 1..Len(waiters) : waiters'[i] = waiters[i]
      BY <3>1, AppendProperties
    <3>3. CASE d = c
      BY <3>2, <3>3
    <3>4. CASE client[d] = "getting"
      <4>1. PICK i \in 1..Len(waiters) : waiters[i] = d
        BY <2>1, <3>4 DEF QInv, GettersAreWaiters
      <4>2. QED
        BY <3>2, <4>1
    <3>5. QED
      BY <3>1, <3>3, <3>4
  <2>3. EventIsCurrent' /\ GettersStarve'
    BY <1>3, <2>1 DEF GetEmpty, QInv, EventIsCurrent, GettersStarve, TypeOK
  <2>4. QED
    BY <2>1, <2>2, <2>3 DEF QInv, Conserved, WaitersOnlyWhenEmpty
<1>4. ASSUME NEW c \in Clients, GetNowait(c) PROVE QInv'
  <2>1. CASE q = <<>>
    <3>1. UNCHANGED <<q, ready, delivered, finished, waiters, accepted>>
      BY <1>4, <2>1 DEF GetNowait, PopHead
    <3>2. GettersAreWaiters' /\ EventIsCurrent' /\ GettersStarve'
      BY <1>4, <2>1, <3>1 DEF GetNowait, QInv, GettersAreWaiters, EventIsCurrent,
                              GettersStarve, TypeOK
    <3>3. QED
      BY <2>1, <3>1, <3>2 DEF QInv, Conserved, WaitersOnlyWhenEmpty
  <2>2. CASE q # <<>>
    <3>1. PopHead /\ ready' = (ready /\ Len(q) > 1) /\ UNCHANGED <<finished, waiters, accepted>>
      BY <1>4, <2>2 DEF GetNowait
    <3>2. waiters = <<>> /\ ready
      BY <2>2 DEF QInv, WaitersOnlyWhenEmpty, EventIsCurrent
    <3>3. Conserved'
      BY <3>1, PopConserves DEF QInv, Conserved
    <3>4. q' # <<>> => ready'
      <4>1. q' \in Seq(Items) /\ Len(q') = Len(q) - 1 /\ Len(q) \in Nat
        BY <3>1, PopConserves DEF TypeOK
      <4>2. q' # <<>> => Len(q') > 0
        BY <4>1
      <4>3. q' # <<>> => Len(q) > 1
        BY <4>1, <4>2
      <4>4. QED
        BY <3>1, <3>2, <4>3, Zenon
    <3>5. \A d \in Clients : client[d] # "blocked" /\ client[d] # "getting"
      BY <2>2, <3>2 DEF QInv, EventIsCurrent, GettersStarve
    <3>6. \A d \in Clients : client'[d] # "blocked" /\ client'[d] # "getting"
      BY <1>4, <3>5 DEF GetNowait, TypeOK
    <3>7. QED
      BY <3>1, <3>2, <3>3, <3>4, <3>6 DEF QInv, GettersAreWaiters, EventIsCurrent,
                                        WaitersOnlyWhenEmpty, GettersStarve
  <2>3. QED
    BY <2>1, <2>2
<1>5. ASSUME NEW c \in Clients, UntilItemReady(c) PROVE QInv'
  <2>1. UNCHANGED <<q, finished, waiters, ready, accepted, delivered>> /\ ~finished
    BY <1>5 DEF UntilItemReady
  <2>2. GettersAreWaiters' /\ EventIsCurrent' /\ GettersStarve'
    BY <1>5, <2>1 DEF UntilItemReady, QInv, GettersAreWaiters, EventIsCurrent,
                      GettersStarve, TypeOK
  <2>3. QED
    BY <2>1, <2>2 DEF QInv, Conserved, WaitersOnlyWhenEmpty
<1>6. CASE Finish
  <2>1. UNCHANGED <<q, waiters, accepted, delivered>> /\ ~finished /\ finished' /\ ready'
    BY <1>6 DEF Finish
  <2>2. \A c \in Clients : client'[c] # "blocked" /\ client'[c] # "getting"
    <3> SUFFICES ASSUME NEW c \in Clients
                 PROVE  client'[c] # "blocked" /\ client'[c] # "getting"
      OBVIOUS
    <3>1. CASE \E i \in DOMAIN waiters : waiters[i] = c
      BY <1>6, <3>1 DEF Finish
    <3>2. CASE ~\E i \in DOMAIN waiters : waiters[i] = c
      <4>1. client'[c] = Released[c]
        BY <1>6, <3>2 DEF Finish
      <4>2. DOMAIN waiters = 1..Len(waiters)
        BY DEF TypeOK
      <4>3. client[c] # "getting"
        BY <2>1, <3>2, <4>2 DEF QInv, GettersAreWaiters
      <4>4. QED
        BY <4>1, <4>3 DEF Released
    <3>3. QED
      BY <3>1, <3>2
  <2>3. QED
    BY <2>1, <2>2 DEF QInv, GettersAreWaiters, EventIsCurrent, WaitersOnlyWhenEmpty,
                      GettersStarve, Conserved
<1>7. CASE UNCHANGED vars
  BY <1>7 DEF vars, QInv, GettersAreWaiters, EventIsCurrent, WaitersOnlyWhenEmpty,
              GettersStarve, Conserved
<1>8. ASSUME NEW c \in Clients, Resume(c) PROVE QInv'
  <2>1. UNCHANGED <<q, finished, waiters, ready, accepted, delivered>>
    BY <1>8 DEF Resume
  <2>2. \A d \in Clients : client'[d] \in {"getting", "blocked"} => client'[d] = client[d]
    BY <1>8 DEF Resume, TypeOK
  <2>3. QED
    BY <2>1, <2>2 DEF QInv, GettersAreWaiters, EventIsCurrent, WaitersOnlyWhenEmpty,
                      GettersStarve, Conserved
<1>9. QED
  BY <1>1, <1>2, <1>3, <1>4, <1>5, <1>6, <1>7, <1>8 DEF Next, Get

\* The invariant holds in every state of the queue.
THEOREM QueueInvariant == Spec => []QInv
<1>1. Init => QInv
  <2> SUFFICES ASSUME Init PROVE QInv
    OBVIOUS
  <2>1. Conserved
    BY DEF Init, Conserved
  <2>2. QED
    BY <2>1 DEF Init, QInv, GettersAreWaiters, EventIsCurrent, WaitersOnlyWhenEmpty,
                GettersStarve
<1>2. TypeOK /\ QInv /\ [Next]_vars => QInv'
  BY QInvStep
<1>3. QED
  BY <1>1, <1>2, QueueTypeCorrect, PTL DEF Spec

\* No client stays suspended in get() or until_item_ready() while an item is
\* queued or after finish() (scan.py:89-125), for any number of clients.
THEOREM NobodySleeps == Spec => []NobodySleepsBesideWork
<1>1. QInv => NobodySleepsBesideWork
  BY DEF QInv, NobodySleepsBesideWork, GettersStarve, EventIsCurrent
<1>2. QED
  BY <1>1, QueueInvariant, PTL

-----------------------------------------------------------------------------
\* Taking the head of _q is delivering the oldest item not yet delivered.
LEMMA PopDelivers ==
    ASSUME TypeOK, Conserved, PopHead, accepted' = accepted, finished' = finished
    PROVE  Channel!Deliver
<1>1. Head(q) \in Items /\ q # <<>> /\ delivered' = Append(delivered, Head(q))
  BY HeadTailProperties DEF TypeOK, PopHead
<1>2. Len(q) \in Nat /\ Len(q) > 0 /\ Len(delivered) \in Nat
  BY <1>1 DEF TypeOK
<1>3. /\ Len(accepted) = Len(delivered) + Len(q)
      /\ accepted[Len(delivered) + 1] = q[1]
  BY <1>2, ConcatProperties DEF TypeOK, Conserved
<1>4. QED
  BY <1>1, <1>2, <1>3 DEF Channel!Deliver

\* Every step of the queue is a step of the channel or invisible to it.
LEMMA QueueStepsAreChannelSteps ==
    ASSUME TypeOK, QInv, [Next]_vars
    PROVE  [Channel!Next]_(Channel!vars)
<1>1. ASSUME NEW x \in Items, Put(x) PROVE Channel!Next
  <2>1. CASE HandOver(x)
    <3>1. accepted = delivered
      <4>1. q = <<>> /\ delivered \in Seq(Items)
        BY <2>1 DEF TypeOK, QInv, WaitersOnlyWhenEmpty, HandOver
      <4>2. QED
        BY <4>1, ConcatEmptySeq DEF QInv, Conserved
    <3>2. Channel!HandOver(x)
      BY <1>1, <2>1, <3>1 DEF Put, HandOver, Channel!HandOver
    <3>3. QED
      BY <3>2 DEF Channel!Next
  <2>2. CASE Enqueue(x)
    <3>1. Channel!Accept(x)
      BY <1>1, <2>2 DEF Put, Enqueue, Channel!Accept
    <3>2. QED
      BY <3>1 DEF Channel!Next
  <2>3. QED
    BY <1>1, <2>1, <2>2 DEF Put
<1>2. ASSUME NEW c \in Clients, GetItem(c) PROVE Channel!Next
  BY <1>2, PopDelivers DEF GetItem, QInv, Channel!Next
<1>3. ASSUME NEW c \in Clients, GetEmpty(c) PROVE UNCHANGED Channel!vars
  BY <1>3 DEF GetEmpty, Channel!vars
<1>4. ASSUME NEW c \in Clients, GetNowait(c) PROVE [Channel!Next]_(Channel!vars)
  <2>1. CASE PopHead
    BY <1>4, <2>1, PopDelivers DEF GetNowait, QInv, Channel!Next
  <2>2. CASE UNCHANGED delivered
    BY <1>4, <2>2 DEF GetNowait, Channel!vars
  <2>3. QED
    BY <1>4, <2>1, <2>2 DEF GetNowait
<1>5. ASSUME NEW c \in Clients, UntilItemReady(c) PROVE UNCHANGED Channel!vars
  BY <1>5 DEF UntilItemReady, Channel!vars
<1>6. CASE Finish
  BY <1>6 DEF Finish, Channel!Close, Channel!Next
<1>7. CASE UNCHANGED vars
  BY <1>7 DEF vars, Channel!vars
<1>8. ASSUME NEW c \in Clients, Resume(c) PROVE UNCHANGED Channel!vars
  BY <1>8 DEF Resume, Channel!vars
<1>9. QED
  BY <1>1, <1>2, <1>3, <1>4, <1>5, <1>6, <1>7, <1>8 DEF Next, Get

\* The queue implements the channel: what put() accepts is delivered once and in
\* order, although put() lets an item bypass _q (scan.py:92-96).
THEOREM QueueImplementsChannel == Spec => ImplementsChannel
<1>1. Init => Channel!Init
  BY DEF Init, Channel!Init
<1>2. TypeOK /\ QInv /\ [Next]_vars => [Channel!Next]_(Channel!vars)
  BY QueueStepsAreChannelSteps
<1>3. QED
  BY <1>1, <1>2, QueueTypeCorrect, QueueInvariant, PTL
     DEF Spec, ImplementsChannel, Channel!Spec

=============================================================================
