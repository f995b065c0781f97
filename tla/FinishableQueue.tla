--------------------------- MODULE FinishableQueue ---------------------------
(***************************************************************************)
(* The queue between the producers of paths and the scan loop (class       *)
(* FinishableQueue, scan.py:73-136).  asyncio runs one callback at a time, *)
(* so an operation is atomic up to its first await; what a client does     *)
(* when its future resolves is a later step.                               *)
(*                                                                         *)
(* A consumer can wait in two ways.  get() parks a future of its own in    *)
(* _waiters, to which put() hands an item directly.  until_item_ready()    *)
(* waits on the shared _ready_event; its caller then pops with             *)
(* get_nowait().                                                           *)
(***************************************************************************)
EXTENDS Naturals, Sequences

CONSTANTS
    Items,      \* what is queued: file paths
    Clients,    \* the coroutines that consume
    MaxPuts     \* bound: put() succeeds at most this often

ASSUME QueueAssumption == MaxPuts \in Nat

VARIABLES
    q,          \* _q
    finished,   \* _finished
    waiters,    \* _waiters: the clients suspended in get(), oldest first
    ready,      \* _ready_event.is_set()
    client,     \* where each client stands
    accepted,   \* history: every item put() took, in order
    delivered   \* history: every item given to a client, in order

vars == <<q, finished, waiters, ready, client, accepted, delivered>>

ClientState == {"idle",      \* running its own code
                "getting",   \* suspended in get()
                "blocked",   \* suspended in until_item_ready()
                "awake",     \* until_item_ready() has returned
                "raised"}    \* its get() raised QueueEmpty

Init ==
    /\ q = <<>>
    /\ finished = FALSE
    /\ waiters = <<>>
    /\ ready = FALSE
    /\ client = [c \in Clients |-> "idle"]
    /\ accepted = <<>>
    /\ delivered = <<>>

-----------------------------------------------------------------------------
\* (Here and below: a definition named in a comment as a changed form is used
\* only to show that the properties depend on the code as it is.)
\* Changed form of Released: the event is set but its waiters are not resolved.
ReleasedNobody == client

\* Event.set() resolves the future of every client blocked on the event.
Released == [c \in Clients |-> IF client[c] = "blocked" THEN "awake" ELSE client[c]]

\* Changed form of Enqueue: extend() for append() queues the characters.
EnqueueCharacters(x) ==
    /\ waiters = <<>>
    /\ q' = Append(q, <<x>>)
    /\ ready' = TRUE
    /\ client' = Released
    /\ UNCHANGED <<waiters, delivered>>

\* Changed form of Enqueue: put() no longer looks at _waiters first.
EnqueueBesideWaiters(x) ==
    /\ q' = Append(q, x)
    /\ ready' = TRUE
    /\ client' = Released
    /\ UNCHANGED <<waiters, delivered>>

\* The first client in _waiters gets the item and leaves _waiters.
HandOver(x) ==
    /\ waiters # <<>>
    /\ waiters' = Tail(waiters)
    /\ client' = [client EXCEPT ![Head(waiters)] = "idle"]
    /\ delivered' = Append(delivered, x)
    /\ UNCHANGED <<q, ready>>

\* Nobody is in _waiters: the item is queued and the event set.
Enqueue(x) ==
    /\ waiters = <<>>
    /\ q' = Append(q, x)
    /\ ready' = TRUE
    /\ client' = Released
    /\ UNCHANGED <<waiters, delivered>>

\* put(): once the queue is finished it raises QueueFull and changes nothing.
Put(x) ==
    /\ ~finished
    /\ Len(accepted) < MaxPuts
    /\ accepted' = Append(accepted, x)
    /\ HandOver(x) \/ Enqueue(x)
    /\ UNCHANGED finished

PopHead ==
    /\ q # <<>>
    /\ q' = Tail(q)
    /\ delivered' = Append(delivered, Head(q))

\* get() on a queue that holds an item: it does not touch the event.
GetItem(c) ==
    /\ client[c] = "idle"
    /\ PopHead
    /\ UNCHANGED <<finished, waiters, ready, client, accepted>>

\* get() on an empty queue: raise if it is finished, otherwise park a future.
GetEmpty(c) ==
    /\ client[c] = "idle"
    /\ q = <<>>
    /\ \/ /\ finished
          /\ client' = [client EXCEPT ![c] = "raised"]
          /\ UNCHANGED waiters
       \/ /\ ~finished
          /\ client' = [client EXCEPT ![c] = "getting"]
          /\ waiters' = Append(waiters, c)
    /\ UNCHANGED <<q, finished, ready, accepted, delivered>>

Get(c) == GetItem(c) \/ GetEmpty(c)

\* get_nowait(): the pop that empties the queue clears the event.  On an empty
\* queue, which an awake client finds when another one was faster, it raises
\* QueueEmpty and leaves the queue alone.
GetNowait(c) ==
    /\ client[c] \in {"idle", "awake"}
    /\ client' = [client EXCEPT ![c] = "idle"]
    /\ \/ /\ PopHead
          /\ ready' = (ready /\ Len(q) > 1)
       \/ /\ q = <<>>
          /\ UNCHANGED <<q, ready, delivered>>
    /\ UNCHANGED <<finished, waiters, accepted>>

\* finish(): QueueEmpty goes to every future in _waiters, which stay there, and
\* the event is set.  A second call returns at once.
Finish ==
    /\ ~finished
    /\ finished' = TRUE
    /\ ready' = TRUE
    /\ client' = [c \in Clients |->
                    IF \E i \in DOMAIN waiters : waiters[i] = c
                    THEN "raised" ELSE Released[c]]
    /\ UNCHANGED <<q, waiters, accepted, delivered>>

\* until_item_ready(): returns at once if the event is set.  Its only caller
\* (scan.py:324) never waits on a finished queue.
UntilItemReady(c) ==
    /\ client[c] = "idle"
    /\ ~finished
    /\ client' = [client EXCEPT ![c] = IF ready THEN "awake" ELSE "blocked"]
    /\ UNCHANGED <<q, finished, waiters, ready, accepted, delivered>>

\* The caller of until_item_ready() goes on.
Resume(c) ==
    /\ client[c] = "awake"
    /\ client' = [client EXCEPT ![c] = "idle"]
    /\ UNCHANGED <<q, finished, waiters, ready, accepted, delivered>>

Next ==
    \/ \E x \in Items : Put(x)
    \/ \E c \in Clients : Get(c) \/ GetNowait(c) \/ UntilItemReady(c) \/ Resume(c)
    \/ Finish

Spec == Init /\ [][Next]_vars

-----------------------------------------------------------------------------
TypeOK ==
    /\ q \in Seq(Items)
    /\ finished \in BOOLEAN
    /\ waiters \in Seq(Clients)
    /\ ready \in BOOLEAN
    /\ client \in [Clients -> ClientState]
    /\ accepted \in Seq(Items)
    /\ delivered \in Seq(Items)

\* No client stays suspended while there is an item it could have or after the
\* queue is finished: neither of the two ways of waiting misses the wake-up of
\* put(), get_nowait() or finish() (scan.py:89-125).  It contains the assertion
\* of finish() that _q is empty while somebody waits (scan.py:122).
NobodySleepsBesideWork ==
    \A c \in Clients : client[c] \in {"getting", "blocked"} => q = <<>> /\ ~finished

Channel == INSTANCE FifoChannel WITH closed <- finished

\* The queue delivers what it accepted, once and in order, although put() lets
\* an item bypass _q when a client waits in get() (scan.py:92-96).
ImplementsChannel == Channel!Spec

=============================================================================
