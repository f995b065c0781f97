----------------------------- MODULE WatcherLoop -----------------------------
(***************************************************************************)
(* The C watcher after start-up (watcher.c:205-565, 656-689): one libuv    *)
(* loop that turns file-system notifications into JSON messages and sends  *)
(* each to every connected client.  An iteration of the loop runs the idle *)
(* callback send_jsons() if it is started, then asks epoll which file      *)
(* descriptors are ready and runs their callbacks.  A message for a client *)
(* waits in a poll handle of its own until the socket is writable; all     *)
(* handles of one message share a reference-counted buffer.                *)
(*                                                                         *)
(* libuv and the kernel are modelled as the watcher uses them.  Messages   *)
(* are numbered in the order in which they are made.                       *)
(***************************************************************************)
EXTENDS Integers, Sequences, FiniteSets

CONSTANTS
    Fds,                \* descriptors accept() can return
    InitialCapacity,    \* of clients: 4 in the code
    SocketRoom,         \* messages a client's socket holds
    MaxMessages         \* bound: messages made

ASSUME WatcherAssumption ==
    /\ Fds \subseteq Nat
    /\ InitialCapacity \in Nat \ {0}
    /\ SocketRoom \in Nat \ {0}
    /\ MaxMessages \in Nat

VARIABLES
    phase,           \* of the loop's iteration: idle, poll, dispatch; or how it ended
    stop,            \* uv_stop() was called
    handles,         \* the watcher's own handles found ready, whose callbacks have not run
    writable,        \* the clients with a poll handle that was found ready likewise
    idleStarted,     \* the idle handle is active
    json_queue,      \* the messages not sent yet
    made,            \* how many messages have been made
    clients,         \* the array
    clients_count,
    pending,         \* for a client with a poll handle, the message it waits to send
    refcount,        \* of each message's buffer
    conn,            \* a descriptor: free, open, or open though the peer is gone
    unread,          \* messages in a client's socket
    got,             \* history: the last message each client got, or would have before joining
    slow             \* history: some client's socket was full when a message waited for it

batch == <<handles, writable>>
table == <<clients, clients_count>>
sockets == <<conn, unread, got>>
vars == <<phase, stop, batch, idleStarted, json_queue, made, table, pending, refcount,
          sockets, slow>>

Sources == {"fs", "listen", "sigint"}
Messages == 1..MaxMessages

Init ==
    /\ phase = "idle"
    /\ stop = FALSE
    /\ handles = {}
    /\ writable = {}
    /\ idleStarted = FALSE
    /\ json_queue = <<>>
    /\ made = 0
    /\ clients = <<>>
    /\ clients_count = 0
    /\ pending = [f \in Fds |-> 0]
    /\ refcount = [m \in Messages |-> 0]
    /\ conn = [f \in Fds |-> "free"]
    /\ unread = [f \in Fds |-> 0]
    /\ got = [f \in Fds |-> 0]
    /\ slow = FALSE

\* A free entry of clients.
NoFd == -1

\* The entries of clients in use, and the clients.
Used == {i \in DOMAIN clients : clients[i] # NoFd}
Members == {clients[i] : i \in Used}
Polled == {f \in Fds : pending[f] # 0}
Writable(f) == conn[f] = "gone" \/ unread[f] < SocketRoom

\* The messages that have been taken off the queue.
Taken == made - Len(json_queue)

-----------------------------------------------------------------------------
(* send_jsons() *)

\* Changed form of Addressed: the cursor stops after clients_count entries,
\* free ones included.
AddressedByIndex == {clients[i] : i \in {j \in Used : j <= clients_count}}

\* The descriptors in the first clients_count used entries.
Addressed ==
    {clients[i] : i \in {j \in Used : Cardinality({k \in Used : k <= j}) <= clients_count}}

\* Changed form of Buffered: the handles take no reference.
BufferedUnreferenced(m) == [refcount EXCEPT ![m] = 0]

\* Changed form of Buffered: the sender keeps its own reference.
BufferedTwice(m) == [refcount EXCEPT ![m] = 1 + Cardinality(Addressed)]

\* One reference for each poll handle; the sender's own is dropped at the end.
Buffered(m) == [refcount EXCEPT ![m] = Cardinality(Addressed)]

\* loop_has_jsons() after the first message is taken.
MoreJsons == Len(json_queue) > 1

\* The first message is taken; a poll handle is started for each client.
SendJsons ==
    /\ phase = "idle" /\ idleStarted
    /\ json_queue # <<>>
    /\ Addressed \cap Polled = {}
    /\ json_queue' = Tail(json_queue)
    /\ pending' = [f \in Fds |-> IF f \in Addressed THEN Head(json_queue) ELSE pending[f]]
    /\ refcount' = Buffered(Head(json_queue))
    /\ idleStarted' = MoreJsons
    /\ phase' = "poll"
    /\ UNCHANGED <<stop, batch, made, table, sockets, slow>>

\* A client still has the handle of an earlier message: uv_poll_init() fails.
SendAborts ==
    /\ phase = "idle" /\ idleStarted
    /\ json_queue # <<>>
    /\ Addressed \cap Polled # {}
    /\ phase' = "aborted"
    /\ UNCHANGED <<stop, batch, idleStarted, json_queue, made, table, pending, refcount,
                   sockets, slow>>

\* The idle handle is not active, or send_jsons() finds no message.
IdleSkips ==
    /\ phase = "idle"
    /\ ~idleStarted \/ json_queue = <<>>
    /\ phase' = "poll"
    /\ UNCHANGED <<stop, batch, idleStarted, json_queue, made, table, pending, refcount,
                   sockets, slow>>

-----------------------------------------------------------------------------
(* epoll_wait(): it reports every writable client and whatever else is ready *)

\* It does not block while the idle handle is active (libuv, unix/core.c:358-369);
\* the callbacks of one call run in any order (unix/linux.c:473-535).
Poll ==
    /\ phase = "poll"
    /\ handles' \in SUBSET Sources
    /\ made = MaxMessages => "fs" \notin handles'
    /\ writable' = {f \in Polled : Writable(f)}
    /\ handles' # {} \/ writable' # {} \/ idleStarted
    /\ slow' = (slow \/ \E f \in Polled : ~Writable(f))
    /\ phase' = "dispatch"
    /\ UNCHANGED <<stop, idleStarted, json_queue, made, table, pending, refcount, sockets>>

\* Changed form of FsEvent: the idle handle is not started.
FsEventIdle ==
    /\ phase = "dispatch" /\ "fs" \in handles
    /\ handles' = handles \ {"fs"}
    /\ made' = made + 1
    /\ json_queue' = Append(json_queue, made + 1)
    /\ UNCHANGED <<writable, phase, stop, idleStarted, table, pending, refcount, sockets, slow>>

\* on_fs_event() with at least one event below the watched path.  Without one
\* it changes nothing.
FsEvent ==
    /\ phase = "dispatch" /\ "fs" \in handles
    /\ handles' = handles \ {"fs"}
    /\ \/ /\ made' = made + 1
          /\ json_queue' = Append(json_queue, made + 1)
          /\ idleStarted' = TRUE
       \/ UNCHANGED <<made, json_queue, idleStarted>>
    /\ UNCHANGED <<writable, phase, stop, table, pending, refcount, sockets, slow>>

\* UV_TERMINATE_LOOP: accept() failed, or the metadata have the wrong version.
Terminate(source) ==
    /\ phase = "dispatch" /\ source \in handles
    /\ handles' = handles \ {source}
    /\ stop' = TRUE
    /\ UNCHANGED <<writable, phase, idleStarted, json_queue, made, table, pending, refcount,
                   sockets, slow>>

\* loop_add_client() allocates the array, or doubles it when it is full.
Grown ==
    IF clients = <<>> THEN [i \in 1..InitialCapacity |-> NoFd]
    ELSE IF clients_count = Len(clients) THEN clients \o [i \in 1..Len(clients) |-> NoFd]
    ELSE clients

\* The first free entry takes the client.
AddClient(f) ==
    LET free == {i \in DOMAIN Grown : Grown[i] = NoFd} IN
    IF free = {}
    THEN clients' = Grown /\ UNCHANGED clients_count
    ELSE \E i \in free :
            /\ \A j \in free : i <= j
            /\ clients' = [Grown EXCEPT ![i] = f]
            /\ clients_count' = clients_count + 1

\* on_unix_domain_connection_attempt().  accept() returns the lowest descriptor
\* that is free.  A client is owed the messages taken off the queue from now on.
Accept(f) ==
    /\ phase = "dispatch" /\ "listen" \in handles
    /\ handles' = handles \ {"listen"}
    /\ conn[f] = "free"
    /\ \A g \in Fds : conn[g] = "free" => f <= g
    /\ conn' = [conn EXCEPT ![f] = "open"]
    /\ unread' = [unread EXCEPT ![f] = 0]
    /\ got' = [got EXCEPT ![f] = Taken]
    /\ AddClient(f)
    /\ UNCHANGED <<writable, phase, stop, idleStarted, json_queue, made, pending, refcount, slow>>

\* Changed form of RemoveClient: the entry stays in the array.
ForgetClient(f) ==
    /\ clients_count' = clients_count - 1
    /\ UNCHANGED clients

\* loop_remove_client()
RemoveClient(f) ==
    /\ clients' = [i \in DOMAIN clients |-> IF clients[i] = f THEN NoFd ELSE clients[i]]
    /\ clients_count' = clients_count - 1

\* Changed form of ClientWriteable: the handle is not stopped after the message.
ClientWriteableAgain(f) ==
    /\ phase = "dispatch" /\ f \in writable
    /\ writable' = writable \ {f}
    /\ conn[f] = "open"
    /\ unread' = [unread EXCEPT ![f] = @ + 1]
    /\ got' = [got EXCEPT ![f] = pending[f]]
    /\ UNCHANGED <<handles, phase, stop, idleStarted, json_queue, made, table, pending,
                   refcount, conn, slow>>

\* on_client_writeable(): the message is sent, or send() fails because the peer
\* is gone and the client is closed and removed.  Either way the handle goes.
ClientWriteable(f) ==
    /\ phase = "dispatch" /\ f \in writable
    /\ writable' = writable \ {f}
    /\ \/ /\ conn[f] = "gone"
          /\ conn' = [conn EXCEPT ![f] = "free"]
          /\ RemoveClient(f)
          /\ UNCHANGED <<unread, got>>
       \/ /\ conn[f] = "open"
          /\ unread' = [unread EXCEPT ![f] = @ + 1]
          /\ got' = [got EXCEPT ![f] = pending[f]]
          /\ UNCHANGED <<conn, table>>
    /\ refcount' = [refcount EXCEPT ![pending[f]] = @ - 1]
    /\ pending' = [pending EXCEPT ![f] = 0]
    /\ UNCHANGED <<handles, phase, stop, idleStarted, json_queue, made, slow>>

\* Changed form of HandlesClosed: the buffers of open client handles are kept.
HandlesClosedOnly ==
    /\ pending' = [f \in Fds |-> 0]
    /\ UNCHANGED refcount

\* uv_walk(open_handles_cb) drops the reference of every client handle.
HandlesClosed ==
    /\ pending' = [f \in Fds |-> 0]
    /\ refcount' = [m \in Messages |-> refcount[m] - Cardinality({f \in Fds : pending[f] = m})]

\* sigint_handler(), which libuv runs after the other callbacks of the batch
\* (unix/linux.c:526, 544).  No handle is left, so the loop ends with this
\* iteration (unix/core.c:350-355, 403).
Sigint ==
    /\ phase = "dispatch" /\ handles = {"sigint"} /\ writable = {}
    /\ HandlesClosed
    /\ handles' = {}
    /\ idleStarted' = FALSE
    /\ phase' = "ended"
    /\ UNCHANGED <<writable, stop, json_queue, made, table, sockets, slow>>

\* All callbacks have run: the next iteration, unless uv_stop() was called.
NextIteration ==
    /\ phase = "dispatch" /\ handles = {} /\ writable = {}
    /\ phase' = IF stop THEN "ended" ELSE "idle"
    /\ UNCHANGED <<stop, batch, idleStarted, json_queue, made, table, pending, refcount,
                   sockets, slow>>

\* main() after uv_run(): the clients are closed and the messages freed.
CleanUp ==
    /\ phase = "ended"
    /\ phase' = "exited"
    /\ conn' = [f \in Fds |-> IF f \in Members THEN "free" ELSE conn[f]]
    /\ clients' = <<>>
    /\ json_queue' = <<>>
    /\ UNCHANGED <<stop, batch, idleStarted, made, clients_count, pending, refcount,
                   unread, got, slow>>

-----------------------------------------------------------------------------
(* The clients *)

Running == phase \in {"idle", "poll", "dispatch"}

PeerReads(f) ==
    /\ Running
    /\ conn[f] = "open" /\ unread[f] > 0
    /\ unread' = [unread EXCEPT ![f] = @ - 1]
    /\ UNCHANGED <<phase, stop, batch, idleStarted, json_queue, made, table, pending,
                   refcount, conn, got, slow>>

\* A socket found writable is still so when its callback runs, then with an error.
PeerLeaves(f) ==
    /\ Running
    /\ conn[f] = "open"
    /\ conn' = [conn EXCEPT ![f] = "gone"]
    /\ UNCHANGED <<phase, stop, batch, idleStarted, json_queue, made, table, pending,
                   refcount, unread, got, slow>>

-----------------------------------------------------------------------------
IdlePhase == SendJsons \/ SendAborts \/ IdleSkips
Callback ==
    \/ FsEvent
    \/ \E source \in {"fs", "listen"} : Terminate(source)
    \/ \E f \in Fds : Accept(f) \/ ClientWriteable(f)
    \/ Sigint

LoopStep == IdlePhase \/ Poll \/ Callback \/ NextIteration \/ CleanUp

Next == LoopStep \/ \E f \in Fds : PeerReads(f) \/ PeerLeaves(f)

Spec == Init /\ [][Next]_vars

\* epoll_wait() sleeps until something outside the process happens.
Asleep == phase = "poll" /\ ~idleStarted /\ \A f \in Polled : ~Writable(f)

\* The process runs when it can.  Nothing is assumed of the clients, the file
\* system and the user.
FairSpec == Spec /\ WF_vars(~Asleep /\ LoopStep)

-----------------------------------------------------------------------------
TypeOK ==
    /\ phase \in {"idle", "poll", "dispatch", "aborted", "ended", "exited"}
    /\ stop \in BOOLEAN
    /\ handles \subseteq Sources
    /\ writable \subseteq Polled
    /\ idleStarted \in BOOLEAN
    /\ json_queue \in Seq(Messages)
    /\ made \in 0..MaxMessages
    /\ clients \in Seq(Fds \cup {NoFd})
    /\ clients_count \in Nat
    /\ pending \in [Fds -> {0} \cup Messages]
    /\ refcount \in [Messages -> Nat]
    /\ conn \in [Fds -> {"free", "open", "gone"}]
    /\ unread \in [Fds -> 0..SocketRoom]
    /\ got \in [Fds -> {0} \cup Messages]
    /\ slow \in BOOLEAN

\* clients_count counts the used entries, each of which names another open
\* connection: a connection is found again when it fails, a closed descriptor
\* that accept() hands out anew has no second entry, "Should not happen" does
\* not happen and the cursor of send_jsons() stays inside the array
\* (watcher.c:281-330, 384-391).
TableIsConsistent ==
    phase # "exited" =>
        /\ clients_count = Cardinality(Used)
        /\ Cardinality(Members) = clients_count
        /\ Members = {f \in Fds : conn[f] # "free"}

\* A buffer has one reference for each handle that will send it, so it is freed
\* with the last of them and none uses it afterwards (watcher.c:211-237).
RefcountExact ==
    \A m \in Messages : refcount[m] = Cardinality({f \in Fds : pending[f] = m})

\* Every client gets all messages from its joining on, in order and once: it has
\* the last one, or its handle holds the next one (watcher.c:348, 372-414).
ClientsMissNothing ==
    Running => \A f \in Members :
        IF pending[f] = 0 THEN got[f] = Taken
                          ELSE got[f] + 1 = pending[f] /\ pending[f] = Taken

\* The watcher aborts only when a client did not read: with a client whose socket
\* is writable the handle is gone before the next message (watcher.c:396-404).
AbortsOnlyForSlowClient == phase = "aborted" => slow

\* The loop never sleeps on a queued message and never spins without one
\* (watcher.c:417-420, 520).
IdleMeansWork == Running => (idleStarted <=> json_queue # <<>>)

\* A SIGINT leaves no handle and no buffer behind (watcher.c:523-565).
CleanShutdown ==
    phase \in {"ended", "exited"} /\ ~stop =>
        /\ Polled = {}
        /\ \A m \in Messages : refcount[m] = 0

\* Every message made is given to the clients' handles, unless the process ends
\* (watcher.c:519-520, 367-421).
EveryMessageTaken ==
    \A m \in Messages : made >= m ~> Taken >= m \/ ~Running

\* The open connections, and the messages each has still to get.
Joined == {f \in Fds : conn[f] # "free"}
Owed == [f \in Fds |-> IF f \in Joined THEN (got[f] + 1)..Taken ELSE {}]

\* A message is published when send_jsons() takes it off the queue.  Room is such
\* that none may be lost.
Promise == INSTANCE Broadcast WITH
    Clients <- Fds,
    Room <- MaxMessages,
    published <- Taken,
    members <- Joined,
    owed <- Owed,
    given <- got,
    inbox <- unread

\* The array, the handles and the reference counts together are a broadcast that
\* loses nothing, whoever joins, leaves or takes over a closed descriptor
\* meanwhile; a client that is too slow ends the watcher instead
\* (watcher.c:205-237, 281-348, 367-421).
ImplementsBroadcast == Promise!Spec

=============================================================================
