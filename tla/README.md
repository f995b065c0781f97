# A verification project for clamav-dbscan

clamav-dbscan scans a file tree with ClamAV and keeps the results in a database, so that an
unchanged file is not scanned twice. A second program, the watcher, tells the scanner which files
change. This directory holds TLA+ models of the parts of it that are hard to test, the TLC
configurations that check them on small instances, and TLAPS proofs for every value of the
constants.

## 1. The system

| Component | Source | State | Operations | Model |
|---|---|---|---|---|
| Work queue | `scan.py:73-136` | `_q`, `_finished`, `_waiters`, `_ready_event` | put, get, get_nowait, finish, until_item_ready | `FinishableQueue` |
| Watcher client and deferred scans | `scan.py:138-243` | `scans`, `paths_by_scan`, one task per path, the reaper | connect, read a message, schedule, cancel, expire, reap | `DeferredScan` |
| Crawl and scan loop | `scan.py:249-361` | `tasks`, `file_ready_task` | crawl, take a path, wait, log | `ScanLoop` |
| Result cache | `clamavdb.py:125-222` | table `files` | scan_file, scan, remove_file | `ScanCache` |
| Start of clamd | `clamavdb.py:69-120` | `clamd`, `clamd_task`, its socket and configuration | ensure_clamd, wait_for_process | `Clamd`, in `ScanLoop` |
| C watcher, event loop | `watcher.c:205-565, 656-689` | `json_queue`, `clients`, poll handles, reference counts | on_fs_event, send_jsons, on_client_writeable, accept, SIGINT | `WatcherLoop` |
| The watchers' socket | `watcher.c:64-131, 636-658`, `watcher.go:25-58, 112-121` | the socket file | bind, connect, unlink, chmod | `SocketBind` |
| Event parsing, C and Go | `watcher.c:133-202, 440-515`, `fswatcher.go:250-505`, `parsing.go` | the kernel's queue, the read buffer | read, resolve the directory, filter, mask to operation | `FsEvents` |
| Go watcher | `watcher.go:60-95`, `fswatcher.go:64-248` | subscriber maps, channels | subscribe, broadcast, write, unsubscribe | `GoWatcher` |
| Debug client | `watchsock.py` | none | read and print | environment of `WatcherLoop` |
| Logger, libuv, cJSON, build files | | | | not modelled |

How they interact:

    file system --fanotify--> watcher (C or Go) --SEQPACKET socket, JSON--> on_demand_watcher
        on_demand_watcher --schedule/cancel--> deferred task (10 s) --put--> FinishableQueue
        crawl --put--> FinishableQueue --get_nowait--> main loop --task--> scan_file()
        scan_file() <--row--> SQLite;   scan_file() --SCAN path--> clamd
        on_demand_watcher --remove_file--> SQLite

What is hard:

* In the scanner everything runs in one thread, and a coroutine loses control only where it awaits
  something that is not ready. The interesting interleavings are between those points: a removal
  against the timer it cancels, the scan that is storing a row, the reaper that waits on the tasks
  of a moment ago. Timers expire and sockets become readable in an order nobody fixes.
* The files belong to other processes, which write, replace and delete them between the scanner's
  `lstat()` and clamd's reading.
* The watcher's clients join, stall and leave in the middle of a batch of callbacks; their file
  descriptors are reused, and a buffer is shared by all handles of a message.
* The kernel merges events that wait to be read, and the directory of an event is looked up only when
  the event is parsed; by then files and directories have moved on.
* Watchers that start, end and crash share one socket path and act on it in several system calls;
  clamd is a process that may exit at any time.
* In the Go watcher the goroutine that broadcasts is also the one that subscribers and the reader of
  events wait for.

What makes each component correct:

* queue: items come out once, in order; nobody sleeps beside an item or after `finish()`;
* deferred scans: a removal wins over the scan it cancels; an accepted request leads to a scan; an
  entry is forgotten, since a path whose entry is held is not heard;
* scan loop: no slot stays empty while a path is queued, nothing is lost, and the program ends
  exactly when everything is logged;
* start of clamd: its configuration is not taken away too early, no scan comes before clamd serves, and
  when clamd exits the scanner ends, too;
* event parsing: what the scanner hears last of a file is true, and it hears of watched paths only;
* socket: a stale file never keeps a watcher from starting, and a running watcher can be reached;
* cache: a verdict that would be served belongs to the file that is there;
* C watcher: every client gets every message from its joining on, once and in order; table, handles
  and reference counts agree through growth, failure and shutdown;
* Go watcher: a slow client loses messages but neither holds up the others nor gets anything out of
  order; the goroutines never wait on each other for ever.

## 2. The modules

    FifoChannel                     what the queue promises
      ^ implements (TLC, proved)
    FinishableQueue                 FinishableQueueProofs
      ^ INSTANCE
    ScanLoop                        ScanLoopProofs (INSTANCE FinishableQueueProofs)
      v INSTANCE
    Clamd                           clamd's start, monitor and exits

    DeferredScan                    DeferredScanProofs
    ScanCache                       ScanCacheProofs, MCScanCache (symmetry)
    Broadcast                       what a watcher promises its clients
      ^ implement (TLC, proved)
    WatcherLoop                     WatcherLoopProofs
    GoWatcher                       GoWatcherProofs
    FsEvents                        FsEventsProofs, MCFsEvents (paths and names)
    SocketBind                      SocketBindProofs

`PROJECT.json` maps every definition to the lines it stands for. Definitions that a comment calls a
*changed form* are not part of a model: each is the model of a plausible bug, and the property named
for it in `PROJECT.json` fails when it replaces the definition.

### FinishableQueue

One action per method; an action ends where the method awaits a future that is not resolved. The
futures are the values of `client`: *getting* is a future in `_waiters`, *blocked* a future of the
event. Resolving a future and the client's going on are two steps, so two clients can be awake for one
item and the slower one finds the queue empty. `accepted` and `delivered` are history variables
and give the refinement mapping to `FifoChannel`. In today's program only the main loop consumes, by
`get_nowait()`; `get()` is modelled because the class offers it. `until_item_ready()` is modelled for
a queue that is not finished, as its only caller uses it (`scan.py:324`).

### DeferredScan

`scans[p]` is the state of the task the dictionary holds for `p`, from created to ended in one of
three ways; `none` means no entry. The two states of a cancelled task matter: a task cancelled before
its first step never enters the `try` of `deferred_scan_file()`. A message is a sequence of events
handled without suspension (`msg # <<>>` blocks all else). `ReadMessage` waits until created and
cancelled tasks have taken their next step, because the event loop runs what is ready before it
looks at sockets again.

Time is abstracted to the order of timers: all tasks sleep equally long, so one that began to sleep
earlier expires earlier (`ahead`). The only other relation used is that the reaper's one-second poll
comes before a ten-second timer that was created after it (`TaskExpire`). `StartScan` and `FinishScan`
stand for the scan loop: it takes the head of the queue and ends a scan with or without a
row. `last`, `owed`, `overlap`, `asked` and `mixed` are history variables.

The queue inside is reduced to its sequence: with `-w` it is never finished and nobody calls `get()`.

### ScanLoop

`main()` is a process with a location `pc`; it is suspended in `ensure_clamd()` (*spawn*, *socket*,
*ping*), at *yield* (the `sleep(0)` after a directory) and at *wait* (`asyncio.wait()`), and other tasks
move only then. The queue is the module
`FinishableQueue`, of which the main loop and the ready task are the two clients, so a wake-up missed
there is seen here. A scan ends with a result, with one of the three exceptions `main()` logs, or
with another one, which ends `main()`. So does an exception in the crawl (`CrawlRaises`): the path
cannot be stat()ed (`scan.py:250`), or a directory that `os.walk()` found is gone when it is lstat()ed
(`scan.py:259`); the paths queued so far are then not scanned, with `-w` neither. Each way to end
has a location of its own (`Failures`), so that a property can say which of them it excuses.
Calling the walk finite is an assumption of the model
(fairness on `CrawlEnd`); the order of completed tasks is arbitrary, as they are a Python set.

### Clamd

clamd's process (*none*, *starting*, *configured*, *listening*, *serving*, *exited*), the file at its
socket path, its configuration in `/tmp` and the task that monitors it. clamd is external: it reads
the configuration, binds, loads its database and serves, and may exit at any point, leaving its socket
or not. `ScanLoop` says when the scanner takes its steps; a PING that is refused or not answered with
PONG changes nothing and is tried again. `sys.exit()` in the monitor's task leaves the event loop, so
`main()` goes to *exited* from whichever suspension it is in. Nobody waits for `init_mutex`: `main()`
awaits `init_scanner()` before it creates any task, and later calls take the fast path. `stale` is a
file that an older scanner with the same pid left at the path.

### ScanCache

One path, several concurrent `scan_file()` calls, and the rest of the system. The two `lstat()` calls
of a scan are separate steps (other processes may act between them), while the event loop does not run
between them. A file's content is its size and the verdict clamd would give; `mtime` has sub-second
ticks of which the cache keeps whole seconds. clamd may answer ERROR at any time, or not at all.

`CacheSound` has a premise that the design cannot do without: of all the files that were at the path
since the start, only one had this size and second (`ambiguous` collects the others). A file rewritten
within a second with the same size is out of what the cache can tell. A row left by an earlier run is
right for the file, or describes one that is gone by now.

### Broadcast

What both watchers promise, without tables, handles, reference counts, goroutines or channels: a message
is published for all members at once; a client that joins is owed nothing yet; what it is owed it is
given once each, oldest first; and only the message that is just being published may be lost for it, if
more than `Room` messages, that one included, then wait for it. The watchers differ in what they do about
a slow client, and so in the mapping:

| Broadcast | `WatcherLoop` | `GoWatcher` |
|---|---|---|
| `Publish` | `SendJsons`: a message is taken off `json_queue` | `ReceiveEvents`: `run()` receives one |
| `Join`, `Leave` | `Accept`; a failing `ClientWriteable` | `Subscribe`; `Unsubscribe` |
| `Give`, `Read` | a succeeding `ClientWriteable`; `PeerReads` | `Written`; `PeerReads` |
| `Lose` | never: `Room` is the number of messages (a slow client ends the watcher) | `Offer` to a full subscription: `Room` is `Capacity` |
| `Close` | `CleanUp` | never |
| `owed` | the messages after `got`, up to the last one taken | what `run()` has still to offer, what is being written and what is in the subscription |

All other actions leave it alone. The mark of `Join` is any earlier number, as C's descriptors are used
again and Go's connections are not. `inbox` is there so that a message put into a socket twice shows.

### WatcherLoop

The phases of an iteration of libuv's loop: idle callbacks, epoll, the callbacks of one batch in any
order with the signal last. libuv's behaviour was read from the vendored sources (`uv_run()` in
`unix/core.c:384-450`, `uv__io_poll()` in `unix/linux.c:393-560`, `uv_poll_init()` in
`unix/poll.c:68-72`, which fails for a descriptor that is polled already). `clients` is the array with
its free entries, `pending[f]` the message the poll handle of client `f` holds, `refcount` the
counter of each message's buffer. `accept()` returns the lowest free descriptor, so that of a client
that failed in the same batch is reused at once. A client reads or leaves at any time; `send()` to one
that left fails (on a SEQPACKET socket without a SIGPIPE). Allocation failures and the
content of messages are left out.

### GoWatcher

Three kinds of goroutines: the reader of events, `run()`, and one for each connection. The channels
between them, `eventFeed` and `controlChannel`, are unbuffered, so a send and its receive are one step,
enabled when `run()` is in its outer select (`events = 0`). A broadcast is one step for each
subscriber, between which all other goroutines move. A subscription is a bounded sequence, of which a
message that finds it full is dropped. A connection goes through *none*, *adding* (in
`AddJsonSubscription()`), *waiting*, *writing*, *removing* (in `Close()`) and *closed*. `sent`,
`offered` and `lost` are history variables. SIGINT ends the process and every goroutine at once and is
not modelled. Nor are a failing `Accept()` or `json.Marshal()`, which are logged and change nothing, and
an event that ends the parser (hazard at `fswatcher.go:492`). That the loop does not go on to the next
event after `FAN_Q_OVERFLOW` (`fswatcher.go:454`) has no effect: the queue is unlimited, and the kernel
does not send that event.

### FsEvents

Directories are file handles that can be moved and removed; a slot is a name in a directory. `Open`
and `Close` are two steps of a process that writes a file: `writers` holds who has which file open, and
other processes remove, replace and rename it meanwhile. `Close`, `Delete` and `Rename` queue the events
that the watchers' mark asks for, and the kernel may merge an
event into the last unread one it is allowed to (`Mergeable`; how far it looks is left open). `Rename`
takes one step for its two events. `ReadEvents` returns what fits into the buffer of the watcher,
256 bytes in C, where an event with a name of about 175 characters does not fit at all, and 4096 in
Go. `ParseEvent` resolves the directory as it is then, filters, turns the mask into an operation and,
as messages are in order, sets what the scanner heard last of the path. Names are sequences of letters
and paths are compared as text, so that `/w` and `/w2` share a prefix, as in the code. A directory's own
renames give no event, so the properties speak of directories that stay where they are. C and Go
call a file directly in `/` by two slashes and its name; `heard` does not tell that from one slash.

Assumed of the other processes and the kernel: a process has a file open once, at a time; a file has
one name (no hard links); and the event of a closing has the name that the file was opened by, or the
new one if it was renamed meanwhile, or still that one if it was unlinked or replaced, as the kernel
takes it from the open file's directory entry. A file is written between `Open` and `Close`, which gives no
event; one that is opened for writing and closed is taken for one that was written, as the watchers do.

The exceptions in `ArrivalsAreHeard` and `RemovalsAreHeard` are the cases in which the property fails:
an event merged past a younger one of its slot (`jumped`); a mask with a removal and an arrival
(`mixed`), which C takes for a removal and Go for an arrival; one with both kinds of removal
(`doubled`), which Go takes for an arrival, too; a file that a writer closed after its removal
(`orphaned`), whose CLOSE_WRITE is the last event of a path without a file; and the root directory in
Go. These cases are named and not caught: the properties say that there is no other.

### SocketBind

Each system call of a start, `bind()` to `chmod()`, and of an end is a step of one watcher, C or Go,
and others act between them; any of them may be killed at any step, which leaves the file of its
socket. The path holds nothing, a stale file or the socket of a watcher. A connect is refused by a
stale file and by a socket that does not listen yet. Only the Go watcher tests with `stat()` that the
file is gone, and its listener removes the path when it is closed (`Abort`, `Leave`). `failed`,
`raced` and `overlapped` are history variables.

## 3. Runs

| Run | Bounds | States | What it shows |
|---|---|---|---|
| `queue` | 3 clients, 2 items, 4 puts | 8 thousand | no client sleeps beside work; FIFO refinement |
| `deferred` | 2 watched paths and one under /tmp, 4 events in batches of up to 2 | 250 thousand | removal, reaper and cancellation safety; entries are reaped, accepted requests are served |
| `loop` | 2 items, 3 puts, 2 slots, both ways to set `-m`, with and without an old socket | 55 thousand | start of clamd, slots, exit, and liveness of the main loop, with failing crawls and scans |
| `cache` | 2 scans, 2 sizes, 3 ticks of half a second | 720 thousand | soundness of cached verdicts |
| `watcher` | 3 descriptors, initial capacity 1, room for 1 message, 3 messages | 160 thousand | table, buffers, delivery, shutdown, liveness; refinement of `Broadcast` that loses nothing |
| `go` | 2 connections, subscriptions of 1, room for 1 message, 3 messages | 92 thousand | order, losses, and that nobody waits for ever; refinement of `Broadcast` |
| `socket` | 2 C watchers, 1 Go watcher | 8.5 thousand | stale files, crashes and overlapping starts around the socket |
| `events` | 1 directory in 4 places, 3 names of which 1 is long, 2 watched paths, both watchers, 2 processes, 3 changes | 2.2 million | what is heard of files, and that every event is handled |
| `events_merged` | C watcher, 1 process, 3 changes | | counterexample to `EveryArrivalIsHeard` |
| `reaper_dies` | 2 paths, batches of 2 | | counterexample to `ReaperSurvives` |
| `request_lost` | 2 paths, batches of 1 | | counterexample to `EveryRequestIsServed` |
| `max_scans_option` | 1 item, 2 puts | | counterexample to `MaxScansUsable` |

Why the bounds are enough for the cases that matter:

* `queue`: three clients allow two waiters in `_waiters` beside one on the event, and the case of
  two clients that are awake for one item; four puts let the queue fill, drain and fill again.
* `deferred`: two paths allow a snapshot of one task with another outside of it, queued or
  cancelled; four events allow schedule, remove, schedule again on one path and another path to keep
  the reaper waiting. The proofs of the safety properties remove the bounds. `Operations` has one
  operation of each kind the code distinguishes.
* `loop`: three paths for two slots make the loop wait with a path left over, and let a path arrive
  after the queue was empty and a ready task has come and gone.
* `cache`: with two ticks a second and three ticks there are files equal in their second and unequal
  in time; two scans are enough for one to store between the steps of the other. The proof removes
  the bound.
* `watcher`: a capacity of 1 instead of 4 makes the array grow twice with three clients and leaves
  free entries in the middle; one message of room makes a client slow at once; with two messages one
  is being sent while the next is queued.
* `go`: a subscription of one message is full while the next is broadcast and a third waits; the
  second client goes on, joins late or leaves meanwhile.
* `events`: three changes allow two events that merge and one between them that does not; the long name
  is in the way of the others; the directory is full or empty at first; `w2` begins like the watched
  `w`, and a directory moves in and out of it.
  Two processes are needed for an event to be merged past one of another process, and three changes for
  that to hide an arrival behind a removal. `MaxChanges` counts openings and not closings: each of up to
  three files open for writing may be closed at any time later, before or after its removal.
* `socket`: two C watchers and a Go watcher, each of which starts, fails, ends or dies any number of
  times; the proofs remove the bound.

Deadlock is not checked: a Go watcher without clients or messages waits, the queue, the cache and the
file system have legal final states (bounds, exit), the scanner and the watcher end. That something is
left to do where it should be is what the liveness properties say.

### Fairness

* `DeferredScan`: weak fairness of handling the current message, of each task's steps, of the reaper
  and of scans. asyncio runs every ready callback in turn and timers expire; scans end. Nothing is
  assumed of the watcher: no message need arrive and the connection may be lost for good.
* `ScanLoop`: weak fairness of `main()` and of the tasks; strong fairness of `CrawlEnd`, since a walk
  leaves *walk* for *yield* after each directory and a finite tree is walked in finite time. clamd's
  start goes on (weak fairness of `ClamdProgress`) but clamd need not exit.
* `FsEvents`: weak fairness of the watcher's thread (`Watcher`: it reads or parses, never both are
  possible); no process need change anything, or close what it has open.
* `WatcherLoop`: weak fairness of the loop's process as long as it is not asleep in `epoll_wait()` with
  the idle handle stopped and no client writable (`Asleep`). No event, client or signal need come.
* `GoWatcher`: weak fairness of the steps of `run()` and of each connection's goroutine; strong fairness
  of what `run()` receives in its outer select, because Go picks at random among the channels that
  are ready. Nothing is assumed of the file system or the clients: one may stop reading for good, and
  the properties hold for the others.

## 4. What the runs found

* **The reaper can die** (`reaper_dies`, `scan.py:178`). A message that asks for a scan of a new file
  and removes it cancels the task before its first step; awaiting it raises `CancelledError`, which is
  not an `Exception`, and the reaper ends. From then on every path that was scheduled once is
  ignored. `OnlyMixedMessagesKillTheReaper` proves that this is the only way.
* **A request can be lost** (`request_lost`, `scan.py:190`). Between the cancellation of a task and
  the reaper's next turn the path's entry is still there and a new request for it is ignored. For a task
  the reaper already watches the window is a few iterations of the event loop; for one that was
  scheduled after the reaper had begun to wait it lasts until some watched task ends, up to ten
  seconds. `EntriesAreReaped` shows that the window closes while the reaper lives.
* **A merged event is taken for a removal** (`events_merged`, `watcher.c:484-502`). Events about one name
  merge while they wait, and the mask does not tell their order. The C watcher reports the last bit it
  tests. When a file is deleted and another one moved to its name, DELETE and MOVED_TO become one mask,
  reported as "remove" (line 495); with a file renamed away instead it is "move_from" (line 499). Either
  way the file that is there now is not scanned, and the row is deleted. `ArrivalsAreHeard` shows
  which cases there are besides.
* **`-m` cannot be used** (`max_scans_option`, `scan.py:275, 319`): its value is a string. clamd starts
  and serves, the crawl queues its paths, and the first comparison in the loop raises `TypeError`.

## 5. What is proved

Every safety invariant of the passing runs and every refinement of an abstract specification is a
theorem, for all values of the constants. The proof of an invariant is: an invariant `I` that implies
the property, `Init => I` and `I /\ [Next]_vars => I'`, with one lemma or case per action. The
inductive invariants were checked by TLC on the runs' instances first. A refinement
(`QueueImplementsChannel`, `WatcherImplementsBroadcast`, `GoImplementsBroadcast`) is proved step by
step: initial states map to initial states, and in a state of the invariant each action maps to the
abstract one that its lemma names, or to a stutter.

The assumptions on the constants are named in the modules, and TLC evaluates them in the runs:

* `QueueAssumption`, `DeferredAssumption`, `CacheAssumption`, `SocketAssumption`, `LoopAssumption`,
  `WatcherAssumption`, `GoAssumption`: bounds are natural numbers, capacities at least 1, `/tmp` paths
  are paths, descriptors are natural numbers, a second has at least one tick, a watcher is C or Go and
  not named like a state of the path.
* `EventsAssumption`: names are non-empty and without a slash, paths are sequences of names, and the
  mark for a removed directory is not one of them. An event with a long name fits Go's buffer (at most
  255 bytes of name in 4096), and need not fit C's.
* `TextAssumption` (`FsEvents`): the text of a path, which is put together name by name, begins with a
  slash, is longer than that unless the path is the root, and begins with the text of another path and
  a slash if and only if the path is below the other or the same. This follows from what
  `EventsAssumption` says of names by induction on the path, which is out of the prover's reach; TLC
  evaluates it for the run's paths, of which two begin alike. The filters themselves (`CAllows`,
  `GoAllows`), which put names and slashes after such texts, are proved (`FiltersAreRight`).

The modules:

* `FinishableQueueProofs`. `NobodySleepsBesideWork` alone is not inductive: a client is woken through
  `_waiters` or the event, so `QInv` adds that everyone who waits in `get()` is in `_waiters` of an
  unfinished queue, that the event is set whenever `_q` holds an item and nobody is blocked then, that
  `_waiters` is empty unless `_q` is, and that `accepted = delivered \o q`. The last two give
  `QueueImplementsChannel`: a direct hand-over happens only when everything accepted is delivered.
* `DeferredScanProofs`. `CancellingIsFinal` adds `RemovedIsCancelled`: after a removal the path's task
  is none, ended, or about to see its cancellation. `OnlyMixedMessagesKillTheReaper` adds that a *new*
  task was asked for by the current message, and that a task cancelled from outside means a mixed
  message. `QueuedPathsAreSeen` adds that the snapshot's tasks are held, that while the reaper waits
  every sleeping task outside the snapshot has a watched one ahead of it or a watched one has ended
  (`WatchedExpireFirst`), and that new tasks are those of the current turn.
* `ScanCacheProofs`. `CacheSound` needs the scans in progress: `AnswerSound` says that what is going
  to be stored belongs to the file under the same premise, and `KnownArrived` that every fingerprint
  taken was at the path.
* `SocketBindProofs`. `OneStart` says that while no two starts have overlapped there is at most one
  start, that its next calls find what its last ones left (after a refused connect no socket of a
  living watcher, after `unlink()` nothing), and that whoever has bound is at the path; this makes
  `RunningIsReached` inductive. `AloneStart` says the same of a single start that overlapped with no
  other start and no end, whatever happened before, which is what `FailsOnlyInOverlap` needs.
* `ScanLoopProofs`. Nothing of the queue is proved again: `MainUsesTheQueue` shows that each step of
  `main()`, the crawl and the watcher's tasks is a step of `FinishableQueue` or leaves it alone, and
  the invariants of `FinishableQueueProofs`, instantiated, give `QueueFacts`; hence also
  `PathsComeInOrder`. `StartIsOrdered` needs that a socket before clamd has read its configuration is
  another's (`StartInv`); it says nothing of a file that was at the socket's path before (`stale`).
  `NoIdleSlot` and `ExitMeansAllLogged` need that the ready task's state is that of its client of the
  queue (`ConsumersInv`), that each path taken has one scan and scans do not exceed the slots
  (`ScansInv`), and that the loop suspends without a ready task only when the slots are full or
  nothing more will come (`WorkInv`).
* `WatcherLoopProofs`. The safety properties of the C watcher are proved together, as each is needed
  for the others. `TableInv` says that the entries and their count agree with the open sockets, and
  with `EntriesDistinct` it makes the array right through growth, removal and reuse of a descriptor;
  `Numbered` says that the queue holds the messages after the last one taken; `PolledInv` that only
  clients have poll handles, on which `RefcountExact` counts; `LeftoverInv` that a handle outlives its
  iteration only because its socket was full, which is why only a slow client makes the watcher abort;
  `StoppedInv` that the loop ends with handles only after an error. `IdleMeansWork` belongs to them and
  is a theorem of its own, too: the idle handle is active exactly while a message is queued.
  `WatcherImplementsBroadcast` needs of all that what `ClientsMissNothing` says (when a message is taken
  no client has more than one to get, and the handle of a client holds the oldest it is owed) and
  `TableInv`, as the clients that `CleanUp` closes are all there are.
* `GoWatcherProofs`. `InOrderOrLost` speaks of a client's stream: what it has read, is being written
  and is in its subscription. `StreamInv` says that the stream is increasing and consists of what was
  offered less what was dropped, `OfferedInv` that what was offered has no gap and ends at the message
  being broadcast, or the one before while the subscriber still waits for its turn (`Front`), and
  `BroadcastInv` that `run()` broadcasts the last message it has received, to subscribers only.
  `GoImplementsBroadcast` takes from the stream that what is being written is older than everything in
  the subscription (`UnderWayInOrder`), so `Written` gives the oldest message; that a message being
  offered is newer than all that were (`OfferedIsNew`), so what is dropped was not put in earlier; and
  that an increasing sequence has as many elements as its length (`IncreasingCardinality`), so when one
  is dropped `Capacity` others wait.
* `FsEventsProofs`. The invariant is about the events under way, read or not (`Pending`). For a slot
  no merge has jumped in, the mask of the last one holds an arrival if a file was written or moved
  there, and a removal if there is none, unless a writer closed it after its removal (`Absent`,
  `Tells`); an event with several bits has marked its slot as mixed or doubled (`InOrder`). When no event
  is under way for a slot, what was heard is true but for those masks (`HeardInv`). Files that are open
  need no invariant of their own: a closing tells of an arrival where there is a file, and where there
  is none it marks the slot as orphaned (`CloseKeeps`).
  Queueing is one lemma for all changes (`OneEventMore`), a rename being two of them. `PlacesInv`, no
  two directories at one place, is what lets a path stand for its slot. `ReactionIsRight` says what
  the scanner does for a mask in each watcher.

Not proved, but checked by TLC:

* the liveness properties and the promises stated with `~>`, since fairness and ENABLED are out of the
  prover's reach;
* what `TextAssumption` says, an induction over paths;
* the four counterexamples, which are single behaviours.

## 6. Not modelled, and why

`Logger` (console wording and rates), argument parsing beyond `-m`, the text of clamd's answer,
SQLite's own atomicity (every statement commits on its own, in one thread), allocation failures, the
set-up of fanotify, events of another version (which end the watcher), an overflow of the kernel's
queue (it is unlimited), a directory handle that cannot be opened although the directory exists, the
vendored libuv and cJSON except as described. `read_unix_domain_socket()` is one step with
`ReadMessage`: a SEQPACKET message is read whole.

## 7. Plan

1. Done: the queue and its refinement, deferred scans, the scan loop with the start of clamd, the cache,
   the C watcher's loop, the Go watcher, the watchers' socket, and events from the kernel to the scanner.
2. Done: every safety invariant the runs check is proved; so are the queue's refinement, alone and
   inside the scan loop, and the abstract broadcast that both watchers implement.
3. Left as it is: the queue inside `DeferredScan` stays a sequence. There it is never finished and has
   one consumer, which never waits in `get()`, so the module `FinishableQueue` would add states and no
   behaviour; `ScanLoop` has it in full.
4. Left: an abstract scanner that `ScanLoop`, `DeferredScan` and `ScanCache` implement together, from a
   change of a file to its verdict, for which the three would have to share paths and scans.
