------------------------------ MODULE ScanLoop ------------------------------
(***************************************************************************)
(* The main coroutine of the scanner (main() and enqueue_directory(),      *)
(* scan.py:249-361).  It crawls the given path, or watches, or both; then  *)
(* it keeps up to max_scans scans running, taking paths off the queue with *)
(* get_nowait().  When the queue is empty it adds a task that waits for    *)
(* the queue's event to the tasks asyncio.wait() watches.                  *)
(*                                                                         *)
(* Before that, init_scanner() starts clamd (module Clamd), and clamd_task  *)
(* ends the program when clamd exits, in whichever suspension main() is.   *)
(*                                                                         *)
(* Nothing else runs while main() is between two suspensions: they are at  *)
(* pc = "spawn", "socket" and "ping" in ensure_clamd(), "yield" (sleep(0)  *)
(* after each directory) and "wait".                                       *)
(* Scans are numbered by the order in which their paths leave the queue.   *)
(***************************************************************************)
EXTENDS Naturals, Sequences, FiniteSets

CONSTANTS
    Items,        \* file paths
    MaxPuts,      \* bound: paths queued in all
    max_scans,    \* args.max_scans, as a number
    Options       \* where args.max_scans comes from: "default", "given"

ASSUME LoopAssumption ==
    /\ MaxPuts \in Nat
    /\ max_scans \in Nat \ {0}
    /\ Options \subseteq {"default", "given"}

\* The queue: main() consumes, and file_ready_task waits for an item.
Clients == {"main", "file_ready_task"}
VARIABLES q, finished, waiters, ready, client, accepted, delivered
queue == <<q, finished, waiters, ready, client, accepted, delivered>>
Queue == INSTANCE FinishableQueue

VARIABLES stale, process, socket, conf, monitor
daemon == <<stale, process, socket, conf, monitor>>
Daemon == INSTANCE Clamd

VARIABLES
    watch,        \* args.watch
    option,       \* whether -m was given: its value is then a string
    pc,           \* where main() is
    scan,         \* the state of each scan task created so far
    fileReady,    \* file_ready_task: none, created, waiting or done
    completed     \* the tasks the last asyncio.wait() returned

context == <<watch, option, daemon>>
vars == <<queue, context, pc, scan, fileReady, completed>>

Starting == {"start", "spawn", "socket", "ping"}
\* How main() may end: without clamd, by an exception of the crawl, of the comparison
\* with the value of -m, or of a scan, by the sys.exit() of clamd_task, or by itself.
Failures == {"no_clamd", "crawl_failed", "type_error", "crashed", "exited"}
Ends == {"exit"} \cup Failures
Locations == Starting \cup Ends \cup {"walk", "yield", "top", "fill", "wait", "process"}
Outcomes == {"result", "fs_error", "raised"}   \* the last: an exception main() does not catch
ScanState == {"running", "logged"} \cup Outcomes

Init ==
    /\ Queue!Init
    /\ Daemon!Init
    /\ watch \in BOOLEAN
    /\ option \in Options
    /\ pc = "start"
    /\ scan = <<>>
    /\ fileReady = "none"
    /\ completed = {}

\* FinishableQueue.finished()
Finished == finished /\ q = <<>>

\* The tasks by number: the scans count from 1.
ReadyTask == 0
Scans == {k \in DOMAIN scan : scan[k] # "logged"}
tasks == Scans \cup (IF fileReady = "none" THEN {} ELSE {ReadyTask})
Done == {k \in Scans : scan[k] \in Outcomes} \cup
        (IF fileReady = "done" THEN {ReadyTask} ELSE {})

\* main() is suspended, with its tasks created: they run.
Yielded == pc \in {"yield", "wait"}

-----------------------------------------------------------------------------
(* init_scanner() *)

StartClamd ==
    /\ pc = "start"
    /\ Daemon!Start
    /\ pc' = "spawn"
    /\ UNCHANGED <<queue, watch, option, scan, fileReady, completed>>

\* There is no clamd to execute.
StartFails ==
    /\ pc = "start"
    /\ pc' = "no_clamd"
    /\ UNCHANGED <<queue, context, scan, fileReady, completed>>

ClamdStarted ==
    /\ pc = "spawn"
    /\ Daemon!Started
    /\ pc' = IF socket THEN "ping" ELSE "socket"
    /\ UNCHANGED <<queue, watch, option, scan, fileReady, completed>>

SocketSeen ==
    /\ pc = "socket"
    /\ Daemon!SocketSeen
    /\ pc' = "ping"
    /\ UNCHANGED <<queue, watch, option, scan, fileReady, completed>>

\* PONG: with a path, main() starts by crawling it; without, it must be watching.
ClamdReady ==
    /\ pc = "ping"
    /\ Daemon!Answered
    /\ pc' \in IF watch THEN {"walk", "top"} ELSE {"walk"}
    /\ UNCHANGED <<queue, watch, option, scan, fileReady, completed>>

\* Changed form of ClamdExits: an exception that is not a SystemExit stays in the task.
ClamdExitsUnnoticed ==
    /\ Yielded \/ pc \in {"socket", "ping"}
    /\ Daemon!MonitorEnds
    /\ UNCHANGED <<queue, watch, option, pc, scan, fileReady, completed>>

\* sys.exit() in clamd_task ends the event loop, and with it every task.
ClamdExits ==
    /\ Yielded \/ pc \in {"socket", "ping"}
    /\ Daemon!MonitorEnds
    /\ pc' = "exited"
    /\ UNCHANGED <<queue, watch, option, scan, fileReady, completed>>

\* clamd goes on by itself, or exits.
ClamdProgress ==
    /\ Daemon!Progress
    /\ UNCHANGED <<queue, watch, option, pc, scan, fileReady, completed>>

ClamdExit ==
    /\ Daemon!Exit
    /\ UNCHANGED <<queue, watch, option, pc, scan, fileReady, completed>>

-----------------------------------------------------------------------------
(* enqueue_directory() *)

CrawlPut(x) ==
    /\ pc = "walk"
    /\ Queue!Put(x)
    /\ UNCHANGED <<context, pc, scan, fileReady, completed>>

\* The end of a directory: sleep(0).
CrawlYield ==
    /\ pc = "walk"
    /\ pc' = "yield"
    /\ UNCHANGED <<queue, context, scan, fileReady, completed>>

CrawlResume ==
    /\ pc = "yield"
    /\ pc' = "walk"
    /\ UNCHANGED <<queue, context, scan, fileReady, completed>>

\* The path cannot be stat()ed, or a directory vanished between scandir() and the
\* lstat() of it: nobody catches the exception.
CrawlRaises ==
    /\ pc = "walk"
    /\ pc' = "crawl_failed"
    /\ UNCHANGED <<queue, context, scan, fileReady, completed>>

\* The walk is over.  Only a scanner that does not watch finishes the queue.
CrawlEnd ==
    /\ pc = "walk"
    /\ pc' = "top"
    /\ IF watch THEN UNCHANGED queue ELSE Queue!Finish
    /\ UNCHANGED <<context, scan, fileReady, completed>>

-----------------------------------------------------------------------------
(* The loop of main() *)

\* Changed form of LoopTest: main() does not wait for the scans in progress.
LoopTestQueueOnly ==
    /\ pc = "top"
    /\ pc' = IF Finished THEN "exit" ELSE "fill"
    /\ UNCHANGED <<queue, context, scan, fileReady, completed>>

LoopTest ==
    /\ pc = "top"
    /\ pc' = IF Finished /\ tasks = {} THEN "exit" ELSE "fill"
    /\ UNCHANGED <<queue, context, scan, fileReady, completed>>

\* Comparing an int with the string of -m raises TypeError.
OptionRaises ==
    /\ pc = "fill"
    /\ option = "given"
    /\ pc' = "type_error"
    /\ UNCHANGED <<queue, context, scan, fileReady, completed>>

\* Changed form of FreeSlot: the comparison is off by one.
FreeSlotOffByOne == Cardinality(tasks) <= max_scans

FreeSlot == Cardinality(tasks) < max_scans

\* get_nowait() and create_task(scan_file()).
StartScan ==
    /\ pc = "fill"
    /\ option = "default"
    /\ FreeSlot
    /\ q # <<>>
    /\ Queue!GetNowait("main")
    /\ scan' = Append(scan, "running")
    /\ UNCHANGED <<context, pc, fileReady, completed>>

\* Changed form of NeedsReadyTask: the task is created once and not again.
NeedsReadyTaskOnce == q = <<>> /\ ~Finished /\ fileReady = "none" /\ delivered = <<>>

\* The queue is empty and nobody waits for an item yet.
NeedsReadyTask == q = <<>> /\ ~Finished /\ fileReady = "none"

\* No slot or no path is left: suspend in asyncio.wait().
Suspend ==
    /\ pc = "fill"
    /\ option = "default"
    /\ ~FreeSlot \/ q = <<>>
    /\ fileReady' = IF NeedsReadyTask THEN "created" ELSE fileReady
    /\ pc' = "wait"
    /\ UNCHANGED <<queue, context, scan, completed>>

\* asyncio.wait() returns every task that is done by then.
Wake ==
    /\ pc = "wait"
    /\ Done # {}
    /\ completed' = Done
    /\ pc' = "process"
    /\ UNCHANGED <<queue, context, scan, fileReady>>

\* One of the completed tasks, in the arbitrary order of a set: the ready task
\* is forgotten, a result or an expected error is logged, and anything else
\* that a scan raised ends main().
ProcessReady ==
    /\ pc = "process"
    /\ ReadyTask \in completed
    /\ completed' = completed \ {ReadyTask}
    /\ fileReady' = "none"
    /\ UNCHANGED <<queue, context, pc, scan>>

ProcessScan(k) ==
    /\ pc = "process"
    /\ k \in completed \ {ReadyTask}
    /\ \/ /\ scan[k] = "raised"
          /\ pc' = "crashed"
          /\ UNCHANGED <<scan, completed>>
       \/ /\ scan[k] # "raised"
          /\ scan' = [scan EXCEPT ![k] = "logged"]
          /\ completed' = completed \ {k}
          /\ UNCHANGED pc
    /\ UNCHANGED <<queue, context, fileReady>>

\* Changed form of Processed: the other completed tasks are left for later.
ProcessedSome ==
    /\ pc = "process"
    /\ pc' = "top"
    /\ UNCHANGED <<queue, context, scan, fileReady, completed>>

Processed ==
    /\ pc = "process"
    /\ completed = {}
    /\ pc' = "top"
    /\ UNCHANGED <<queue, context, scan, fileReady, completed>>

-----------------------------------------------------------------------------
(* The other tasks *)

\* A deferred scan queues its path.
WatcherPut(x) ==
    /\ Yielded
    /\ watch
    /\ Queue!Put(x)
    /\ UNCHANGED <<context, pc, scan, fileReady, completed>>

\* file_ready_task runs until it is suspended, or to its end.
ReadyTaskWaits ==
    /\ Yielded
    /\ fileReady = "created"
    /\ Queue!UntilItemReady("file_ready_task")
    /\ fileReady' = "waiting"
    /\ UNCHANGED <<context, pc, scan, completed>>

ReadyTaskEnds ==
    /\ Yielded
    /\ fileReady = "waiting"
    /\ Queue!Resume("file_ready_task")
    /\ fileReady' = "done"
    /\ UNCHANGED <<context, pc, scan, completed>>

\* scan_file() ends.
ScanEnds(k) ==
    /\ Yielded
    /\ k \in DOMAIN scan
    /\ scan[k] = "running"
    /\ \E o \in Outcomes : scan' = [scan EXCEPT ![k] = o]
    /\ UNCHANGED <<queue, context, pc, fileReady, completed>>

-----------------------------------------------------------------------------
MainStep ==
    \/ StartClamd \/ StartFails \/ ClamdStarted \/ SocketSeen \/ ClamdReady
    \/ CrawlResume
    \/ LoopTest \/ OptionRaises \/ StartScan \/ Suspend \/ Wake \/ ProcessReady \/ Processed
    \/ \E k \in 1..MaxPuts : ProcessScan(k)

Next ==
    \/ MainStep
    \/ ClamdExits \/ ClamdProgress \/ ClamdExit
    \/ \E x \in Items : CrawlPut(x) \/ WatcherPut(x)
    \/ CrawlYield
    \/ CrawlRaises
    \/ CrawlEnd
    \/ ReadyTaskWaits
    \/ ReadyTaskEnds
    \/ \E k \in 1..MaxPuts : ScanEnds(k)

Spec == Init /\ [][Next]_vars

\* The event loop runs whatever is ready, a scan ends, and the tree is finite:
\* the walk does not visit directories forever.  clamd comes to
\* serve unless it exits, and need not exit.
Fairness ==
    /\ WF_vars(MainStep)
    /\ WF_vars(ClamdExits)
    /\ WF_vars(ClamdProgress)
    /\ SF_vars(CrawlEnd)
    /\ WF_vars(ReadyTaskWaits)
    /\ WF_vars(ReadyTaskEnds)
    /\ \A k \in 1..MaxPuts : WF_vars(ScanEnds(k))

FairSpec == Spec /\ Fairness

-----------------------------------------------------------------------------
TypeOK ==
    /\ Daemon!TypeOK
    /\ watch \in BOOLEAN
    /\ option \in Options
    /\ pc \in Locations
    /\ scan \in Seq(ScanState)
    /\ fileReady \in {"none", "created", "waiting", "done"}
    /\ completed \subseteq (1..Len(scan)) \cup {ReadyTask}
    /\ completed # {} => pc \in {"process", "crashed"}

\* asyncio.wait() is never called with an empty set, which raises ValueError,
\* and never watches more than max_scans scans (scan.py:318-331).
WaitsForSomething == pc = "wait" => tasks # {} /\ Cardinality(Scans) <= max_scans

\* While a path is queued main() does not sleep with a slot to spare: all
\* slots are taken or one of the tasks it waits for will end without any
\* further event (scan.py:319-331).
NoIdleSlot ==
    pc = "wait" /\ q # <<>> =>
        \/ Cardinality(Scans) = max_scans
        \/ Done # {}
        \/ fileReady = "created"
        \/ client["file_ready_task"] = "awake"

\* main() returns only after everything that was queued has been scanned and
\* logged (scan.py:318).
ExitMeansAllLogged ==
    pc = "exit" => /\ accepted = delivered
                   /\ Len(scan) = Len(accepted)
                   /\ \A k \in DOMAIN scan : scan[k] = "logged"

\* Every queued path is scanned and logged, unless an exception in the crawl, of a
\* scan or of -m, or the end of clamd, ends main() first; and without -w main() comes
\* to an end (scan.py:249-361).
CrawlCompletes ==
    /\ \A i \in 1..MaxPuts :
          Len(accepted) >= i ~> (Len(scan) >= i /\ scan[i] = "logged") \/ pc \in Failures
    /\ ~watch ~> pc \in Ends

\* The start is in order: clamd's configuration is not removed before clamd has
\* read it, unless an old socket misled the scanner; and no scan is started and no
\* path crawled until clamd serves; it may then exit (clamavdb.py:70, 105-118).
ClamdAnswers == pc \notin Starting \cup Ends => process \in {"serving", "exited"}
StartIsOrdered == Daemon!ConfigIsRead /\ ClamdAnswers

\* When clamd exits, so does the scanner, wherever it is: before clamd had a socket,
\* in the crawl, or asleep in the loop (clamavdb.py:92-103).
ClamdExitEndsMain == process = "exited" ~> pc \in Ends

-----------------------------------------------------------------------------
\* README.md:12 offers "[-m MAX_SCANS]": given or not, main() leaves a queued path
\* unscanned only when the crawl or a scan raised, or clamd has exited (scan.py:275, 319).
MaxScansUsable ==
    pc \in Ends \ {"crawl_failed", "exited"} /\ q # <<>>
        => \E k \in DOMAIN scan : scan[k] = "raised"

=============================================================================
