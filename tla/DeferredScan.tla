---------------------------- MODULE DeferredScan ----------------------------
(***************************************************************************)
(* From a file-system event to a queued scan (on_demand_watcher and class  *)
(* DeferredScanManager, scan.py:160-245).  A message from the watcher      *)
(* carries a list of events, handled without a suspension between them.    *)
(* An event that asks for a scan creates a task that sleeps and then       *)
(* queues the path; an event that removes the file cancels that task and   *)
(* deletes the cached row.  The reaper forgets the tasks that have ended.  *)
(*                                                                         *)
(* asyncio runs one task at a time, so while a message is being handled    *)
(* (msg # <<>>) nothing else moves.  The scan loop and its database calls  *)
(* appear only as far as they touch the queue and the rows.  The scanner   *)
(* runs with -w and no path, so nothing else fills the queue.              *)
(***************************************************************************)
EXTENDS Naturals, Sequences

CONSTANTS
    Paths,       \* the files of the watched tree
    TmpPaths,    \* those whose path starts with "/tmp"
    MaxBatch,    \* bound: events in one message
    MaxEvents    \* bound: events received in all

ASSUME DeferredAssumption ==
    /\ TmpPaths \subseteq Paths
    /\ MaxBatch \in Nat /\ MaxEvents \in Nat

\* The operations a watcher names (watcher.c:189-202, parsing.go:84-104), by
\* what on_demand_watcher does with them.
ScanOps == {"close_for_write", "move_to", "multiple"}
RemoveOps == {"remove", "move_from"}
Operations == {"close_for_write", "remove", "unknown"}   \* one of each kind
Event == [path : Paths, operation : Operations]

VARIABLES
    watcher,     \* on_demand_watcher: connecting, reading or dead
    msg,         \* the events of the current message not handled yet
    received,    \* how many events have been received
    scans,       \* what has become of the task that scans[path] holds
    ahead,       \* for a sleeping task, those whose timers expire before its own
    reaper,      \* polling an empty dict, waiting for a task, or dead
    snapshot,    \* the paths whose tasks asyncio.wait() watches
    q,           \* files_to_scan
    scanning,    \* how many scans of each path are running
    rows,        \* the paths with a row in the database
    last,        \* history: the last event handled for each path
    owed,        \* history: paths whose requested scan has not started
    overlap,     \* history: paths removed while queued or being scanned
    asked,       \* history: paths the current message asked to scan
    mixed        \* history: some message asked to scan a path, then removed it

tasks == <<scans, ahead>>
history == <<last, owed, overlap, asked, mixed>>
vars == <<watcher, msg, received, tasks, reaper, snapshot, q, scanning, rows, history>>

\* A task that has not run yet, sleeps, or has ended: by queueing its path, by
\* catching CancelledError, or cancelled from outside before its first step.
\* "newCancelled" and "sleepCancelled": cancel() was called, the task will see
\* it at its next step.
Ended == {"queued", "dropped", "cancelled"}
TaskState == {"none", "new", "newCancelled", "sleeping", "sleepCancelled"} \cup Ended

Init ==
    /\ watcher = "connecting"
    /\ msg = <<>>
    /\ received = 0
    /\ scans = [p \in Paths |-> "none"]
    /\ ahead = [p \in Paths |-> {}]
    /\ reaper = "polling"
    /\ snapshot = {}
    /\ q = <<>>
    /\ scanning = [p \in Paths |-> 0]
    /\ rows \in SUBSET (Paths \ TmpPaths)
    /\ last = [p \in Paths |-> "nothing"]
    /\ owed = {}
    /\ overlap = {}
    /\ asked = {}
    /\ mixed = FALSE

\* Changed form of Sleeping: delays differ, so no timer need expire before another.
SleepingApart == {}

\* The timers that expire before one that is set now.
Sleeping == {p \in Paths : scans[p] = "sleeping"}

\* The timer of p is gone: it no longer comes before any other.
TimerGone(p) == [r \in Paths |-> IF r = p THEN {} ELSE ahead[r] \ {p}]

Queued(p) == \E i \in DOMAIN q : q[i] = p

\* No message is being handled: some other task may run.
Yielded == msg = <<>>

-----------------------------------------------------------------------------
(* The connection to the watcher process *)

Connect ==
    /\ watcher = "connecting"
    /\ watcher' = "reading"
    /\ UNCHANGED <<msg, received, tasks, reaper, snapshot, q, scanning, rows, history>>

\* recv() returned b"": connect again.
PeerCloses ==
    /\ Yielded
    /\ watcher = "reading"
    /\ watcher' = "connecting"
    /\ UNCHANGED <<msg, received, tasks, reaper, snapshot, q, scanning, rows, history>>

\* recv() or json.loads() raised: nothing catches it and the task ends.
RecvRaises ==
    /\ Yielded
    /\ watcher = "reading"
    /\ watcher' = "dead"
    /\ UNCHANGED <<msg, received, tasks, reaper, snapshot, q, scanning, rows, history>>

\* A message arrives.  The event loop runs the tasks that are ready before it
\* looks at the sockets again, so by then every task that was created or
\* cancelled has taken its next step.
ReadMessage(m) ==
    /\ Yielded
    /\ watcher = "reading"
    /\ \A p \in Paths : scans[p] \notin {"new", "newCancelled", "sleepCancelled"}
    /\ received + Len(m) <= MaxEvents
    /\ received' = received + Len(m)
    /\ msg' = m
    /\ asked' = {}
    /\ UNCHANGED <<watcher, tasks, reaper, snapshot, q, scanning, rows,
                   last, owed, overlap, mixed>>

-----------------------------------------------------------------------------
(* One event of the message *)

\* Changed form of CancelRequested: a task is cancelled only before it sleeps.
CancelNewOnly(s) == IF s = "new" THEN "newCancelled" ELSE s

\* Task.cancel(), which does nothing to a task that has ended.
CancelRequested(s) ==
    CASE s = "new" -> "newCancelled"
      [] s = "sleeping" -> "sleepCancelled"
      [] OTHER -> s

\* Changed form of Schedule: paths under /tmp are scanned too.
ScheduleTmpToo(p) ==
    /\ scans' = [scans EXCEPT ![p] = IF @ = "none" THEN "new" ELSE @]
    /\ last' = [last EXCEPT ![p] = "scan"]
    /\ owed' = owed \cup {p}
    /\ asked' = asked \cup {p}
    /\ UNCHANGED <<ahead, rows, overlap, mixed>>

\* schedule_file_scan(): a path under /tmp, or one that scans still holds, is
\* ignored.
Schedule(p) ==
    /\ scans' = [scans EXCEPT ![p] = IF p \notin TmpPaths /\ @ = "none" THEN "new" ELSE @]
    /\ IF p \in TmpPaths
       THEN UNCHANGED <<last, owed, asked>>
       ELSE /\ last' = [last EXCEPT ![p] = "scan"]
            /\ owed' = owed \cup {p}
            /\ asked' = asked \cup {p}
    /\ UNCHANGED <<ahead, rows, overlap, mixed>>

\* cancel_file_scan() and ClamAVDB.remove_file().
Remove(p) ==
    IF p \in TmpPaths
    THEN UNCHANGED <<tasks, rows, history>>
    ELSE /\ scans' = [scans EXCEPT ![p] = CancelRequested(@)]
         /\ ahead' = TimerGone(p)
         /\ rows' = rows \ {p}
         /\ last' = [last EXCEPT ![p] = "remove"]
         /\ owed' = owed \ {p}
         /\ overlap' = IF Queued(p) \/ scanning[p] > 0 THEN overlap \cup {p}
                                                       ELSE overlap \ {p}
         /\ mixed' = (mixed \/ p \in asked)
         /\ UNCHANGED asked

HandleEvent ==
    /\ msg # <<>>
    /\ msg' = Tail(msg)
    /\ LET e == Head(msg) IN
         \/ e.operation \in ScanOps /\ Schedule(e.path)
         \/ e.operation \in RemoveOps /\ Remove(e.path)
         \/ e.operation \notin ScanOps \cup RemoveOps /\ UNCHANGED <<tasks, rows, history>>
    /\ UNCHANGED <<watcher, received, reaper, snapshot, q, scanning>>

-----------------------------------------------------------------------------
(* deferred_scan_file() *)

\* The first step: start the 10 s sleep.  A task cancelled before it never
\* enters the try block and ends cancelled.
TaskStart(p) ==
    /\ Yielded
    /\ \/ /\ scans[p] = "new"
          /\ scans' = [scans EXCEPT ![p] = "sleeping"]
          /\ ahead' = [ahead EXCEPT ![p] = Sleeping]
       \/ /\ scans[p] = "newCancelled"
          /\ scans' = [scans EXCEPT ![p] = "cancelled"]
          /\ UNCHANGED ahead
    /\ UNCHANGED <<watcher, msg, received, reaper, snapshot, q, scanning, rows, history>>

\* Changed form of TaskExpire: the path is never queued.
TaskExpireNoPut(p) ==
    /\ Yielded
    /\ scans[p] = "sleeping" /\ ahead[p] = {}
    /\ reaper # "polling"
    /\ scans' = [scans EXCEPT ![p] = "queued"]
    /\ ahead' = TimerGone(p)
    /\ UNCHANGED <<watcher, msg, received, reaper, snapshot, q, scanning, rows, history>>

\* The first timer to expire does, and the path is queued.  The reaper polls
\* every second, so it has seen the task long before.
TaskExpire(p) ==
    /\ Yielded
    /\ scans[p] = "sleeping" /\ ahead[p] = {}
    /\ reaper # "polling"
    /\ scans' = [scans EXCEPT ![p] = "queued"]
    /\ ahead' = TimerGone(p)
    /\ q' = Append(q, p)
    /\ UNCHANGED <<watcher, msg, received, reaper, snapshot, scanning, rows, history>>

\* Changed form of TaskDrop: deferred_scan_file() does not catch CancelledError.
TaskDropUncaught(p) ==
    /\ Yielded
    /\ scans[p] = "sleepCancelled"
    /\ scans' = [scans EXCEPT ![p] = "cancelled"]
    /\ UNCHANGED <<watcher, msg, received, ahead, reaper, snapshot, q, scanning, rows, history>>

\* CancelledError arrives inside the try block.
TaskDrop(p) ==
    /\ Yielded
    /\ scans[p] = "sleepCancelled"
    /\ scans' = [scans EXCEPT ![p] = "dropped"]
    /\ UNCHANGED <<watcher, msg, received, ahead, reaper, snapshot, q, scanning, rows, history>>

-----------------------------------------------------------------------------
(* The reaper *)

Held == {p \in Paths : scans[p] # "none"}
Completed == {p \in snapshot : scans[p] \in Ended}

\* Wait for the tasks in scans, or poll if there are none.
WaitAgain(held) ==
    /\ snapshot' = held
    /\ reaper' = IF held = {} THEN "polling" ELSE "waiting"

\* The one-second poll finds a task.
ReaperPoll ==
    /\ Yielded
    /\ reaper = "polling"
    /\ Held # {}
    /\ WaitAgain(Held)
    /\ UNCHANGED <<watcher, msg, received, tasks, q, scanning, rows, history>>

\* Changed form of Reaped: the entries of cancelled scans are kept.
ReapedQueued(done) == [p \in Paths |-> IF p \in done /\ scans[p] = "queued" THEN "none"
                                                                          ELSE scans[p]]

\* The entries of the tasks in done are deleted.
Reaped(done) == [p \in Paths |-> IF p \in done THEN "none" ELSE scans[p]]

\* asyncio.wait() returned: delete the entries of the completed tasks.
ReaperWake ==
    /\ Yielded
    /\ reaper = "waiting"
    /\ Completed # {}
    /\ \A p \in Completed : scans[p] # "cancelled"
    /\ scans' = Reaped(Completed)
    /\ WaitAgain(Held \ Completed)
    /\ UNCHANGED <<watcher, msg, received, ahead, q, scanning, rows, history>>

\* Awaiting a cancelled task raises CancelledError, which "except Exception"
\* does not catch: the reaper ends, having dealt with some of the others.
ReaperDies ==
    /\ Yielded
    /\ reaper = "waiting"
    /\ \E p \in Completed : scans[p] = "cancelled"
    /\ \E done \in SUBSET {p \in Completed : scans[p] # "cancelled"} : scans' = Reaped(done)
    /\ reaper' = "dead"
    /\ snapshot' = {}
    /\ UNCHANGED <<watcher, msg, received, ahead, q, scanning, rows, history>>

-----------------------------------------------------------------------------
(* The scan loop, as far as it concerns the queue and the rows *)

StartScan ==
    /\ Yielded
    /\ q # <<>>
    /\ q' = Tail(q)
    /\ scanning' = [scanning EXCEPT ![Head(q)] = @ + 1]
    /\ owed' = owed \ {Head(q)}
    /\ UNCHANGED <<watcher, msg, received, tasks, reaper, snapshot, rows,
                   last, overlap, asked, mixed>>

\* A scan ends by storing a row, or without touching the database: the cached
\* result was good, or the file is gone.
FinishScan(p) ==
    /\ Yielded
    /\ scanning[p] > 0
    /\ scanning' = [scanning EXCEPT ![p] = @ - 1]
    /\ rows' \in {rows, rows \cup {p}}
    /\ UNCHANGED <<watcher, msg, received, tasks, reaper, snapshot, q, history>>

-----------------------------------------------------------------------------
Batches == UNION {[1..n -> Event] : n \in 1..MaxBatch}

TaskStep(p) == TaskStart(p) \/ TaskExpire(p) \/ TaskDrop(p)
ReaperStep == ReaperPoll \/ ReaperWake \/ ReaperDies
Environment == Connect \/ PeerCloses \/ RecvRaises \/ \E m \in Batches : ReadMessage(m)

Next ==
    \/ Environment
    \/ HandleEvent
    \/ \E p \in Paths : TaskStep(p) \/ FinishScan(p)
    \/ ReaperStep
    \/ StartScan

Spec == Init /\ [][Next]_vars

\* The event loop runs every task that is ready, timers expire, and the scan
\* loop takes and finishes its scans.  No message need ever arrive.
Fairness ==
    /\ WF_vars(HandleEvent)
    /\ \A p \in Paths : WF_vars(TaskStep(p)) /\ WF_vars(FinishScan(p))
    /\ WF_vars(ReaperStep)
    /\ WF_vars(StartScan)

FairSpec == Spec /\ Fairness

-----------------------------------------------------------------------------
Typed ==
    /\ watcher \in {"connecting", "reading", "dead"}
    /\ msg \in Seq(Event)
    /\ received \in Nat
    /\ scans \in [Paths -> TaskState]
    /\ ahead \in [Paths -> SUBSET Paths]
    /\ reaper \in {"polling", "waiting", "dead"}
    /\ snapshot \in SUBSET Paths
    /\ q \in Seq(Paths)
    /\ scanning \in [Paths -> Nat]
    /\ rows \in SUBSET Paths
    /\ last \in [Paths -> {"nothing", "scan", "remove"}]
    /\ owed \in SUBSET Paths
    /\ overlap \in SUBSET Paths
    /\ asked \in SUBSET Paths
    /\ mixed \in BOOLEAN

\* The types, and no path under /tmp ever gets a task (scan.py:188).
TypeOK == Typed /\ \A p \in TmpPaths : scans[p] = "none"

\* After the removal of a file has been handled no scan of it is queued or run
\* and no row of it comes back, unless the scan loop already had the path then:
\* cancelling wins over the timer until the very step that queues the path
\* (scan.py:196-210, 240-243).
CancelledScanLeavesNothing ==
    \A p \in Paths : last[p] = "remove" /\ p \notin overlap =>
        p \notin rows /\ ~Queued(p) /\ scanning[p] = 0

\* A path whose scan has been queued keeps its entry only until the reaper's
\* next turn: although asyncio.wait() watches the tasks of one moment, one it
\* does not watch never ends by its timer before all those it watches
\* (scan.py:170-174).
ReaperSeesQueued ==
    reaper = "waiting" =>
        \A p \in Paths : scans[p] = "queued" =>
            \E w \in snapshot : scans[w] \in Ended \cup {"sleepCancelled"}

\* The reaper ends only if one message asked to scan a path and then removed it
\* (scan.py:176-183): any other cancellation is caught (scan.py:209).
ReaperDiesOnlyByMixedMessage == reaper = "dead" => mixed

\* No entry of scans is kept forever: while the reaper lives, later events for
\* the path will be heard again (scan.py:182, 190).
EntriesAreReaped ==
    \A p \in Paths : scans[p] # "none" ~> scans[p] = "none" \/ reaper = "dead"

\* A request that got a task of its own is followed by a scan of the path or
\* its removal, even if the watcher connection or the reaper is lost
\* (scan.py:192, 203-206).
AcceptedRequestsAreServed ==
    \A p \in Paths : p \in owed /\ scans[p] \in {"new", "sleeping"} ~> p \notin owed

-----------------------------------------------------------------------------
(* Two things the code does not do *)

\* README.md:26: the delay is there "to account for temporary files that are
\* deleted as soon as they are closed", so such a file must not end the task
\* that lets later events be heard (scan.py:168-185).
ReaperSurvives == reaper # "dead"

\* scan.py:280 promises to "Watch for changes and scan on demand": a path that
\* was asked for and not removed since is scanned some time (scan.py:187-194).
EveryRequestIsServed == \A p \in Paths : p \in owed ~> p \notin owed

=============================================================================
