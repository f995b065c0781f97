---------------------------- MODULE ScanLoopProofs ----------------------------
(***************************************************************************)
(* For any paths and limits: main() uses the queue as FinishableQueue      *)
(* allows, never starts a scan before clamd answers, never waits for       *)
(* nothing or beside a free slot, and returns only when all is logged.     *)
(***************************************************************************)
EXTENDS ScanLoop, FiniteSetTheorems, SequenceTheorems, TLAPS

\* What is proved of the queue by itself.
QueueProofs == INSTANCE FinishableQueueProofs

\* The socket is another's until clamd has read its configuration.
StartInv == process \in {"none", "starting"} /\ socket => stale

\* Nobody waits in get(), and the state of file_ready_task is that of its client.
ConsumersInv ==
    /\ waiters = <<>>
    /\ client["main"] = "idle"
    /\ client["file_ready_task"] \in
          IF fileReady = "waiting" THEN {"blocked", "awake"} ELSE {"idle"}

\* Each path taken off the queue has its scan, at most max_scans at a time.
ScansInv ==
    /\ Len(scan) = Len(delivered)
    /\ Cardinality(Scans) <= max_scans

\* The loop goes on only with something to do, and suspends without a task that
\* waits for the queue only if no slot is free or nothing will be queued.
WorkInv ==
    /\ pc = "fill" => ~Finished \/ tasks # {}
    /\ pc = "wait" => tasks # {}
    /\ pc = "wait" /\ fileReady = "none" => Cardinality(Scans) = max_scans \/ Finished

\* clamd is started, and main() goes on, in order.
StartedRight ==
    /\ Daemon!TypeOK
    /\ pc \in Locations
    /\ StartInv
    /\ Daemon!ConfigIsRead
    /\ ClamdAnswers

\* The completed tasks are tasks, and dealt with before main() goes on.
TasksInv ==
    /\ watch \in BOOLEAN /\ option \in Options
    /\ scan \in Seq(ScanState)
    /\ fileReady \in {"none", "created", "waiting", "done"}
    /\ completed \subseteq (1..Len(scan)) \cup {ReadyTask}
    /\ completed # {} => pc \in {"process", "crashed"}
    /\ ReadyTask \in completed => fileReady = "done"

LoopInv ==
    /\ TasksInv
    /\ ConsumersInv /\ ScansInv /\ WorkInv
    /\ ExitMeansAllLogged

-----------------------------------------------------------------------------
(* The queue *)

\* An operation of the queue, or none.
LEMMA StepsOfTheQueue ==
    [Next]_vars => [QueueProofs!Next]_(QueueProofs!vars)
<1> SUFFICES ASSUME [Next]_vars, ~UNCHANGED queue
             PROVE  QueueProofs!Next
  BY DEF queue, QueueProofs!vars
<1> USE DEF queue
<1>1. "main" \in Clients /\ "file_ready_task" \in Clients
  BY DEF Clients
<1>2. \/ \E x \in Items : Queue!Put(x)
      \/ Queue!Finish \/ Queue!GetNowait("main")
      \/ Queue!UntilItemReady("file_ready_task") \/ Queue!Resume("file_ready_task")
  <2>1. ~UNCHANGED vars
    BY DEF vars
  <2>2. CASE MainStep
    BY <2>2 DEF MainStep, StartClamd, StartFails, ClamdStarted, SocketSeen, ClamdReady,
                CrawlResume, LoopTest, OptionRaises, StartScan, Suspend, Wake, ProcessReady,
                Processed, ProcessScan
  <2>3. CASE ClamdExits \/ ClamdProgress \/ ClamdExit \/ CrawlYield \/ CrawlRaises \/ CrawlEnd
    BY <2>3 DEF ClamdExits, ClamdProgress, ClamdExit, CrawlYield, CrawlRaises, CrawlEnd
  <2>4. CASE \E x \in Items : CrawlPut(x) \/ WatcherPut(x)
    BY <2>4 DEF CrawlPut, WatcherPut
  <2>5. CASE ReadyTaskWaits \/ ReadyTaskEnds \/ \E k \in 1..MaxPuts : ScanEnds(k)
    BY <2>5 DEF ReadyTaskWaits, ReadyTaskEnds, ScanEnds
  <2> QED
    BY <2>1, <2>2, <2>3, <2>4, <2>5 DEF Next
<1>3. ASSUME NEW x \in Items, Queue!Put(x) PROVE QueueProofs!Next
  BY <1>3 DEF Queue!Put, Queue!HandOver, Queue!Enqueue, Queue!Released, QueueProofs!Next,
              QueueProofs!Put, QueueProofs!HandOver, QueueProofs!Enqueue, QueueProofs!Released
<1>4. CASE Queue!Finish
  BY <1>4 DEF Queue!Finish, Queue!Released, QueueProofs!Next, QueueProofs!Finish,
              QueueProofs!Released
<1>5. CASE Queue!GetNowait("main")
  BY <1>1, <1>5 DEF Queue!GetNowait, Queue!PopHead, QueueProofs!Next, QueueProofs!GetNowait,
                    QueueProofs!PopHead
<1>6. CASE Queue!UntilItemReady("file_ready_task") \/ Queue!Resume("file_ready_task")
  BY <1>1, <1>6 DEF Queue!UntilItemReady, Queue!Resume, QueueProofs!Next,
                    QueueProofs!UntilItemReady, QueueProofs!Resume
<1>7. QED
  BY <1>2, <1>3, <1>4, <1>5, <1>6

\* main(), the crawl and the watcher together use the queue as its own
\* specification says, so what is proved of the queue holds here.
THEOREM MainUsesTheQueue == Spec => QueueProofs!Spec
<1>1. Init => QueueProofs!Init
  BY DEF Init, Queue!Init, QueueProofs!Init
<1>2. QED
  BY <1>1, StepsOfTheQueue, PTL DEF Spec, QueueProofs!Spec

\* What is needed of the queue here.
QueueFacts ==
    /\ q \in Seq(Items) /\ delivered \in Seq(Items) /\ accepted \in Seq(Items)
    /\ client \in [Clients -> QueueProofs!ClientState]
    /\ accepted = delivered \o q
    /\ q # <<>> => ready
    /\ client["file_ready_task"] = "blocked" => ~ready /\ ~finished

LEMMA QueueIsRight == Spec => []QueueFacts
<1>1. QueueProofs!QueueAssumption
  BY LoopAssumption DEF QueueProofs!QueueAssumption
<1>2. Spec => [](QueueProofs!TypeOK) /\ [](QueueProofs!QInv)
  BY <1>1, MainUsesTheQueue, QueueProofs!QueueTypeCorrect, QueueProofs!QueueInvariant, PTL
<1>3. QueueProofs!TypeOK /\ QueueProofs!QInv => QueueFacts
  BY DEF QueueProofs!TypeOK, QueueProofs!QInv, QueueProofs!Conserved,
         QueueProofs!EventIsCurrent, QueueFacts, Clients
<1>4. QED
  BY <1>2, <1>3, PTL

\* The paths main() takes are those that were queued, in order.
THEOREM PathsComeInOrder == Spec => QueueProofs!ImplementsChannel
<1>1. QueueProofs!QueueAssumption
  BY LoopAssumption DEF QueueProofs!QueueAssumption
<1>2. QED
  BY <1>1, MainUsesTheQueue, QueueProofs!QueueImplementsChannel, PTL

-----------------------------------------------------------------------------
(* The start *)

\* Only the steps of ensure_clamd() and of clamd itself touch clamd's state, and
\* main() leaves ensure_clamd() only when clamd serves.
LEMMA StartStep ==
    ASSUME StartedRight, [Next]_vars
    PROVE  StartedRight'
<1> USE DEF Locations, Starting, Ends, Failures
<1>1. /\ Daemon!TypeOK /\ pc \in Locations /\ StartInv /\ Daemon!ConfigIsRead /\ ClamdAnswers
  BY DEF StartedRight
<1>2. ASSUME UNCHANGED daemon, pc' \in Locations,
             pc \in Starting => pc' \in Starting \cup Ends,
             pc \in Ends => pc' = pc
      PROVE  StartedRight'
  BY <1>1, <1>2 DEF StartedRight, Daemon!TypeOK, StartInv, Daemon!ConfigIsRead, ClamdAnswers,
                    daemon
<1>3. CASE StartClamd
  BY <1>1, <1>3 DEF StartClamd, Daemon!Start, StartedRight, Daemon!TypeOK, StartInv,
                    Daemon!ConfigIsRead, ClamdAnswers
<1>4. CASE ClamdStarted \/ SocketSeen
  BY <1>1, <1>4 DEF ClamdStarted, SocketSeen, Daemon!Started, Daemon!SocketSeen, StartedRight,
                    Daemon!TypeOK, StartInv, Daemon!ConfigIsRead, ClamdAnswers
<1>5. CASE ClamdReady
  BY <1>1, <1>5 DEF ClamdReady, Daemon!Answered, Daemon!daemon, StartedRight, Daemon!TypeOK,
                    StartInv, Daemon!ConfigIsRead, ClamdAnswers
<1>6. CASE ClamdExits
  BY <1>1, <1>6 DEF ClamdExits, Daemon!MonitorEnds, StartedRight, Daemon!TypeOK, StartInv,
                    Daemon!ConfigIsRead, ClamdAnswers
<1>7. CASE ClamdProgress
  <2>1. CASE Daemon!ReadConfig
    BY <1>1, <1>7, <2>1 DEF ClamdProgress, Daemon!ReadConfig, StartedRight, Daemon!TypeOK,
                            StartInv, Daemon!ConfigIsRead, ClamdAnswers
  <2>2. CASE Daemon!Listen
    BY <1>1, <1>7, <2>2 DEF ClamdProgress, Daemon!Listen, StartedRight, Daemon!TypeOK,
                            StartInv, Daemon!ConfigIsRead, ClamdAnswers
  <2>3. CASE Daemon!Serve
    BY <1>1, <1>7, <2>3 DEF ClamdProgress, Daemon!Serve, StartedRight, Daemon!TypeOK,
                            StartInv, Daemon!ConfigIsRead, ClamdAnswers
  <2>4. QED
    BY <1>7, <2>1, <2>2, <2>3 DEF ClamdProgress, Daemon!Progress
<1>8. CASE ClamdExit
  BY <1>1, <1>8 DEF ClamdExit, Daemon!Exit, Daemon!Alive, StartedRight, Daemon!TypeOK,
                    StartInv, Daemon!ConfigIsRead, ClamdAnswers
<1>9. CASE StartFails \/ CrawlResume \/ LoopTest \/ OptionRaises \/ StartScan \/ Suspend
           \/ Wake \/ ProcessReady \/ Processed
  BY <1>1, <1>2, <1>9 DEF StartFails, CrawlResume, LoopTest, OptionRaises, StartScan, Suspend,
                          Wake, ProcessReady, Processed, context
<1>10. CASE CrawlYield \/ CrawlRaises \/ CrawlEnd \/ ReadyTaskWaits \/ ReadyTaskEnds
            \/ \E x \in Items : CrawlPut(x) \/ WatcherPut(x)
  BY <1>1, <1>2, <1>10 DEF CrawlYield, CrawlRaises, CrawlEnd, ReadyTaskWaits, ReadyTaskEnds,
                           CrawlPut, WatcherPut, Yielded, context
<1>11. CASE \E k \in 1..MaxPuts : ProcessScan(k) \/ ScanEnds(k)
  BY <1>1, <1>2, <1>11 DEF ProcessScan, ScanEnds, Yielded, context
<1>12. CASE UNCHANGED vars
  BY <1>1, <1>2, <1>12 DEF vars, context
<1>13. QED
  BY <1>3, <1>4, <1>5, <1>6, <1>7, <1>8, <1>9, <1>10, <1>11, <1>12 DEF Next, MainStep

LEMMA StartIsRight == Spec => []StartedRight
<1>1. Init => StartedRight
  BY DEF Init, Daemon!Init, StartedRight, Daemon!TypeOK, Locations, Starting, StartInv,
         Daemon!ConfigIsRead, ClamdAnswers
<1>2. QED
  BY <1>1, StartStep, PTL DEF Spec

\* The scanner does not remove the configuration before clamd has read it, unless there
\* was a file at the socket's path; and main() leaves ensure_clamd(), to crawl and to
\* scan, only with a clamd that serves, which from then on serves or has exited.
THEOREM StartStaysOrdered == Spec => []StartIsOrdered
<1>1. StartedRight => StartIsOrdered
  BY DEF StartedRight, StartIsOrdered
<1>2. QED
  BY <1>1, StartIsRight, PTL

-----------------------------------------------------------------------------
(* The loop *)

\* Scans that are not logged are among those started; the ready task is another.
LEMMA TasksAreFinite ==
    ASSUME scan \in Seq(ScanState)
    PROVE  /\ Scans \subseteq 1..Len(scan)
           /\ IsFiniteSet(Scans) /\ Cardinality(Scans) \in Nat
           /\ IsFiniteSet(tasks) /\ Cardinality(tasks) \in Nat
           /\ Cardinality(Scans) <= Cardinality(tasks)
           /\ fileReady = "none" => tasks = Scans
           /\ fileReady # "none" => tasks # {}
<1>1. Scans \subseteq 1..Len(scan) /\ Len(scan) \in Nat
  BY DEF Scans
<1>2. IsFiniteSet(Scans)
  <2>1. IsFiniteSet(1..Len(scan))
    BY <1>1, FS_Interval
  <2>2. QED
    BY <1>1, <2>1, FS_Subset
<1>3. tasks = Scans \/ tasks = Scans \cup {ReadyTask}
  BY DEF tasks
<1>4. IsFiniteSet(tasks)
  BY <1>2, <1>3, FS_AddElement
<1>5. Cardinality(Scans) \in Nat /\ Cardinality(tasks) \in Nat
  BY <1>2, <1>4, FS_CardinalityType
<1>6. Cardinality(Scans) <= Cardinality(tasks)
  BY <1>3, <1>4, FS_Subset
<1>7. fileReady = "none" => tasks = Scans
  BY DEF tasks
<1>8. fileReady # "none" => tasks # {}
  BY DEF tasks
<1>9. QED
  BY <1>1, <1>2, <1>4, <1>5, <1>6, <1>7, <1>8

\* Steps that touch neither the queue nor the tasks, nor enter the loop's
\* suspension, its filling or its end.
LEMMA TasksKept ==
    ASSUME LoopInv,
           UNCHANGED <<queue, watch, option, scan, fileReady, completed>>,
           pc' # pc => /\ pc' \notin {"fill", "wait", "exit"}
                       /\ completed # {} => pc' = "crashed"
    PROVE  LoopInv'
<1>1. /\ Scans' = Scans /\ tasks' = tasks /\ Finished' = Finished
  BY DEF Scans, tasks, Finished, queue
<1>2. TasksInv' /\ ConsumersInv'
  BY DEF LoopInv, TasksInv, ConsumersInv, queue
<1>3. ScansInv' /\ WorkInv'
  BY <1>1 DEF LoopInv, ScansInv, WorkInv, queue
<1>4. ExitMeansAllLogged'
  BY DEF LoopInv, ExitMeansAllLogged, queue
<1>5. QED
  BY <1>2, <1>3, <1>4 DEF LoopInv

\* What main() does outside of its loop, clamd's steps, and going round the loop.
LEMMA OutsideKeeps ==
    ASSUME LoopInv,
           \/ StartClamd \/ StartFails \/ ClamdStarted \/ SocketSeen \/ ClamdReady
           \/ ClamdExits \/ ClamdProgress \/ ClamdExit
           \/ CrawlYield \/ CrawlRaises \/ CrawlResume \/ OptionRaises \/ Processed \/ UNCHANGED vars
    PROVE  LoopInv'
<1>1. UNCHANGED <<queue, watch, option, scan, fileReady, completed>>
  BY DEF StartClamd, StartFails, ClamdStarted, SocketSeen, ClamdReady, ClamdExits,
         ClamdProgress, ClamdExit, CrawlYield, CrawlRaises, CrawlResume, OptionRaises, Processed, context,
         vars
<1>2. pc' # pc => /\ pc' \notin {"fill", "wait", "exit"}
                  /\ completed # {} => pc' = "crashed"
  BY DEF StartClamd, StartFails, ClamdStarted, SocketSeen, ClamdReady, ClamdExits,
         ClamdProgress, ClamdExit, CrawlYield, CrawlRaises, CrawlResume, OptionRaises, Processed, context,
         vars, LoopInv, TasksInv, Yielded
<1>3. QED
  BY <1>1, <1>2, TasksKept

\* put() wakes file_ready_task; while main() sleeps without it, no slot is free.
LEMMA PutKeeps ==
    ASSUME LoopInv, QueueFacts, NEW x \in Items, CrawlPut(x) \/ WatcherPut(x)
    PROVE  LoopInv'
<1>1. /\ UNCHANGED <<context, pc, scan, fileReady, completed>>
      /\ pc \in {"walk", "yield", "wait"} /\ Queue!Put(x)
  BY DEF CrawlPut, WatcherPut, Yielded
<1>2. /\ ~finished /\ waiters = <<>> /\ UNCHANGED <<waiters, delivered, finished>>
      /\ client' = Queue!Released
  BY <1>1 DEF Queue!Put, Queue!HandOver, Queue!Enqueue, LoopInv, ConsumersInv
<1>3. Scans' = Scans /\ tasks' = tasks /\ ~Finished /\ ~Finished'
  BY <1>1, <1>2 DEF Scans, tasks, Finished
<1>4. ConsumersInv'
  BY <1>1, <1>2 DEF Queue!Released, LoopInv, ConsumersInv, QueueFacts, Clients
<1>5. TasksInv'
  BY <1>1 DEF LoopInv, TasksInv, context
<1>6. ScansInv' /\ WorkInv' /\ ExitMeansAllLogged'
  BY <1>1, <1>2, <1>3 DEF LoopInv, ScansInv, WorkInv, ExitMeansAllLogged
<1>7. QED
  BY <1>4, <1>5, <1>6 DEF LoopInv

\* The end of the crawl finishes the queue, or not.
LEMMA CrawlEndKeeps ==
    ASSUME LoopInv, QueueFacts, CrawlEnd
    PROVE  LoopInv'
<1>1. /\ UNCHANGED <<context, scan, fileReady, completed, waiters, delivered>>
      /\ pc = "walk" /\ pc' = "top"
      /\ client' = client \/ client' = Queue!Released
  <2>1. waiters = <<>> /\ ~ \E i \in DOMAIN waiters : TRUE
    BY DEF LoopInv, ConsumersInv
  <2>2. CASE watch
    BY <2>2 DEF CrawlEnd, queue
  <2>3. CASE ~watch
    <3>1. client' = [c \in Clients |-> Queue!Released[c]] /\ waiters' = waiters
      BY <2>1, <2>3 DEF CrawlEnd, Queue!Finish
    <3>2. client' = Queue!Released
      BY <3>1 DEF Queue!Released
    <3>3. QED
      BY <2>3, <3>1, <3>2 DEF CrawlEnd, Queue!Finish
  <2>4. QED
    BY <2>2, <2>3
<1>2. Scans' = Scans /\ tasks' = tasks
  BY <1>1 DEF Scans, tasks
<1>3. ConsumersInv'
  BY <1>1 DEF Queue!Released, LoopInv, ConsumersInv, QueueFacts, Clients
<1>4. TasksInv'
  BY <1>1 DEF LoopInv, TasksInv, context
<1>5. ScansInv' /\ WorkInv' /\ ExitMeansAllLogged'
  BY <1>1, <1>2 DEF LoopInv, ScansInv, WorkInv, ExitMeansAllLogged
<1>6. QED
  BY <1>3, <1>4, <1>5 DEF LoopInv

\* main() goes into its loop only with something to do; otherwise all that was
\* queued has been taken, and every scan logged.
LEMMA LoopTestKeeps ==
    ASSUME LoopInv, QueueFacts, LoopTest
    PROVE  LoopInv'
<1>1. /\ UNCHANGED <<queue, context, scan, fileReady, completed>>
      /\ pc = "top" /\ pc' = IF Finished /\ tasks = {} THEN "exit" ELSE "fill"
  BY DEF LoopTest
<1>2. /\ Scans' = Scans /\ tasks' = tasks /\ Finished' = Finished
  BY <1>1 DEF Scans, tasks, Finished, queue
<1>3. TasksInv' /\ ConsumersInv' /\ ScansInv'
  BY <1>1, <1>2 DEF LoopInv, TasksInv, ConsumersInv, ScansInv, context, queue
<1>4. WorkInv'
  BY <1>1, <1>2 DEF WorkInv
<1>5. ExitMeansAllLogged'
  <2> SUFFICES ASSUME Finished, tasks = {}
               PROVE  /\ accepted = delivered /\ Len(scan) = Len(accepted)
                      /\ \A k \in DOMAIN scan : scan[k] = "logged"
    BY <1>1 DEF ExitMeansAllLogged, queue
  <2>1. accepted = delivered
    BY ConcatEmptySeq DEF QueueFacts, Finished
  <2>2. Scans = {}
    BY DEF tasks
  <2>3. QED
    BY <2>1, <2>2 DEF LoopInv, ScansInv, Scans
<1>6. QED
  BY <1>3, <1>4, <1>5 DEF LoopInv

\* A scan is started for the path that is taken, in a slot that is free.
LEMMA StartScanKeeps ==
    ASSUME LoopInv, QueueFacts, StartScan
    PROVE  LoopInv'
<1>1. /\ UNCHANGED <<context, pc, fileReady, completed, waiters>>
      /\ pc = "fill" /\ Cardinality(tasks) < max_scans
      /\ delivered' = Append(delivered, Head(q)) /\ q # <<>>
      /\ client' = [client EXCEPT !["main"] = "idle"]
      /\ scan' = Append(scan, "running")
  BY DEF StartScan, FreeSlot, Queue!GetNowait, Queue!PopHead
<1>2. /\ scan \in Seq(ScanState) /\ "running" \in ScanState /\ Len(scan) \in Nat
      /\ max_scans \in Nat
  BY LoopAssumption DEF LoopInv, TasksInv, ScanState
<1>3. /\ scan' \in Seq(ScanState) /\ Len(scan') = Len(scan) + 1
      /\ \A k \in 1..Len(scan) : scan'[k] = scan[k]
      /\ scan'[Len(scan) + 1] = "running"
  BY <1>1, <1>2, AppendProperties
<1>4. Len(delivered') = Len(delivered) + 1
  BY <1>1, AppendProperties, HeadTailProperties DEF QueueFacts
<1>5. Scans' = Scans \cup {Len(scan) + 1} /\ Len(scan) + 1 \notin Scans
  <2>1. DOMAIN scan = 1..Len(scan) /\ DOMAIN scan' = 1..(Len(scan) + 1)
    BY <1>2, <1>3
  <2>2. QED
    BY <2>1, <1>2, <1>3 DEF Scans
<1>6. Cardinality(Scans') = Cardinality(Scans) + 1
  BY <1>2, <1>5, TasksAreFinite, FS_AddElement
<1>7. ScansInv'
  <2>1. /\ Cardinality(Scans) \in Nat /\ Cardinality(tasks) \in Nat
        /\ Cardinality(Scans) <= Cardinality(tasks)
    BY <1>2, TasksAreFinite
  <2>2. Cardinality(Scans') <= max_scans
    BY <2>1, <1>1, <1>2, <1>6
  <2>3. Len(scan') = Len(delivered')
    BY <1>3, <1>4 DEF LoopInv, ScansInv
  <2>4. QED
    BY <2>2, <2>3 DEF ScansInv
<1>8. WorkInv'
  BY <1>1, <1>5 DEF WorkInv, tasks
<1>9. TasksInv'
  BY <1>1, <1>2, <1>3 DEF LoopInv, TasksInv, context
<1>10. ConsumersInv' /\ ExitMeansAllLogged'
  BY <1>1 DEF LoopInv, ConsumersInv, ExitMeansAllLogged, QueueFacts, Clients
<1>11. QED
  BY <1>7, <1>8, <1>9, <1>10 DEF LoopInv

\* main() suspends with a task to wait for.
LEMMA SuspendKeeps ==
    ASSUME LoopInv, Suspend
    PROVE  LoopInv'
<1>1. /\ UNCHANGED <<queue, context, scan, completed>>
      /\ pc = "fill" /\ pc' = "wait"
      /\ ~(Cardinality(tasks) < max_scans) \/ q = <<>>
      /\ fileReady' = IF NeedsReadyTask THEN "created" ELSE fileReady
  BY DEF Suspend, FreeSlot
<1>2. scan \in Seq(ScanState) /\ max_scans \in Nat \ {0}
      /\ fileReady \in {"none", "created", "waiting", "done"}
  BY LoopAssumption DEF LoopInv, TasksInv
<1>3. Scans' = Scans /\ Finished' = Finished
  BY <1>1 DEF Scans, Finished, queue
<1>4. tasks' # {}
  <2>1. CASE fileReady' # "none"
    BY <2>1 DEF tasks
  <2>2. CASE fileReady' = "none"
    <3>1. fileReady = "none" /\ ~NeedsReadyTask /\ tasks' = Scans /\ tasks = Scans
      BY <2>2, <1>1, <1>3 DEF tasks
    <3>2. CASE q = <<>>
      BY <3>1, <3>2, <1>1 DEF NeedsReadyTask, LoopInv, WorkInv
    <3>3. CASE ~(Cardinality(tasks) < max_scans)
      <4>1. Cardinality(tasks) # 0
        BY <3>3, <1>2
      <4>2. QED
        BY <3>1, <4>1, FS_EmptySet
    <3>4. QED
      BY <3>2, <3>3, <1>1
  <2>3. QED
    BY <2>1, <2>2
<1>5. ASSUME fileReady' = "none" PROVE Cardinality(Scans) = max_scans \/ Finished
  <2>1. fileReady = "none" /\ ~NeedsReadyTask /\ tasks = Scans
    BY <1>1, <1>5 DEF tasks
  <2>2. CASE q = <<>>
    BY <2>1, <2>2 DEF NeedsReadyTask
  <2>3. CASE ~(Cardinality(tasks) < max_scans)
    <3>1. Cardinality(Scans) \in Nat /\ Cardinality(Scans) <= max_scans
      BY <1>2, TasksAreFinite DEF LoopInv, ScansInv
    <3>2. QED
      BY <3>1, <2>1, <2>3, <1>2
  <2>4. QED
    BY <2>2, <2>3, <1>1
<1>6. WorkInv'
  BY <1>1, <1>3, <1>4, <1>5 DEF WorkInv
<1>7. TasksInv' /\ ScansInv' /\ ExitMeansAllLogged'
  BY <1>1, <1>3 DEF LoopInv, TasksInv, ScansInv, ExitMeansAllLogged, context, queue
<1>8. ConsumersInv'
  BY <1>1 DEF LoopInv, ConsumersInv, NeedsReadyTask, queue
<1>9. QED
  BY <1>6, <1>7, <1>8 DEF LoopInv

\* asyncio.wait() returns, and the ready task is forgotten once it is done.
LEMMA WakeKeeps ==
    ASSUME LoopInv, Wake \/ ProcessReady
    PROVE  LoopInv'
<1>1. /\ UNCHANGED <<queue, context, scan>>
      /\ pc' = "process" /\ pc \in {"wait", "process"}
      /\ completed' \subseteq completed \cup Done
      /\ \/ fileReady' = fileReady
         \/ ReadyTask \in completed /\ fileReady' = "none" /\ completed' = completed \ {ReadyTask}
  BY DEF Wake, ProcessReady
<1>2. Scans' = Scans
  BY <1>1 DEF Scans
<1>3. TasksInv'
  <2>1. Done \subseteq (1..Len(scan)) \cup {ReadyTask}
    BY TasksAreFinite DEF Done, LoopInv, TasksInv
  <2>2. ReadyTask \in Done => fileReady = "done"
    BY TasksAreFinite DEF Done, LoopInv, TasksInv, ReadyTask
  <2>3. QED
    BY <2>1, <2>2, <1>1 DEF LoopInv, TasksInv, context
<1>4. ScansInv' /\ WorkInv' /\ ExitMeansAllLogged'
  BY <1>1, <1>2 DEF LoopInv, ScansInv, WorkInv, ExitMeansAllLogged, queue
<1>5. ConsumersInv'
  <2>1. CASE Wake
    BY <2>1 DEF Wake, LoopInv, ConsumersInv, queue
  <2>2. CASE ProcessReady
    BY <2>2 DEF ProcessReady, LoopInv, TasksInv, ConsumersInv, queue
  <2>3. QED
    BY <2>1, <2>2
<1>6. QED
  BY <1>3, <1>4, <1>5 DEF LoopInv

\* A task changes its state: a scan ends or is logged.  Those that are not logged
\* do not get more.
LEMMA ScanSetKeeps ==
    ASSUME LoopInv, NEW k \in 1..Len(scan), NEW o \in ScanState,
           scan' = [scan EXCEPT ![k] = o],
           pc' = pc, pc \in {"yield", "wait", "process"},
           IF pc = "process" THEN o = "logged" ELSE scan[k] # "logged" /\ o # "logged",
           completed' \subseteq completed,
           UNCHANGED <<queue, watch, option, fileReady>>
    PROVE  LoopInv'
<1>1. /\ scan \in Seq(ScanState) /\ Len(scan) \in Nat
      /\ scan' \in Seq(ScanState) /\ Len(scan') = Len(scan)
      /\ DOMAIN scan' = DOMAIN scan
      /\ \A j \in DOMAIN scan : scan'[j] = IF j = k THEN o ELSE scan[j]
  BY DEF LoopInv, TasksInv
<1>2. TasksInv' /\ ConsumersInv'
  BY <1>1 DEF LoopInv, TasksInv, ConsumersInv, queue
<1>3. pc = "wait" => Scans' = Scans /\ tasks' = tasks
  BY <1>1 DEF Scans, tasks
<1>4. WorkInv'
  BY <1>3 DEF LoopInv, WorkInv, Finished, queue
<1>5. ExitMeansAllLogged'
  BY DEF ExitMeansAllLogged
<1>6. ScansInv'
  <2>1. Scans' \in SUBSET Scans
    BY <1>1 DEF Scans
  <2>2. Cardinality(Scans') <= Cardinality(Scans) /\ Cardinality(Scans') \in Nat
        /\ Cardinality(Scans) \in Nat
    BY <2>1, <1>1, TasksAreFinite, FS_Subset, FS_CardinalityType
  <2>3. QED
    BY <2>2, <1>1, LoopAssumption DEF LoopInv, ScansInv, queue
<1>7. QED
  BY <1>2, <1>4, <1>5, <1>6 DEF LoopInv

\* A scan ends while main() is suspended; main() logs it, or ends with it.
LEMMA ScanTasksKeep ==
    ASSUME LoopInv, NEW k \in 1..MaxPuts, ScanEnds(k) \/ ProcessScan(k)
    PROVE  LoopInv'
<1>1. scan \in Seq(ScanState) /\ DOMAIN scan = 1..Len(scan)
  BY DEF LoopInv, TasksInv
<1>2. CASE ScanEnds(k)
  <2>1. PICK o \in Outcomes : scan' = [scan EXCEPT ![k] = o]
    BY <1>2 DEF ScanEnds
  <2>2. /\ k \in 1..Len(scan) /\ scan[k] = "running" /\ o \in ScanState /\ o # "logged"
        /\ pc \in {"yield", "wait"} /\ pc' = pc
        /\ completed' = completed /\ UNCHANGED <<queue, watch, option, fileReady>>
    BY <1>1, <1>2 DEF ScanEnds, Yielded, Outcomes, ScanState, context
  <2>3. QED
    BY <2>1, <2>2, ScanSetKeeps
<1>3. CASE ProcessScan(k) /\ scan[k] = "raised"
  <2>1. /\ UNCHANGED <<queue, watch, option, scan, fileReady, completed>>
        /\ pc' = "crashed"
    BY <1>3 DEF ProcessScan, context
  <2>2. QED
    BY <2>1, TasksKept
<1>4. CASE ProcessScan(k) /\ scan[k] # "raised"
  <2>1. /\ k \in completed /\ k # ReadyTask
        /\ scan' = [scan EXCEPT ![k] = "logged"] /\ "logged" \in ScanState
        /\ pc = "process" /\ pc' = pc /\ completed' \subseteq completed
        /\ UNCHANGED <<queue, watch, option, fileReady>>
    BY <1>4 DEF ProcessScan, ScanState, context
  <2>2. k \in 1..Len(scan)
    BY <2>1 DEF LoopInv, TasksInv
  <2>3. QED
    BY <2>1, <2>2, ScanSetKeeps
<1>5. QED
  BY <1>2, <1>3, <1>4

\* file_ready_task waits on the event, or goes on, as the queue says.
LEMMA ReadyTaskKeeps ==
    ASSUME LoopInv, QueueFacts, ReadyTaskWaits \/ ReadyTaskEnds
    PROVE  LoopInv'
<1>1. /\ UNCHANGED <<context, pc, scan, completed, q, finished, waiters, accepted, delivered>>
      /\ pc \in {"yield", "wait"}
      /\ fileReady # "none" /\ fileReady' \in {"waiting", "done"}
      /\ \/ fileReady' = "waiting" /\ \E s \in {"awake", "blocked"} :
                client' = [client EXCEPT !["file_ready_task"] = s]
         \/ fileReady' = "done" /\ client' = [client EXCEPT !["file_ready_task"] = "idle"]
  BY DEF ReadyTaskWaits, ReadyTaskEnds, Queue!UntilItemReady, Queue!Resume, Yielded
<1>2. ConsumersInv'
  BY <1>1 DEF LoopInv, ConsumersInv, QueueFacts, Clients
<1>3. Scans' = Scans /\ tasks' = tasks
  BY <1>1 DEF Scans, tasks
<1>4. TasksInv'
  BY <1>1 DEF LoopInv, TasksInv, context
<1>5. ScansInv' /\ WorkInv' /\ ExitMeansAllLogged'
  BY <1>1, <1>3 DEF LoopInv, ScansInv, WorkInv, ExitMeansAllLogged, Finished
<1>6. QED
  BY <1>2, <1>4, <1>5 DEF LoopInv

-----------------------------------------------------------------------------
(* The theorems *)

LEMMA LoopInvInit == Init => LoopInv
<1> SUFFICES ASSUME Init PROVE LoopInv
  OBVIOUS
<1>1. /\ scan = <<>> /\ delivered = <<>> /\ waiters = <<>> /\ completed = {}
      /\ client = [c \in Clients |-> "idle"] /\ pc = "start" /\ fileReady = "none"
      /\ watch \in BOOLEAN /\ option \in Options
  BY DEF Init, Queue!Init
<1>2. Scans = {} /\ Cardinality(Scans) = 0
  BY <1>1, FS_EmptySet DEF Scans
<1>3. scan \in Seq(ScanState) /\ Len(scan) = Len(delivered)
  BY <1>1, EmptySeq
<1>4. TasksInv /\ ConsumersInv
  BY <1>1, <1>3 DEF TasksInv, ConsumersInv, Clients
<1>5. ScansInv /\ WorkInv /\ ExitMeansAllLogged
  BY <1>1, <1>2, <1>3, LoopAssumption DEF ScansInv, WorkInv, ExitMeansAllLogged
<1>6. QED
  BY <1>4, <1>5 DEF LoopInv

LEMMA LoopInvStep == LoopInv /\ QueueFacts /\ [Next]_vars => LoopInv'
<1> SUFFICES ASSUME LoopInv, QueueFacts, [Next]_vars PROVE LoopInv'
  OBVIOUS
<1>1. CASE \/ StartClamd \/ StartFails \/ ClamdStarted \/ SocketSeen \/ ClamdReady
           \/ ClamdExits \/ ClamdProgress \/ ClamdExit
           \/ CrawlYield \/ CrawlRaises \/ CrawlResume \/ OptionRaises \/ Processed \/ UNCHANGED vars
  BY <1>1, OutsideKeeps
<1>2. CASE \E x \in Items : CrawlPut(x) \/ WatcherPut(x)
  BY <1>2, PutKeeps
<1>3. CASE CrawlEnd
  BY <1>3, CrawlEndKeeps
<1>4. CASE LoopTest
  BY <1>4, LoopTestKeeps
<1>5. CASE StartScan
  BY <1>5, StartScanKeeps
<1>6. CASE Suspend
  BY <1>6, SuspendKeeps
<1>7. CASE Wake \/ ProcessReady
  BY <1>7, WakeKeeps
<1>8. CASE \E k \in 1..MaxPuts : ProcessScan(k) \/ ScanEnds(k)
  BY <1>8, ScanTasksKeep
<1>9. CASE ReadyTaskWaits \/ ReadyTaskEnds
  BY <1>9, ReadyTaskKeeps
<1>10. QED
  BY <1>1, <1>2, <1>3, <1>4, <1>5, <1>6, <1>7, <1>8, <1>9 DEF Next, MainStep

\* The inductive invariant of the loop holds throughout, given that of the queue.
LEMMA LoopIsRight == Spec => []LoopInv
BY LoopInvInit, LoopInvStep, QueueIsRight, PTL DEF Spec

\* The type invariant of main(), its tasks and clamd.
THEOREM LoopTypeCorrect == Spec => []TypeOK
<1>1. LoopInv /\ StartedRight => TypeOK
  BY DEF LoopInv, TasksInv, StartedRight, TypeOK
<1>2. QED
  BY <1>1, LoopIsRight, StartIsRight, PTL

\* asyncio.wait() always has a task to wait for, and at most max_scans scans.
THEOREM AlwaysSomethingToWaitFor == Spec => []WaitsForSomething
<1>1. LoopInv => WaitsForSomething
  BY DEF LoopInv, WorkInv, ScansInv, WaitsForSomething
<1>2. QED
  BY <1>1, LoopIsRight, PTL

\* main() does not sleep beside a queued path with a slot to spare, whatever the
\* order of put(), get_nowait() and file_ready_task.
THEOREM NoSlotStaysIdle == Spec => []NoIdleSlot
<1>1. LoopInv /\ QueueFacts => NoIdleSlot
  <2> SUFFICES ASSUME LoopInv, QueueFacts, pc = "wait", q # <<>>
               PROVE  \/ Cardinality(Scans) = max_scans
                      \/ Done # {}
                      \/ fileReady = "created"
                      \/ client["file_ready_task"] = "awake"
    BY DEF NoIdleSlot
  <2>1. CASE fileReady = "none"
    BY <2>1 DEF LoopInv, WorkInv, Finished
  <2>2. CASE fileReady = "done"
    BY <2>2 DEF Done
  <2>3. CASE fileReady = "waiting"
    BY <2>3 DEF LoopInv, ConsumersInv, QueueFacts
  <2>4. QED
    BY <2>1, <2>2, <2>3 DEF LoopInv, TasksInv
<1>2. QED
  BY <1>1, LoopIsRight, QueueIsRight, PTL

\* When main() returns, every path that was ever queued has been scanned and its
\* result logged.
THEOREM NothingIsLeftAtExit == Spec => []ExitMeansAllLogged
<1>1. LoopInv => ExitMeansAllLogged
  BY DEF LoopInv
<1>2. QED
  BY <1>1, LoopIsRight, PTL

=============================================================================
