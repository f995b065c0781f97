------------------------- MODULE DeferredScanProofs -------------------------
(***************************************************************************)
(* For any set of paths and any messages: a cancelled scan leaves nothing, *)
(* the reaper dies only by a message that asks for a scan and then removes *)
(* the file, and it soon sees every path that has been queued.             *)
(***************************************************************************)
EXTENDS DeferredScan, SequenceTheorems, TLAPS

\* A removed path has no task that may still queue it.
RemovedIsCancelled ==
    \A p \in Paths : last[p] = "remove" => scans[p] \notin {"new", "sleeping"}

\* A task that has not taken its first step belongs to the current message, or
\* to the last one if no other has been received since.
NewIsAsked == \A p \in Paths : scans[p] = "new" => p \in asked

\* A task cancelled from outside before its first step was created and
\* cancelled by one message.
CancelledIsMixed ==
    /\ \A p \in Paths : scans[p] \in {"newCancelled", "cancelled"} => mixed
    /\ reaper = "dead" => mixed

\* The reaper watches something, and only tasks that are still in scans.
SnapshotHeld ==
    /\ \A w \in snapshot : scans[w] # "none"
    /\ reaper = "waiting" => snapshot # {}

\* While a task it watches has not started, it watches all there are.
NewMeansCurrent ==
    reaper = "waiting" =>
        \A w \in snapshot : scans[w] \in {"new", "newCancelled"} =>
            Yielded /\ \A p \in Paths : scans[p] # "none" => p \in snapshot

\* The timers of the tasks it watches expire first.
WatchedExpireFirst ==
    reaper = "waiting" =>
        \A w \in snapshot, p \in Paths \ snapshot :
            scans[w] = "sleeping" /\ scans[p] = "sleeping" => w \in ahead[p]

-----------------------------------------------------------------------------
\* A message is a sequence of events.
LEMMA BatchIsSeq == ASSUME NEW m \in Batches PROVE m \in Seq(Event)
<1>1. PICK n \in 1..MaxBatch : m \in [1..n -> Event]
  BY DEF Batches
<1>2. n \in Nat
  BY <1>1, DeferredAssumption
<1>3. QED
  BY <1>1, <1>2, SeqDef

\* A timer that is gone leaves a well-formed order.
LEMMA TimerGoneType ==
    ASSUME Typed, NEW p \in Paths
    PROVE  TimerGone(p) \in [Paths -> SUBSET Paths]
BY DEF Typed, TimerGone

\* One event keeps the types.
LEMMA HandleEventType == Typed /\ HandleEvent => Typed'
<1> SUFFICES ASSUME Typed, HandleEvent PROVE Typed'
  OBVIOUS
<1>1. Head(msg) \in Event /\ msg' \in Seq(Event)
  BY HeadTailProperties DEF Typed, HandleEvent
<1>2. UNCHANGED <<watcher, received, reaper, snapshot, q, scanning>>
  BY DEF HandleEvent
<1>3. CASE \E p \in Paths : Schedule(p)
  <2>1. PICK p \in Paths : Schedule(p)
    BY <1>3
  <2>2. scans' \in [Paths -> TaskState]
    BY <2>1 DEF Schedule, Typed, TaskState
  <2>3. /\ last' \in [Paths -> {"nothing", "scan", "remove"}]
        /\ owed' \in SUBSET Paths /\ asked' \in SUBSET Paths
    BY <2>1 DEF Schedule, Typed
  <2>4. QED
    BY <1>1, <1>2, <2>1, <2>2, <2>3 DEF Schedule, Typed
<1>4. CASE \E p \in Paths : Remove(p)
  <2>1. PICK p \in Paths : Remove(p)
    BY <1>4
  <2>2. CASE p \in TmpPaths
    BY <1>1, <1>2, <2>1, <2>2 DEF Remove, tasks, history, Typed
  <2>3. CASE p \notin TmpPaths
    <3>1. scans' \in [Paths -> TaskState]
      BY <2>1, <2>3 DEF Remove, Typed, TaskState, CancelRequested
    <3>2. ahead' \in [Paths -> SUBSET Paths]
      BY <2>1, <2>3, TimerGoneType DEF Remove
    <3>3. /\ last' \in [Paths -> {"nothing", "scan", "remove"}]
          /\ owed' \in SUBSET Paths /\ overlap' \in SUBSET Paths /\ rows' \in SUBSET Paths
      BY <2>1, <2>3 DEF Remove, Typed
    <3>4. mixed' \in BOOLEAN /\ asked' = asked
      BY <2>1, <2>3 DEF Remove
    <3>5. QED
      BY <1>1, <1>2, <3>1, <3>2, <3>3, <3>4 DEF Typed
  <2>4. QED
    BY <2>2, <2>3
<1>5. CASE UNCHANGED <<tasks, rows, history>>
  BY <1>1, <1>2, <1>5 DEF tasks, history, Typed
<1>6. QED
  BY <1>1, <1>3, <1>4, <1>5 DEF HandleEvent, Event

\* The types of the variables.
LEMMA DeferredTyped == Spec => []Typed
<1>1. Init => Typed
  <2> SUFFICES ASSUME Init PROVE Typed
    OBVIOUS
  <2>1. msg \in Seq(Event) /\ q \in Seq(Paths)
    BY EmptySeq DEF Init
  <2>2. QED
    BY <2>1 DEF Init, Typed, TaskState
<1>2. Typed /\ [Next]_vars => Typed'
  <2> SUFFICES ASSUME Typed, [Next]_vars PROVE Typed'
    OBVIOUS
  <2>1. CASE Connect \/ PeerCloses \/ RecvRaises
    BY <2>1 DEF Connect, PeerCloses, RecvRaises, Typed, tasks, history
  <2>2. ASSUME NEW m \in Batches, ReadMessage(m) PROVE Typed'
    <3>1. m \in Seq(Event) /\ Len(m) \in Nat
      BY BatchIsSeq
    <3>2. QED
      BY <2>2, <3>1 DEF ReadMessage, Typed, tasks
  <2>3. CASE HandleEvent
    BY <2>3, HandleEventType
  <2>4. ASSUME NEW p \in Paths, TaskStart(p) PROVE Typed'
    <3>1. scans' \in [Paths -> TaskState]
      BY <2>4 DEF TaskStart, Typed, TaskState, Ended
    <3>2. ahead' \in [Paths -> SUBSET Paths]
      BY <2>4 DEF TaskStart, Typed, Sleeping
    <3>3. QED
      BY <2>4, <3>1, <3>2 DEF TaskStart, Typed, history
  <2>5. ASSUME NEW p \in Paths, TaskExpire(p) PROVE Typed'
    <3>1. ahead' \in [Paths -> SUBSET Paths]
      BY <2>5, TimerGoneType DEF TaskExpire
    <3>2. q' \in Seq(Paths)
      BY <2>5, AppendProperties DEF TaskExpire, Typed
    <3>3. QED
      BY <2>5, <3>1, <3>2 DEF TaskExpire, Typed, TaskState, Ended, history
  <2>6. ASSUME NEW p \in Paths, TaskDrop(p) PROVE Typed'
    BY <2>6 DEF TaskDrop, Typed, TaskState, Ended, history
  <2>7. ASSUME NEW p \in Paths, FinishScan(p) PROVE Typed'
    BY <2>7 DEF FinishScan, Typed, tasks, history
  <2>8. CASE ReaperStep
    <3>1. \A done : Reaped(done) \in [Paths -> TaskState]
      BY DEF Reaped, Typed, TaskState
    <3>2. CASE ReaperPoll
      BY <2>8, <3>2 DEF ReaperPoll, WaitAgain, Held, Typed, tasks, history
    <3>3. CASE ReaperWake
      BY <3>1, <3>3 DEF ReaperWake, WaitAgain, Held, Typed, history
    <3>4. CASE ReaperDies
      BY <3>1, <3>4 DEF ReaperDies, Typed, history
    <3>5. QED
      BY <2>8, <3>2, <3>3, <3>4 DEF ReaperStep
  <2>9. CASE StartScan
    <3>1. Head(q) \in Paths /\ q' \in Seq(Paths)
      BY <2>9, HeadTailProperties DEF StartScan, Typed
    <3>2. QED
      BY <2>9, <3>1 DEF StartScan, Typed, tasks
  <2>10. CASE UNCHANGED vars
    BY <2>10 DEF vars, tasks, history, Typed
  <2>11. QED
    BY <2>1, <2>2, <2>3, <2>4, <2>5, <2>6, <2>7, <2>8, <2>9, <2>10
       DEF Next, Environment, TaskStep
<1>3. QED
  BY <1>1, <1>2, PTL DEF Spec

-----------------------------------------------------------------------------
\* The type invariant: the types, and paths under /tmp are ignored (scan.py:188).
THEOREM DeferredTypeCorrect == Spec => []TypeOK
<1> DEFINE I == \A p \in TmpPaths : scans[p] = "none"
<1>1. Init => I
  BY DeferredAssumption DEF Init
<1>2. Typed /\ I /\ [Next]_vars => I'
  <2> SUFFICES ASSUME Typed, I, [Next]_vars, NEW t \in TmpPaths PROVE scans'[t] = "none"
    OBVIOUS
  <2> t \in Paths
    BY DeferredAssumption
  <2>1. CASE HandleEvent
    <3>1. PICK p \in Paths : Schedule(p) \/ Remove(p) \/ UNCHANGED scans
      <4>1. Head(msg) \in Event
        BY <2>1, HeadTailProperties DEF HandleEvent, Typed
      <4>2. Head(msg).path \in Paths
        BY <4>1 DEF Event
      <4>3. Schedule(Head(msg).path) \/ Remove(Head(msg).path) \/ UNCHANGED scans
        BY <2>1 DEF HandleEvent, tasks
      <4>4. QED
        BY <4>2, <4>3
    <3>2. CASE Schedule(p)
      BY <3>2 DEF Schedule, Typed
    <3>3. CASE Remove(p)
      BY <3>3 DEF Remove, Typed, tasks
    <3>4. QED
      BY <3>1, <3>2, <3>3
  <2>2. ASSUME NEW p \in Paths, TaskStep(p) PROVE scans'[t] = "none"
    BY <2>2 DEF TaskStep, TaskStart, TaskExpire, TaskDrop, Typed
  <2>3. CASE ReaperStep
    BY <2>3 DEF ReaperStep, ReaperPoll, ReaperWake, ReaperDies, Reaped, tasks
  <2>4. CASE Environment \/ StartScan \/ UNCHANGED vars \/ \E p \in Paths : FinishScan(p)
    BY <2>4 DEF Environment, Connect, PeerCloses, RecvRaises, ReadMessage, StartScan,
                FinishScan, vars, tasks
  <2>5. QED
    BY <2>1, <2>2, <2>3, <2>4 DEF Next
<1>3. QED
  BY <1>1, <1>2, DeferredTyped, PTL DEF Spec, TypeOK

\* What the operations on the queue do to the paths in it.
LEMMA AppendQueues ==
    ASSUME Typed, NEW p \in Paths, q' = Append(q, p), NEW r \in Paths, r # p
    PROVE  Queued(r)' => Queued(r)
<1>1. /\ DOMAIN q = 1..Len(q) /\ DOMAIN q' = 1..Len(q) + 1
      /\ \A i \in 1..Len(q) : q'[i] = q[i]
      /\ q'[Len(q) + 1] = p
      /\ Len(q) \in Nat
  BY AppendProperties DEF Typed
<1>2. QED
  BY <1>1 DEF Queued

LEMMA TailQueues ==
    ASSUME Typed, q # <<>>, q' = Tail(q)
    PROVE  /\ Head(q) \in Paths /\ Queued(Head(q))
           /\ \A r \in Paths : Queued(r)' => Queued(r)
<1>1. /\ DOMAIN q = 1..Len(q) /\ DOMAIN q' = 1..(Len(q) - 1)
      /\ \A i \in 1..(Len(q) - 1) : q'[i] = q[i + 1]
      /\ Len(q) \in Nat \ {0} /\ Head(q) = q[1] /\ Head(q) \in Paths
  BY HeadTailProperties DEF Typed
<1>2. Queued(Head(q))
  BY <1>1 DEF Queued
<1>3. ASSUME NEW r \in Paths, Queued(r)' PROVE Queued(r)
  <2>1. PICK i \in 1..(Len(q) - 1) : q'[i] = r
    BY <1>1, <1>3 DEF Queued
  <2>2. i + 1 \in DOMAIN q /\ q[i + 1] = r
    BY <1>1, <2>1
  <2>3. QED
    BY <2>2 DEF Queued
<1>4. QED
  BY <1>1, <1>2, <1>3

\* A removed path has no scan ahead of it, and none it does not overlap with.
RemovalInv == RemovedIsCancelled /\ CancelledScanLeavesNothing

LEMMA RemovalStep ==
    ASSUME Typed, RemovalInv, [Next]_vars
    PROVE  RemovalInv'
<1> USE DEF RemovalInv
<1>1. ASSUME NEW p \in Paths, HandleEvent, Schedule(p) PROVE RemovalInv'
  <2>1. CASE p \in TmpPaths
    BY <1>1, <2>1 DEF HandleEvent, Schedule, Typed, RemovedIsCancelled,
                      CancelledScanLeavesNothing, Queued
  <2>2. CASE p \notin TmpPaths
    <3>1. /\ last'[p] = "scan"
          /\ \A r \in Paths \ {p} : last'[r] = last[r] /\ scans'[r] = scans[r]
          /\ UNCHANGED <<rows, overlap, q, scanning>>
      BY <1>1, <2>2 DEF HandleEvent, Schedule, Typed
    <3>2. QED
      BY <3>1 DEF RemovedIsCancelled, CancelledScanLeavesNothing, Queued
  <2>3. QED
    BY <2>1, <2>2
<1>2. ASSUME NEW p \in Paths, HandleEvent, Remove(p) PROVE RemovalInv'
  <2>1. CASE p \in TmpPaths
    BY <1>2, <2>1 DEF HandleEvent, Remove, tasks, history, RemovedIsCancelled,
                      CancelledScanLeavesNothing, Queued
  <2>2. CASE p \notin TmpPaths
    <3>1. /\ scans'[p] \notin {"new", "sleeping"}
          /\ \A r \in Paths \ {p} :
                /\ last'[r] = last[r] /\ scans'[r] = scans[r]
                /\ r \in overlap' <=> r \in overlap
                /\ r \in rows' => r \in rows
          /\ p \notin rows'
          /\ p \notin overlap' => ~Queued(p) /\ ~(scanning[p] > 0)
          /\ UNCHANGED <<q, scanning>>
      BY <1>2, <2>2 DEF HandleEvent, Remove, CancelRequested, Typed
    <3>2. scanning[p] \in Nat
      BY DEF Typed
    <3>3. QED
      BY <3>1, <3>2 DEF RemovedIsCancelled, CancelledScanLeavesNothing, Queued
  <2>3. QED
    BY <2>1, <2>2
<1>3. CASE HandleEvent /\ UNCHANGED <<tasks, rows, history>>
  BY <1>3 DEF HandleEvent, tasks, history, RemovedIsCancelled,
              CancelledScanLeavesNothing, Queued
<1>4. CASE HandleEvent
  <2>1. Head(msg) \in Event
    BY <1>4, HeadTailProperties DEF HandleEvent, Typed
  <2>2. QED
    BY <1>1, <1>2, <1>3, <1>4, <2>1 DEF HandleEvent, Event
<1>5. ASSUME NEW p \in Paths, TaskStart(p) \/ TaskDrop(p) PROVE RemovalInv'
  <2>1. /\ UNCHANGED <<rows, overlap, q, scanning, last>>
        /\ \A r \in Paths : scans'[r] \in {"new", "sleeping"} => scans[r] \in {"new", "sleeping"}
    BY <1>5 DEF TaskStart, TaskDrop, Typed, history
  <2>2. QED
    BY <2>1 DEF RemovedIsCancelled, CancelledScanLeavesNothing, Queued
<1>6. ASSUME NEW p \in Paths, TaskExpire(p) PROVE RemovalInv'
  <2>1. /\ last[p] # "remove"
        /\ UNCHANGED <<rows, overlap, scanning, last>>
        /\ \A r \in Paths : scans'[r] \in {"new", "sleeping"} => scans[r] = scans'[r]
    BY <1>6 DEF TaskExpire, Typed, RemovedIsCancelled, history
  <2>2. \A r \in Paths \ {p} : Queued(r)' => Queued(r)
    BY <1>6, AppendQueues DEF TaskExpire
  <2>3. QED
    BY <2>1, <2>2 DEF RemovedIsCancelled, CancelledScanLeavesNothing
<1>7. CASE ReaperStep
  <2>1. /\ UNCHANGED <<rows, overlap, q, scanning, last>>
        /\ \A r \in Paths : scans'[r] = scans[r] \/ scans'[r] = "none"
    BY <1>7 DEF ReaperStep, ReaperPoll, ReaperWake, ReaperDies, Reaped, tasks, history, Typed
  <2>2. QED
    BY <2>1 DEF RemovedIsCancelled, CancelledScanLeavesNothing, Queued
<1>8. CASE StartScan
  <2>1. /\ UNCHANGED <<rows, overlap, last, scans>>
        /\ Queued(Head(q)) /\ \A r \in Paths : Queued(r)' => Queued(r)
        /\ \A r \in Paths : r # Head(q) => scanning'[r] = scanning[r]
    BY <1>8, TailQueues DEF StartScan, tasks, Typed
  <2>2. QED
    BY <2>1 DEF RemovedIsCancelled, CancelledScanLeavesNothing
<1>9. ASSUME NEW p \in Paths, FinishScan(p) PROVE RemovalInv'
  <2>1. /\ scanning[p] # 0
        /\ UNCHANGED <<overlap, last, scans, q>>
        /\ \A r \in Paths : r # p => scanning'[r] = scanning[r] /\ (r \in rows' => r \in rows)
    BY <1>9 DEF FinishScan, tasks, history, Typed
  <2>2. QED
    BY <2>1 DEF RemovedIsCancelled, CancelledScanLeavesNothing, Queued
<1>10. CASE Environment \/ UNCHANGED vars
  <2>1. UNCHANGED <<rows, overlap, last, scans, q, scanning>>
    BY <1>10 DEF Environment, Connect, PeerCloses, RecvRaises, ReadMessage, vars, tasks, history
  <2>2. QED
    BY <2>1 DEF RemovedIsCancelled, CancelledScanLeavesNothing, Queued
<1>11. QED
  BY <1>4, <1>5, <1>6, <1>7, <1>8, <1>9, <1>10 DEF Next, TaskStep

\* After the removal of a file has been handled no scan of it is queued or run and
\* no row of it comes back, unless the scan loop already had it (scan.py:196-243).
THEOREM CancellingIsFinal == Spec => []CancelledScanLeavesNothing
<1>1. Init => RemovalInv
  BY DEF Init, RemovalInv, RemovedIsCancelled, CancelledScanLeavesNothing
<1>2. Typed /\ RemovalInv /\ [Next]_vars => RemovalInv'
  BY RemovalStep
<1>3. RemovalInv => CancelledScanLeavesNothing
  BY DEF RemovalInv
<1>4. QED
  BY <1>1, <1>2, <1>3, DeferredTyped, PTL DEF Spec

-----------------------------------------------------------------------------
MixedInv == NewIsAsked /\ CancelledIsMixed

LEMMA MixedStep ==
    ASSUME Typed, MixedInv, [Next]_vars
    PROVE  MixedInv'
<1> USE DEF MixedInv
<1>1. ASSUME NEW p \in Paths, HandleEvent, Schedule(p) PROVE MixedInv'
  <2>1. /\ UNCHANGED <<mixed, reaper>> /\ asked \subseteq asked'
        /\ \A r \in Paths : scans'[r] = scans[r] \/ (scans'[r] = "new" /\ r \in asked')
    BY <1>1 DEF HandleEvent, Schedule, Typed
  <2>2. QED
    BY <2>1 DEF NewIsAsked, CancelledIsMixed
<1>2. ASSUME NEW p \in Paths, HandleEvent, Remove(p) PROVE MixedInv'
  <2>1. CASE p \in TmpPaths
    BY <1>2, <2>1 DEF HandleEvent, Remove, tasks, history, NewIsAsked, CancelledIsMixed
  <2>2. CASE p \notin TmpPaths
    <3>1. /\ UNCHANGED <<asked, reaper>> /\ mixed' = (mixed \/ p \in asked)
          /\ scans' = [scans EXCEPT ![p] = CancelRequested(@)]
      BY <1>2, <2>2 DEF HandleEvent, Remove
    <3>2. /\ \A r \in Paths \ {p} : scans'[r] = scans[r]
          /\ scans'[p] = CancelRequested(scans[p])
      BY <3>1 DEF Typed
    <3>3. \/ scans'[p] = scans[p]
          \/ scans[p] = "new" /\ scans'[p] = "newCancelled"
          \/ scans'[p] = "sleepCancelled"
      BY <3>2 DEF CancelRequested
    <3>4. QED
      BY <3>1, <3>2, <3>3 DEF NewIsAsked, CancelledIsMixed
  <2>3. QED
    BY <2>1, <2>2
<1>3. CASE HandleEvent /\ UNCHANGED <<tasks, rows, history>>
  BY <1>3 DEF HandleEvent, tasks, history, NewIsAsked, CancelledIsMixed
<1>4. CASE HandleEvent
  <2>1. Head(msg) \in Event
    BY <1>4, HeadTailProperties DEF HandleEvent, Typed
  <2>2. QED
    BY <1>1, <1>2, <1>3, <1>4, <2>1 DEF HandleEvent, Event
<1>5. ASSUME NEW m \in Batches, ReadMessage(m) PROVE MixedInv'
  BY <1>5 DEF ReadMessage, tasks, NewIsAsked, CancelledIsMixed
<1>6. ASSUME NEW p \in Paths, TaskStep(p) PROVE MixedInv'
  <2>1. /\ UNCHANGED <<asked, mixed, reaper>>
        /\ \A r \in Paths : \/ scans'[r] = scans[r]
                            \/ scans[r] = "newCancelled" /\ scans'[r] = "cancelled"
                            \/ scans'[r] \in {"sleeping", "queued", "dropped"}
    BY <1>6 DEF TaskStep, TaskStart, TaskExpire, TaskDrop, history, Typed
  <2>2. QED
    BY <2>1 DEF NewIsAsked, CancelledIsMixed
<1>7. CASE ReaperStep
  <2>1. /\ UNCHANGED <<asked, mixed>>
        /\ \A r \in Paths : scans'[r] = scans[r] \/ scans'[r] = "none"
    BY <1>7 DEF ReaperStep, ReaperPoll, ReaperWake, ReaperDies, Reaped, tasks, history, Typed
  <2>2. reaper' = "dead" => mixed
    <3>1. CASE ReaperDies
      <4>1. PICK r \in Completed : scans[r] = "cancelled"
        BY <3>1 DEF ReaperDies
      <4>2. r \in Paths
        BY <4>1 DEF Completed, Typed
      <4>3. QED
        BY <4>1, <4>2 DEF CancelledIsMixed
    <3>2. CASE ReaperPoll \/ ReaperWake
      BY <3>2 DEF ReaperPoll, ReaperWake, WaitAgain
    <3>3. QED
      BY <1>7, <3>1, <3>2 DEF ReaperStep
  <2>3. QED
    BY <2>1, <2>2 DEF NewIsAsked, CancelledIsMixed
<1>8. CASE Connect \/ PeerCloses \/ RecvRaises \/ StartScan \/ UNCHANGED vars
           \/ \E p \in Paths : FinishScan(p)
  <2>1. UNCHANGED <<asked, mixed, reaper, scans>>
    BY <1>8 DEF Connect, PeerCloses, RecvRaises, StartScan, FinishScan, vars, tasks, history
  <2>2. QED
    BY <2>1 DEF NewIsAsked, CancelledIsMixed
<1>9. QED
  BY <1>4, <1>5, <1>6, <1>7, <1>8 DEF Next, Environment

\* The reaper ends only if one message asked to scan a path and then removed it:
\* deferred_scan_file() catches every other cancellation (scan.py:176-183, 209).
THEOREM OnlyMixedMessagesKillTheReaper == Spec => []ReaperDiesOnlyByMixedMessage
<1>1. Init => MixedInv
  BY DEF Init, MixedInv, NewIsAsked, CancelledIsMixed
<1>2. Typed /\ MixedInv /\ [Next]_vars => MixedInv'
  BY MixedStep
<1>3. MixedInv => ReaperDiesOnlyByMixedMessage
  BY DEF MixedInv, CancelledIsMixed, ReaperDiesOnlyByMixedMessage
<1>4. QED
  BY <1>1, <1>2, <1>3, DeferredTyped, PTL DEF Spec

-----------------------------------------------------------------------------
WatchInv == SnapshotHeld /\ NewMeansCurrent /\ WatchedExpireFirst /\ ReaperSeesQueued

\* A fresh list of everything in scans is a sound one to watch.
LEMMA FreshSnapshot ==
    ASSUME Typed', Yielded', snapshot' = {p \in Paths : scans'[p] # "none"},
           reaper' = IF snapshot' = {} THEN "polling" ELSE "waiting"
    PROVE  WatchInv'
BY DEF WatchInv, SnapshotHeld, NewMeansCurrent, WatchedExpireFirst, ReaperSeesQueued, Ended, Yielded

LEMMA WatchStep ==
    ASSUME Typed, Typed', WatchInv, [Next]_vars
    PROVE  WatchInv'
<1> USE DEF WatchInv
<1>1. ASSUME NEW p \in Paths, HandleEvent, Schedule(p) PROVE WatchInv'
  <2>1. /\ msg # <<>> /\ UNCHANGED <<snapshot, reaper, ahead>>
        /\ scans' = [scans EXCEPT ![p] = IF p \notin TmpPaths /\ @ = "none" THEN "new" ELSE @]
    BY <1>1 DEF HandleEvent, Schedule
  <2>2. \A r \in Paths : scans'[r] = scans[r] \/ (scans[r] = "none" /\ scans'[r] = "new")
    BY <2>1 DEF Typed
  <2>3. SnapshotHeld'
    BY <2>1, <2>2 DEF SnapshotHeld, Typed
  <2>4. NewMeansCurrent'
    BY <2>1, <2>2 DEF SnapshotHeld, NewMeansCurrent, Typed, Yielded
  <2>5. WatchedExpireFirst'
    BY <2>1, <2>2 DEF WatchedExpireFirst, Typed
  <2>6. ReaperSeesQueued'
    <3> SUFFICES ASSUME reaper = "waiting", NEW r \in Paths, scans'[r] = "queued"
                 PROVE  \E w \in snapshot : scans'[w] \in Ended \cup {"sleepCancelled"}
      BY <2>1 DEF ReaperSeesQueued
    <3>1. PICK w \in snapshot : scans[w] \in Ended \cup {"sleepCancelled"}
      BY <2>2 DEF ReaperSeesQueued
    <3>2. w \in Paths /\ scans[w] # "none"
      BY <3>1 DEF Typed, Ended
    <3>3. QED
      BY <2>2, <3>1, <3>2
  <2>7. QED
    BY <2>3, <2>4, <2>5, <2>6
<1>2. ASSUME NEW p \in Paths, HandleEvent, Remove(p) PROVE WatchInv'
  <2>1. /\ msg # <<>> /\ UNCHANGED <<snapshot, reaper>>
        /\ \A r \in Paths : \/ scans'[r] = scans[r]
                            \/ scans[r] = "new" /\ scans'[r] = "newCancelled"
                            \/ scans[r] = "sleeping" /\ scans'[r] = "sleepCancelled"
        /\ \A r \in Paths : scans'[r] = "sleeping" => scans[r] = "sleeping"
    BY <1>2 DEF HandleEvent, Remove, tasks, CancelRequested, Typed
  <2>2. SnapshotHeld'
    BY <2>1 DEF SnapshotHeld, Typed
  <2>3. NewMeansCurrent'
    BY <2>1 DEF NewMeansCurrent, Typed, Yielded
  <2>4. WatchedExpireFirst'
    <3>1. CASE p \in TmpPaths
      BY <1>2, <2>1, <3>1 DEF Remove, tasks, WatchedExpireFirst
    <3>2. CASE p \notin TmpPaths
      <4>1. scans'[p] # "sleeping" /\ ahead' = TimerGone(p)
        BY <1>2, <3>2 DEF Remove, CancelRequested, Typed
      <4>2. QED
        BY <2>1, <4>1 DEF WatchedExpireFirst, TimerGone, Typed
    <3>3. QED
      BY <3>1, <3>2
  <2>5. ReaperSeesQueued'
    BY <2>1 DEF ReaperSeesQueued, Typed, Ended
  <2>6. QED
    BY <2>2, <2>3, <2>4, <2>5
<1>3. CASE HandleEvent /\ UNCHANGED <<tasks, rows, history>>
  BY <1>3 DEF HandleEvent, tasks, SnapshotHeld, NewMeansCurrent, WatchedExpireFirst,
              ReaperSeesQueued, Yielded
<1>4. CASE HandleEvent
  <2>1. Head(msg) \in Event
    BY <1>4, HeadTailProperties DEF HandleEvent, Typed
  <2>2. QED
    BY <1>1, <1>2, <1>3, <1>4, <2>1 DEF HandleEvent, Event
<1>5. ASSUME NEW m \in Batches, ReadMessage(m) PROVE WatchInv'
  <2>1. UNCHANGED <<snapshot, reaper, scans, ahead>>
        /\ \A r \in Paths : scans[r] \notin {"new", "newCancelled"}
    BY <1>5 DEF ReadMessage, tasks
  <2>2. QED
    BY <2>1 DEF SnapshotHeld, NewMeansCurrent, WatchedExpireFirst, ReaperSeesQueued, Typed
<1>6. ASSUME NEW p \in Paths, TaskStart(p) PROVE WatchInv'
  <2>1. /\ UNCHANGED <<snapshot, reaper, msg>> /\ Yielded
        /\ scans[p] \in {"new", "newCancelled"} /\ scans'[p] \in {"sleeping", "cancelled"}
        /\ \A r \in Paths \ {p} : scans'[r] = scans[r] /\ ahead'[r] = ahead[r]
        /\ scans'[p] = "sleeping" => ahead'[p] = Sleeping
    BY <1>6 DEF TaskStart, Typed
  <2>2. SnapshotHeld' /\ NewMeansCurrent'
    BY <2>1 DEF SnapshotHeld, NewMeansCurrent, Typed, Yielded
  <2>3. WatchedExpireFirst'
    BY <2>1 DEF NewMeansCurrent, WatchedExpireFirst, Sleeping, Typed
  <2>4. ReaperSeesQueued'
    BY <2>1 DEF ReaperSeesQueued, Typed, Ended
  <2>5. QED
    BY <2>2, <2>3, <2>4
<1>7. ASSUME NEW p \in Paths, TaskExpire(p) PROVE WatchInv'
  <2>1. /\ UNCHANGED <<snapshot, reaper, msg>> /\ ahead' = TimerGone(p)
        /\ scans[p] = "sleeping" /\ ahead[p] = {} /\ scans'[p] = "queued"
        /\ \A r \in Paths \ {p} : scans'[r] = scans[r]
    BY <1>7 DEF TaskExpire, Typed
  <2>2. SnapshotHeld' /\ NewMeansCurrent'
    BY <2>1 DEF SnapshotHeld, NewMeansCurrent, Typed, Yielded
  <2>3. WatchedExpireFirst'
    BY <2>1 DEF WatchedExpireFirst, TimerGone, Typed
  <2>4. ReaperSeesQueued'
    <3> SUFFICES ASSUME reaper = "waiting"
                 PROVE  \E w \in snapshot : scans'[w] \in Ended \cup {"sleepCancelled"}
      BY <2>1 DEF ReaperSeesQueued
    <3>1. CASE p \in snapshot
      BY <2>1, <3>1 DEF Ended
    <3>2. CASE p \notin snapshot
      <4>1. PICK w \in snapshot : TRUE
        BY DEF SnapshotHeld
      <4>2. scans[w] # "none" /\ scans[w] \notin {"new", "newCancelled"}
        BY <2>1, <3>2, <4>1 DEF SnapshotHeld, NewMeansCurrent
      <4>3. scans[w] # "sleeping"
        BY <2>1, <3>2, <4>1 DEF WatchedExpireFirst
      <4>4. w \in Paths /\ scans'[w] = scans[w]
        BY <2>1, <3>2, <4>1 DEF Typed
      <4>5. QED
        BY <4>1, <4>2, <4>3, <4>4 DEF Typed, TaskState
    <3>3. QED
      BY <3>1, <3>2
  <2>5. QED
    BY <2>2, <2>3, <2>4
<1>8. ASSUME NEW p \in Paths, TaskDrop(p) PROVE WatchInv'
  <2>1. /\ UNCHANGED <<snapshot, reaper, msg, ahead>>
        /\ scans[p] = "sleepCancelled" /\ scans'[p] = "dropped"
        /\ \A r \in Paths \ {p} : scans'[r] = scans[r]
    BY <1>8 DEF TaskDrop, Typed
  <2>2. SnapshotHeld' /\ NewMeansCurrent' /\ WatchedExpireFirst'
    BY <2>1 DEF SnapshotHeld, NewMeansCurrent, WatchedExpireFirst, Typed, Yielded
  <2>3. ReaperSeesQueued'
    BY <2>1 DEF ReaperSeesQueued, Typed, Ended
  <2>4. QED
    BY <2>2, <2>3
<1>9. CASE ReaperPoll
  <2>1. Yielded' /\ snapshot' = {p \in Paths : scans'[p] # "none"}
        /\ reaper' = IF snapshot' = {} THEN "polling" ELSE "waiting"
    BY <1>9 DEF ReaperPoll, WaitAgain, Held, tasks, Yielded
  <2>2. QED
    BY <2>1, FreshSnapshot
<1>10. CASE ReaperWake
  <2>1. Yielded' /\ snapshot' = Held \ Completed
        /\ reaper' = IF snapshot' = {} THEN "polling" ELSE "waiting"
    BY <1>10 DEF ReaperWake, WaitAgain, Yielded
  <2>2. Held \ Completed = {p \in Paths : scans'[p] # "none"}
    BY <1>10 DEF ReaperWake, Reaped, Held, Typed
  <2>3. QED
    BY <2>1, <2>2, FreshSnapshot
<1>11. CASE ReaperDies
  BY <1>11 DEF ReaperDies, SnapshotHeld, NewMeansCurrent, WatchedExpireFirst, ReaperSeesQueued
<1>12. CASE Connect \/ PeerCloses \/ RecvRaises \/ StartScan \/ UNCHANGED vars
            \/ \E p \in Paths : FinishScan(p)
  <2>1. UNCHANGED <<snapshot, reaper, scans, ahead, msg>>
    BY <1>12 DEF Connect, PeerCloses, RecvRaises, StartScan, FinishScan, vars, tasks, history
  <2>2. QED
    BY <2>1 DEF SnapshotHeld, NewMeansCurrent, WatchedExpireFirst, ReaperSeesQueued, Yielded
<1>13. QED
  BY <1>4, <1>5, <1>6, <1>7, <1>8, <1>9, <1>10, <1>11, <1>12
     DEF Next, Environment, TaskStep, ReaperStep

\* Although asyncio.wait() watches the tasks of one moment, a path whose scan has
\* been queued is never left to a reaper that waits for later timers
\* (scan.py:170-174).
THEOREM QueuedPathsAreSeen == Spec => []ReaperSeesQueued
<1>1. Init => WatchInv
  BY DEF Init, WatchInv, SnapshotHeld, NewMeansCurrent, WatchedExpireFirst, ReaperSeesQueued
<1>2. Typed /\ Typed' /\ WatchInv /\ [Next]_vars => WatchInv'
  BY WatchStep
<1>3. WatchInv => ReaperSeesQueued
  BY DEF WatchInv
<1>4. QED
  BY <1>1, <1>2, <1>3, DeferredTyped, PTL DEF Spec

=============================================================================
