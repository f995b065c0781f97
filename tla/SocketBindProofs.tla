--------------------------- MODULE SocketBindProofs ---------------------------
(***************************************************************************)
(* Proofs about SocketBind, for any number of C and Go watchers.           *)
(***************************************************************************)
EXTENDS SocketBind, TLAPS

Unsettled == Starting \cup Ending

\* As long as no two starts have overlapped: there is one start at most, and no
\* file but its own stands in its way; and whoever has bound is at the path.
OneStart ==
    ~raced => \A w \in Watchers :
        /\ at[w] \in Starting => \A v \in Watchers \ {w} : at[v] \notin Starting
        /\ at[w] \in {"listen", "chmod", "run", "leave"} => path = w
        /\ at[w] \in {"run", "leave"} => mode
        /\ at[w] = "unlink" => path \notin Watchers
        /\ at[w] \in {"stat", "rebind"} => path = "nothing"
        /\ at[w] # "abort"

\* A start without overlap is alone, and finds what its last call left.
AloneStart ==
    \A w \in Watchers \ overlapped :
        /\ w \notin failed
        /\ at[w] \in Starting => \A v \in Watchers \ {w} : at[v] \notin Unsettled
        /\ at[w] \in {"connect", "unlink"} => path # "nothing"
        /\ at[w] \in {"stat", "rebind"} => path = "nothing"
        /\ at[w] \in {"listen", "chmod"} => path = w
        /\ at[w] # "abort"

\* Locations, written out.
Locs == {"off", "bind", "connect", "unlink", "stat", "rebind", "listen", "chmod", "run", "leave", "abort"}

\* The step of one watcher.
WatcherStep(w) ==
    \/ Start(w) \/ Bind(w) \/ Connect(w) \/ Unlink(w) \/ Stat(w) \/ Rebind(w)
    \/ Listen(w) \/ Chmod(w) \/ Abort(w)
    \/ LoopEnds(w) \/ Leave(w) \/ Killed(w)

\* What going to the next call does to the other watchers and the histories.
LEMMA Going ==
    ASSUME NEW w \in Watchers, NEW l \in Locs, at \in [Watchers -> Locs],
           raced \in BOOLEAN, overlapped \subseteq Watchers, GoesTo(w, l)
    PROVE  /\ at' \in [Watchers -> Locs]
           /\ at'[w] = l
           /\ \A v \in Watchers \ {w} : at'[v] = at[v]
           /\ raced' \in BOOLEAN
           /\ ~raced' => \/ \A v \in Watchers : at'[v] = "off"
                         \/ /\ ~raced
                            /\ l \in Starting => \A v \in Watchers \ {w} : at[v] \notin Starting
           /\ overlapped' \subseteq Watchers
           /\ \A v \in Watchers \ {w} : v \notin overlapped' =>
                 /\ v \notin overlapped
                 /\ ~(at[v] \in Unsettled /\ l \in Unsettled)
           /\ w \notin overlapped' =>
                 /\ at[w] = "off" \/ w \notin overlapped
                 /\ l \in Unsettled => \A v \in Watchers \ {w} : at[v] \notin Unsettled
<1> DEFINE others == {v \in Watchers \ {w} : at[v] \in Starting \cup Ending}
<1>1. at' = [at EXCEPT ![w] = l]
  BY DEF GoesTo
<1>2. /\ at' \in [Watchers -> Locs]
      /\ at'[w] = l
      /\ \A v \in Watchers \ {w} : at'[v] = at[v]
  BY <1>1
<1>3. raced' = (/\ \E v \in Watchers : at'[v] # "off"
                /\ raced \/ \E v \in Watchers \ {w} : {at[v], l} \subseteq Starting)
  BY Zenon DEF GoesTo
<1>4. overlapped' = IF l \in Starting \cup Ending /\ others # {}
                    THEN overlapped \cup others \cup {w}
                    ELSE IF at[w] = "off" THEN overlapped \ {w} ELSE overlapped
  BY Zenon DEF GoesTo
<1>5. /\ raced' \in BOOLEAN
      /\ ~raced' => \/ \A v \in Watchers : at'[v] = "off"
                    \/ /\ ~raced
                       /\ l \in Starting => \A v \in Watchers \ {w} : at[v] \notin Starting
  BY <1>3, Zenon
<1>6. overlapped' \subseteq Watchers
  BY <1>4
<1>7. \A v \in Watchers \ {w} : v \notin overlapped' =>
         v \notin overlapped /\ ~(at[v] \in Unsettled /\ l \in Unsettled)
  BY <1>4 DEF Unsettled
<1>8. w \notin overlapped' =>
         /\ at[w] = "off" \/ w \notin overlapped
         /\ l \in Unsettled => \A v \in Watchers \ {w} : at[v] \notin Unsettled
  BY <1>4 DEF Unsettled
<1>9. QED
  BY <1>2, <1>5, <1>6, <1>7, <1>8

\* A step goes to some location, whatever else it does.
LEMMA StepGoes ==
    ASSUME NEW w \in Watchers, WatcherStep(w)
    PROVE  \E l \in Locs : GoesTo(w, l)
  BY DEF WatcherStep, Start, Bind, Binds, Connect, Unlink, Stat, Rebind, Listen, Chmod, Abort,
         LoopEnds, Leave, Killed, Fails, Locs

LEMMA LocsAre == Locations = Locs
  BY DEF Locations, Locs, Starting, Ending

LEMMA TypeInit == Init => TypeOK
  BY SocketAssumption DEF Init, TypeOK, Locations, Watchers

LEMMA TypeStep == TypeOK /\ [Next]_vars => TypeOK'
<1> SUFFICES ASSUME TypeOK, [Next]_vars PROVE TypeOK'
  OBVIOUS
<1>1. CASE UNCHANGED vars
  BY <1>1 DEF TypeOK, vars
<1>2. CASE Next
  <2>1. PICK w \in Watchers : WatcherStep(w)
    BY <1>2 DEF Next, WatcherStep
  <2>2. PICK l \in Locs : GoesTo(w, l)
    BY <2>1, StepGoes
  <2>3. /\ at' \in [Watchers -> Locs]
        /\ at'[w] = l
        /\ \A v \in Watchers \ {w} : at'[v] = at[v]
        /\ raced' \in BOOLEAN
        /\ overlapped' \subseteq Watchers
    BY <2>2, Going, LocsAre DEF TypeOK
  <2>4. /\ path' \in Watchers \cup {"nothing", "stale"}
        /\ mode' \in BOOLEAN
        /\ failed' \subseteq Watchers
    BY <2>1 DEF WatcherStep, Start, Bind, Binds, Connect, Unlink, Stat, Rebind, Listen, Chmod, Abort,
         LoopEnds, Leave, Killed, Fails, Removed, TypeOK
  <2>5. path' \in Watchers => at'[path'] \in Listening \cup {"listen"}
    BY <2>1, <2>3, SocketAssumption
    DEF WatcherStep, Start, Bind, Binds, Connect, Unlink, Stat, Rebind, Listen, Chmod, Abort,
        LoopEnds, Leave, Killed, Fails, Removed, TypeOK, GoesTo, Listening, Ending, Watchers
  <2>6. QED
    BY <2>3, <2>4, <2>5, LocsAre DEF TypeOK
<1>3. QED
  BY <1>1, <1>2

\* Types and owners (SocketBind.TypeOK).
THEOREM SocketTypeCorrect == Spec => []TypeOK
<1>1. QED
  BY TypeInit, TypeStep, PTL DEF Spec

-----------------------------------------------------------------------------
LEMMA OneStartStep == TypeOK /\ OneStart /\ [Next]_vars => OneStart'
<1> SUFFICES ASSUME TypeOK, OneStart, [Next]_vars PROVE OneStart'
  OBVIOUS
<1>1. CASE UNCHANGED vars
  BY <1>1 DEF OneStart, vars
<1>2. CASE Next
  <2>1. PICK w \in Watchers : WatcherStep(w)
    BY <1>2 DEF Next, WatcherStep
  <2>2. PICK l \in Locs : GoesTo(w, l)
    BY <2>1, StepGoes
  <2> SUFFICES ASSUME ~raced', NEW u \in Watchers
               PROVE  /\ at'[u] \in Starting => \A v \in Watchers \ {u} : at'[v] \notin Starting
                      /\ at'[u] \in {"listen", "chmod", "run", "leave"} => path' = u
                      /\ at'[u] \in {"run", "leave"} => mode'
                      /\ at'[u] = "unlink" => path' \notin Watchers
                      /\ at'[u] \in {"stat", "rebind"} => path' = "nothing"
                      /\ at'[u] # "abort"
    BY DEF OneStart
  <2>3. /\ at' \in [Watchers -> Locs]
        /\ at'[w] = l
        /\ \A v \in Watchers \ {w} : at'[v] = at[v]
        /\ \/ \A v \in Watchers : at'[v] = "off"
           \/ /\ ~raced
              /\ l \in Starting => \A v \in Watchers \ {w} : at[v] \notin Starting
    BY <2>2, Going, LocsAre DEF TypeOK
  <2>4. CASE \A v \in Watchers : at'[v] = "off"
    BY <2>4 DEF Starting
  <2>5. CASE ~raced /\ (l \in Starting => \A v \in Watchers \ {w} : at[v] \notin Starting)
    <3>1. \A x \in Watchers :
             /\ at[x] \in Starting => \A v \in Watchers \ {x} : at[v] \notin Starting
             /\ at[x] \in {"listen", "chmod", "run", "leave"} => path = x
             /\ at[x] \in {"run", "leave"} => mode
             /\ at[x] = "unlink" => path \notin Watchers
             /\ at[x] \in {"stat", "rebind"} => path = "nothing"
             /\ at[x] # "abort"
      BY <2>5 DEF OneStart
    <3>2. at'[u] \in Starting => \A v \in Watchers \ {u} : at'[v] \notin Starting
      BY <2>3, <2>5, <3>1
    <3>3. CASE u = w
      <4> USE <2>3, <3>1, <3>3, SocketAssumption DEF TypeOK, GoesTo, Starting, Listening, Ending, Watchers
      <4>1. CASE Start(w)
        BY <4>1 DEF Start
      <4>2. CASE Bind(w)
        BY <4>2 DEF Bind, Binds
      <4>3. CASE Connect(w)
        BY <4>3 DEF Connect
      <4>4. CASE Unlink(w)
        BY <4>4 DEF Unlink, Fails, Removed
      <4>5. CASE Stat(w)
        BY <4>5 DEF Stat, Fails
      <4>6. CASE Rebind(w)
        BY <4>6 DEF Rebind, Binds, Fails
      <4>7. CASE Listen(w)
        BY <4>7 DEF Listen
      <4>8. CASE Chmod(w)
        BY <4>8 DEF Chmod, Fails
      <4>9. CASE Abort(w)
        BY <4>9 DEF Abort, Removed
      <4>10. CASE LoopEnds(w)
        BY <4>10 DEF LoopEnds
      <4>11. CASE Leave(w)
        BY <4>11 DEF Leave, Removed
      <4>12. CASE Killed(w)
        BY <4>12 DEF Killed
      <4>13. QED
        BY <2>1, <4>1, <4>2, <4>3, <4>4, <4>5, <4>6, <4>7, <4>8, <4>9, <4>10, <4>11, <4>12 DEF WatcherStep
    <3>4. CASE u # w
      BY <2>1, <2>3, <3>1, <3>4, SocketAssumption
      DEF WatcherStep, Start, Bind, Binds, Connect, Unlink, Stat, Rebind, Listen, Chmod, Abort,
          LoopEnds, Leave, Killed, Fails, Removed, TypeOK, Starting, Watchers
    <3>5. QED
      BY <3>2, <3>3, <3>4
  <2>6. QED
    BY <2>3, <2>4, <2>5
<1>3. QED
  BY <1>1, <1>2

\* Without overlapping starts a watcher that runs is the one at the path
\* (SocketBind.RunningIsReached).
THEOREM RunningWatcherIsReached == Spec => []RunningIsReached
<1>1. Init => OneStart
  BY DEF Init, OneStart, Starting
<1>2. OneStart => RunningIsReached
  BY DEF OneStart, RunningIsReached
<1>3. QED
  BY <1>1, <1>2, TypeInit, TypeStep, OneStartStep, PTL DEF Spec

-----------------------------------------------------------------------------
LEMMA AloneStartStep == TypeOK /\ AloneStart /\ [Next]_vars => AloneStart'
<1> SUFFICES ASSUME TypeOK, AloneStart, [Next]_vars PROVE AloneStart'
  OBVIOUS
<1>1. CASE UNCHANGED vars
  BY <1>1 DEF AloneStart, vars
<1>2. CASE Next
  <2>1. PICK w \in Watchers : WatcherStep(w)
    BY <1>2 DEF Next, WatcherStep
  <2>2. PICK l \in Locs : GoesTo(w, l)
    BY <2>1, StepGoes
  <2>3. /\ at'[w] = l
        /\ \A v \in Watchers \ {w} : at'[v] = at[v]
        /\ \A v \in Watchers \ {w} : v \notin overlapped' =>
              /\ v \notin overlapped
              /\ ~(at[v] \in Unsettled /\ l \in Unsettled)
        /\ w \notin overlapped' =>
              /\ at[w] = "off" \/ w \notin overlapped
              /\ l \in Unsettled => \A v \in Watchers \ {w} : at[v] \notin Unsettled
    BY <2>2, Going, LocsAre DEF TypeOK
  <2> SUFFICES ASSUME NEW u \in Watchers, u \notin overlapped'
               PROVE  /\ u \notin failed'
                      /\ at'[u] \in Starting => \A v \in Watchers \ {u} : at'[v] \notin Unsettled
                      /\ at'[u] \in {"connect", "unlink"} => path' # "nothing"
                      /\ at'[u] \in {"stat", "rebind"} => path' = "nothing"
                      /\ at'[u] \in {"listen", "chmod"} => path' = u
                      /\ at'[u] # "abort"
    BY DEF AloneStart
  <2>4. u \notin overlapped =>
           /\ u \notin failed
           /\ at[u] \in Starting => \A v \in Watchers \ {u} : at[v] \notin Unsettled
           /\ at[u] \in {"connect", "unlink"} => path # "nothing"
           /\ at[u] \in {"stat", "rebind"} => path = "nothing"
           /\ at[u] \in {"listen", "chmod"} => path = u
           /\ at[u] # "abort"
    BY DEF AloneStart
  <2>5. at'[u] \in Starting => \A v \in Watchers \ {u} : at'[v] \notin Unsettled
    BY <2>3, <2>4 DEF Unsettled
  <2>6. CASE u = w
    <3> USE <2>3, <2>4, <2>5, <2>6, SocketAssumption DEF TypeOK, GoesTo, Starting, Listening, Ending, Watchers
    <3>1. CASE Start(w)
      BY <3>1 DEF Start
    <3>2. CASE Bind(w)
      BY <3>2 DEF Bind, Binds
    <3>3. CASE Connect(w)
      BY <3>3 DEF Connect
    <3>4. CASE Unlink(w)
      BY <3>4 DEF Unlink, Fails, Removed
    <3>5. CASE Stat(w)
      BY <3>5 DEF Stat, Fails
    <3>6. CASE Rebind(w)
      BY <3>6 DEF Rebind, Binds, Fails
    <3>7. CASE Listen(w)
      BY <3>7 DEF Listen
    <3>8. CASE Chmod(w)
      BY <3>8 DEF Chmod, Fails
    <3>9. CASE Abort(w)
      BY <3>9 DEF Abort, Removed
    <3>10. CASE LoopEnds(w)
      BY <3>10 DEF LoopEnds
    <3>11. CASE Leave(w)
      BY <3>11 DEF Leave, Removed
    <3>12. CASE Killed(w)
      BY <3>12 DEF Killed
    <3>13. QED
      BY <2>1, <3>1, <3>2, <3>3, <3>4, <3>5, <3>6, <3>7, <3>8, <3>9, <3>10, <3>11, <3>12 DEF WatcherStep
  <2>7. CASE u # w
    BY <2>1, <2>3, <2>4, <2>7, SocketAssumption
    DEF WatcherStep, Start, Bind, Binds, Connect, Unlink, Stat, Rebind, Listen, Chmod, Abort,
        LoopEnds, Leave, Killed, Fails, Removed, TypeOK, Unsettled, Starting, Ending, Watchers
  <2>8. QED
    BY <2>5, <2>6, <2>7
<1>3. QED
  BY <1>1, <1>2

\* A start fails only while another watcher starts or ends
\* (SocketBind.FailsOnlyInOverlap).
THEOREM StartsFailOnlyInOverlap == Spec => []FailsOnlyInOverlap
<1>1. Init => AloneStart
  BY DEF Init, AloneStart, Starting
<1>2. TypeOK /\ AloneStart => FailsOnlyInOverlap
  BY DEF AloneStart, FailsOnlyInOverlap, TypeOK
<1>3. QED
  BY <1>1, <1>2, TypeInit, TypeStep, AloneStartStep, PTL DEF Spec

=============================================================================
