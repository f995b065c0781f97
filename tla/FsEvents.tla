------------------------------- MODULE FsEvents -------------------------------
(***************************************************************************)
(* From a change of a file to what the scanner does about it: the kernel's *)
(* queue of fanotify events, the C or the Go watcher that reads and parses *)
(* them, and the reaction of on_demand_watcher() (watcher.c:133-202,       *)
(* 440-515, fswatcher.go:187-200, 416-505, parsing.go, scan.py:229-243).   *)
(*                                                                         *)
(* An event names a directory by its handle and a file in it.  The handle  *)
(* is resolved when the event is parsed.  As long as an event has not been *)
(* read the kernel may merge a later one of the same process into it: one  *)
(* about the same name, if both are changes of the directory (delete and   *)
(* rename), or about the same file, if both are closings.  That is why a   *)
(* mask has several bits, and why an event can be younger than it looks.   *)
(*                                                                         *)
(* What the watchers send arrives in order and is handled in order; losses *)
(* on the way are the matter of WatcherLoop and GoWatcher.                 *)
(***************************************************************************)
EXTENDS Naturals, FiniteSets, SequencesExt

CONSTANTS
    Flavours,       \* the watchers looked at: "C", "Go"
    Dirs,           \* directories, as file handles
    Places,         \* where they can be: paths, as sequences of names
    WatchPaths,     \* what a watcher may be told to watch
    Names,          \* names of files
    LongNames,      \* those with which an event takes more than half a C buffer
    Processes,      \* processes that change files
    CRoom, GoRoom,  \* of the read buffers, in events: 256 and 4096 bytes in the code
    LongSize,       \* the size of an event with a long name, where others are 1
    MaxChanges      \* bound: files opened, removed and renamed, directories moved and removed

Slots == Dirs \X Names
Files == Slots \X (0..MaxChanges)   \* by where and with which change they were made
None == <<>>                        \* no file
Gone == << <<"(deleted)">> >> \* where a removed directory is

ASSUME EventsAssumption ==
    /\ Flavours \subseteq {"C", "Go"}
    /\ Names \subseteq Seq(STRING \ {"/"}) \ {<<>>}
    /\ Places \subseteq Seq(Seq(STRING \ {"/"}) \ {<<>>})
    /\ WatchPaths \subseteq Places /\ Gone \notin Places
    /\ LongNames \subseteq Names
    /\ CRoom \in Nat \ {0} /\ GoRoom \in Nat
    /\ LongSize \in 1..GoRoom
    /\ MaxChanges \in Nat

VARIABLES
    flavour,        \* which watcher runs
    watch,          \* the canonical path it watches
    place,          \* where each directory is
    file,           \* which file is at each slot
    writers,        \* the files open for writing: by whom, and the slot of their name
    queue,          \* the kernel's events, not read yet
    buffer,         \* the events read, not parsed yet
    heard,          \* by path, the last thing on_demand_watcher() did for it
    changes,        \* how many changes there have been
    arrived,        \* history: slots whose file was written and closed or moved there
    moved,          \* history: directories that were renamed or removed
    orphaned,       \* history: slots without a file since when a writer closed the one removed
    mixed,          \* history: slots with a removal and an arrival in one event
    doubled,        \* history: slots with both kinds of removal in one event
    jumped          \* history: slots with an event merged into one that was not their last

setting == <<flavour, watch>>
files == <<place, file, writers, changes, arrived, moved, orphaned>>
merges == <<mixed, doubled, jumped>>
vars == <<setting, files, queue, buffer, heard, merges>>

Init ==
    /\ flavour \in Flavours
    /\ watch \in WatchPaths
    /\ place \in [Dirs -> Places]
    /\ \A d, e \in Dirs : place[d] = place[e] => d = e
    /\ file \in {[s \in Slots |-> None], [s \in Slots |-> <<s, 0>>]}
    /\ writers = {}
    /\ queue = <<>>
    /\ buffer = <<>>
    /\ heard = <<>>
    /\ changes = 0
    /\ arrived = {}
    /\ moved = {}
    /\ orphaned = {}
    /\ mixed = {}
    /\ doubled = {}
    /\ jumped = {}

-----------------------------------------------------------------------------
(* The kernel *)

Departures == {"DELETE", "MOVED_FROM"}
Arrivals == {"CLOSE_WRITE", "MOVED_TO"}
Bits == Departures \cup Arrivals

\* The event of process pr for a slot.  Only CLOSE_WRITE tells which file it was.
Event(pr, s, bit, f) ==
    [slot |-> s, by |-> pr, mask |-> {bit}, file |-> IF bit = "CLOSE_WRITE" THEN f ELSE None]

\* The unread events of a queue that e can be merged into.
Mergeable(evs, e) == {i \in DOMAIN evs : [evs[i] EXCEPT !.mask = {}] = [e EXCEPT !.mask = {}]}

\* The queues that can result from queueing e.
Queued(evs, e) ==
    {Append(evs, e)} \cup
    {[evs EXCEPT ![i].mask = @ \cup e.mask] :
        i \in {j \in Mergeable(evs, e) : \A k \in Mergeable(evs, e) : k <= j}}

\* The slot of e, if with new for evs it was merged into an event that was not
\* the last one for that slot.
Overtaken(evs, e, new) ==
    IF /\ Len(new) = Len(evs)
       /\ \E i \in DOMAIN evs : evs[i].slot = e.slot /\ \A j \in Mergeable(evs, e) : j < i
    THEN {e.slot} ELSE {}

\* Slots with an event that has a bit of B and one of C.
Both(evs, B, C) ==
    {evs[i].slot : i \in {j \in DOMAIN evs : evs[j].mask \cap B # {} /\ evs[j].mask \cap C # {}}}

Mixed(evs) == Both(evs, Departures, Arrivals)
Doubled(evs) == Both(evs, {"DELETE"}, {"MOVED_FROM"})

\* What a new queue merges is remembered.
Remember(new) ==
    /\ mixed' = mixed \cup Mixed(new)
    /\ doubled' = doubled \cup Doubled(new)

\* The event e goes into the queue.
Queue(e) ==
    /\ queue' \in Queued(queue, e)
    /\ Remember(queue')
    /\ jumped' = jumped \cup Overtaken(queue, e, queue')

-----------------------------------------------------------------------------
(* Other processes *)

Changes(n) ==
    /\ changes + n <= MaxChanges
    /\ changes' = changes + n

\* A file is opened for writing, and made if there is none.  No event tells so.
\* Bound: a process has a file open once.
Open(pr, s) ==
    /\ Changes(1)
    /\ place[s[1]] # Gone
    /\ LET f == IF file[s] = None THEN <<s, changes + 1>> ELSE file[s]
           h == [by |-> pr, slot |-> s, file |-> f]
       IN  /\ h \notin writers
           /\ file' = [file EXCEPT ![s] = f]
           /\ writers' = writers \cup {h}
    /\ orphaned' = orphaned \ {s}
    /\ UNCHANGED <<setting, place, arrived, moved, queue, buffer, heard, merges>>

\* It is closed.  The event has the name the file has by now, or had when it was
\* unlinked or replaced.
Close(h) ==
    /\ writers' = writers \ {h}
    /\ Queue(Event(h.by, h.slot, "CLOSE_WRITE", h.file))
    /\ arrived' = IF file[h.slot] = h.file THEN arrived \cup {h.slot} ELSE arrived
    /\ orphaned' = IF file[h.slot] = None THEN orphaned \cup {h.slot} ELSE orphaned
    /\ UNCHANGED <<setting, place, file, changes, moved, buffer, heard>>

Delete(pr, s) ==
    /\ Changes(1)
    /\ file[s] # None
    /\ file' = [file EXCEPT ![s] = None]
    /\ Queue(Event(pr, s, "DELETE", None))
    /\ arrived' = arrived \ {s}
    /\ UNCHANGED <<setting, place, writers, moved, orphaned, buffer, heard>>

\* A rename puts two events in the queue.  Those who write the file go along with it.
Rename(pr, s, t) ==
    /\ Changes(1)
    /\ s # t /\ file[s] # None /\ place[t[1]] # Gone
    /\ file' = [file EXCEPT ![s] = None, ![t] = file[s]]
    /\ writers' = {IF h.slot = s /\ h.file = file[s] THEN [h EXCEPT !.slot = t] ELSE h : h \in writers}
    /\ LET from == Event(pr, s, "MOVED_FROM", None)
           to == Event(pr, t, "MOVED_TO", None)
       IN  \E evs \in Queued(queue, from) :
             /\ queue' \in Queued(evs, to)
             /\ Remember(queue')
             /\ jumped' = jumped \cup Overtaken(queue, from, evs) \cup Overtaken(evs, to, queue')
    /\ arrived' = (arrived \ {s}) \cup {t}
    /\ orphaned' = orphaned \ {t}
    /\ UNCHANGED <<setting, place, moved, buffer, heard>>

\* Directories are renamed and removed without an event (no FAN_ONDIR);
\* the root stays where it is.
MoveDir(d, p) ==
    /\ Changes(1)
    /\ place[d] \notin {Gone, <<>>} /\ p \notin {place[e] : e \in Dirs} \cup {<<>>}
    /\ place' = [place EXCEPT ![d] = p]
    /\ moved' = moved \cup {d}
    /\ UNCHANGED <<setting, file, writers, arrived, orphaned, queue, buffer, heard, merges>>

RemoveDir(d) ==
    /\ Changes(1)
    /\ place[d] \notin {Gone, <<>>} /\ \A n \in Names : file[<<d, n>>] = None
    /\ place' = [place EXCEPT ![d] = Gone]
    /\ moved' = moved \cup {d}
    /\ UNCHANGED <<setting, file, writers, arrived, orphaned, queue, buffer, heard, merges>>

-----------------------------------------------------------------------------
(* The watchers *)

Size(evs) == Len(evs) + (LongSize - 1) * Cardinality({i \in DOMAIN evs : evs[i].slot[2] \in LongNames})

Room == IF flavour = "C" THEN CRoom ELSE GoRoom

Fitting == {n \in 1..Len(queue) : Size(SubSeq(queue, 1, n)) <= Room}

\* Changed form of ReadEvents: a read returns everything.
ReadEverything ==
    /\ buffer = <<>>
    /\ queue # <<>>
    /\ buffer' = queue
    /\ queue' = <<>>
    /\ UNCHANGED <<setting, files, heard, merges>>

\* read() returns as many events as fit.  When the first one does not fit it
\* fails, and the event stays.
ReadEvents ==
    /\ buffer = <<>>
    /\ Fitting # {}
    /\ LET n == CHOOSE n \in Fitting : \A m \in Fitting : m <= n
       IN  /\ buffer' = SubSeq(queue, 1, n)
           /\ queue' = SubSeq(queue, n + 1, Len(queue))
    /\ UNCHANGED <<setting, files, heard, merges>>

\* Paths as text.
Text == [p \in Places |-> IF p = <<>> THEN <<"/">>
                                      ELSE FoldLeft(LAMBDA t, name : t \o <<"/">> \o name, <<>>, p)]

\* What the text of a path says about the path, names being non-empty and without
\* a slash: below another are the paths that begin with its text and a slash.
ASSUME TextAssumption ==
    /\ \A p \in Places :
          /\ Text[p] \in Seq(STRING) /\ Text[p] # <<>> /\ Head(Text[p]) = "/"
          /\ Len(Text[p]) > 1 <=> p # <<>>
    /\ \A p, q \in Places : p # <<>> =>
          (IsPrefix(Text[p] \o <<"/">>, Text[q] \o <<"/">>) <=> IsPrefix(p, q))

\* Changed form of CAllows: the compared path has no slash at its end.
CAllowsPrefix(p, n) == IsPrefix(Text[watch], Text[p] \o <<"/">> \o n)

\* compare_path ends in a slash.
CAllows(p, n) ==
    LET compare_path == IF Len(Text[watch]) > 1 THEN Text[watch] \o <<"/">> ELSE Text[watch]
    IN  IsPrefix(compare_path, Text[p] \o <<"/">> \o n)

\* allowPath(), which looks at the directory.
GoAllows(p, n) ==
    \/ IsPrefix(Text[watch] \o <<"/">>, Text[p])
    \/ Text[p] = Text[watch]

Word == [CLOSE_WRITE |-> "close_for_write", DELETE |-> "remove",
         MOVED_FROM |-> "move_from", MOVED_TO |-> "move_to"]

\* The order in which the C watcher tests the bits.
Tests == <<"CLOSE_WRITE", "MOVED_TO", "DELETE", "MOVED_FROM">>
Tested(mask) == {i \in DOMAIN Tests : Tests[i] \in mask}

\* Changed form of COperation: the first bit that is set counts.
COperationFirst(mask) == Word[Tests[CHOOSE i \in Tested(mask) : \A j \in Tested(mask) : i <= j]]

\* The last bit that is set counts.
COperation(mask) == Word[Tests[CHOOSE i \in Tested(mask) : \A j \in Tested(mask) : j <= i]]

\* Changed form of GoOperation: a removal goes first.
GoOperationRemoval(mask) ==
    Word[CHOOSE b \in mask : mask \cap Departures # {} => b \in Departures]

\* parseEventMaskSimplified()
GoOperation(mask) ==
    IF Cardinality(mask) > 1 THEN "multiple" ELSE Word[CHOOSE b \in mask : TRUE]

Allows(p, n) == IF flavour = "C" THEN CAllows(p, n) ELSE GoAllows(p, n)
Operation(mask) == IF flavour = "C" THEN COperation(mask) ELSE GoOperation(mask)

\* What on_demand_watcher() does.
Reaction(operation) ==
    IF operation \in {"close_for_write", "move_to", "multiple"} THEN "scan" ELSE "remove"

\* It does r for a path.
HeardOf(path, r) == [p \in DOMAIN heard \cup {path} |-> IF p = path THEN r ELSE heard[p]]

\* Changed form of ParseEvent: the loop skips an event without going on to the next.
ParseEventAgain ==
    /\ buffer # <<>>
    /\ LET e == Head(buffer)
           p == place[e.slot[1]]
           n == e.slot[2]
       IN  /\ p # Gone /\ Allows(p, n)
           /\ heard' = HeardOf(<<p, n>>, Reaction(Operation(e.mask)))
    /\ buffer' = Tail(buffer)
    /\ UNCHANGED <<setting, files, queue, merges>>

\* An event whose directory is gone, or not watched where it is now, is skipped.
ParseEvent ==
    /\ buffer # <<>>
    /\ LET e == Head(buffer)
           p == place[e.slot[1]]
           n == e.slot[2]
       IN  heard' = IF p # Gone /\ Allows(p, n)
                    THEN HeardOf(<<p, n>>, Reaction(Operation(e.mask))) ELSE heard
    /\ buffer' = Tail(buffer)
    /\ UNCHANGED <<setting, files, queue, merges>>

-----------------------------------------------------------------------------
Change(pr) ==
    \E s \in Slots : \/ Open(pr, s) \/ Delete(pr, s)
                     \/ \E t \in Slots : Rename(pr, s, t)

\* The one thread of a watcher.
Watcher == ReadEvents \/ ParseEvent

Next ==
    \/ \E pr \in Processes : Change(pr)
    \/ \E h \in writers : Close(h)
    \/ \E d \in Dirs : RemoveDir(d) \/ \E p \in Places : MoveDir(d, p)
    \/ Watcher

Spec == Init /\ [][Next]_vars

\* The watcher reads and parses on; processes need not change anything.
FairSpec == Spec /\ WF_vars(Watcher)

-----------------------------------------------------------------------------
TypeOK ==
    /\ flavour \in Flavours /\ watch \in WatchPaths
    /\ place \in [Dirs -> Places \cup {Gone}]
    /\ file \in [Slots -> Files \cup {None}]
    /\ writers \subseteq [by : Processes, slot : Slots, file : Files]
    /\ \A i \in DOMAIN queue : queue[i].mask \subseteq Bits /\ queue[i].mask # {}
    /\ Size(buffer) <= Room
    /\ DOMAIN heard \subseteq Places \X Names
    /\ \A p \in DOMAIN heard : heard[p] \in {"scan", "remove"}
    /\ changes \in 0..MaxChanges
    /\ arrived \subseteq {s \in Slots : file[s] # None}
    /\ moved \subseteq Dirs /\ orphaned \subseteq {s \in Slots : file[s] = None}
    /\ mixed \subseteq Slots /\ doubled \subseteq Slots /\ jumped \subseteq Slots

Quiet == queue = <<>> /\ buffer = <<>>

\* Slots in a watched directory that has stayed where it is.
Watched == {s \in Slots : s[1] \notin moved /\ IsPrefix(watch, place[s[1]])}
Heard(s) == LET p == <<place[s[1]], s[2]>> IN IF p \in DOMAIN heard THEN heard[p] ELSE "nothing"

\* When all events are handled, the last thing heard of a file that was written
\* or moved to its place is that it is to be scanned.  What can go wrong: an event
\* that the kernel merged into an older one over a younger; in the C watcher a
\* mask with a removal and an arrival; in the Go watcher the prefix of "/", which
\* is "//" (watcher.c:484-505, fswatcher.go:123-125, 426-440, parsing.go:83-104).
ArrivalsAreHeard ==
    Quiet => \A s \in arrived \cap Watched :
        \/ Heard(s) = "scan"
        \/ s \in jumped
        \/ flavour = "C" /\ s \in mixed
        \/ flavour = "Go" /\ watch = <<>> /\ place[s[1]] # <<>>

\* Likewise the last thing heard of a path without a file is not that it is to be
\* scanned.  What can go wrong: a file is removed while it is open for writing, and
\* its closing comes last, with the name it had; an event that jumped; and in the Go
\* watcher, which has to guess what several bits mean, two removals in one event, or
\* a removal and an arrival (watcher.c:484-505, 609, parsing.go:100-102).
RemovalsAreHeard ==
    Quiet => \A s \in Watched : file[s] = None /\ Heard(s) = "scan" =>
        \/ s \in orphaned
        \/ s \in jumped
        \/ flavour = "Go" /\ s \in mixed \cup doubled

\* Nothing is heard of paths outside of the tree that is watched, also when a
\* directory is moved between an event and its parsing, and when names begin
\* alike (watcher.c:478, 587-592, fswatcher.go:426-440).
OnlyWatchedHeard ==
    \A p \in DOMAIN heard : IsPrefix(watch, p[1])

\* Every event is read and handled, unless one does not fit the C watcher's buffer:
\* that one stays the first for good (watcher.c:443-444, fswatcher.go:417).
EventsAreHandled ==
    []<>(buffer = <<>> /\
         (queue = <<>> \/ (flavour = "C" /\ Head(queue).slot[2] \in LongNames)))

-----------------------------------------------------------------------------
\* scan.py:280 calls -w "Watch for changes and scan on demand": what was written or
\* moved in is to be scanned (watcher.c:484-505).
EveryArrivalIsHeard == Quiet => \A s \in arrived \cap Watched : Heard(s) = "scan"

=============================================================================
