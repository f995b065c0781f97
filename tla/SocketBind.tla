------------------------------ MODULE SocketBind ------------------------------
(***************************************************************************)
(* Watchers that start, end and die around the one socket path they share  *)
(* (bind_to_unix_domain_socket() and main() of watcher.c,                  *)
(* NewUnixDomainServer() and main() of watcher.go; both use                *)
(* /tmp/fswatcher.sock).  Each system call is a step, between which other  *)
(* watchers act.  A socket file whose process is gone is stale: a connect  *)
(* to it is refused, like one to a socket that does not listen yet.        *)
(*                                                                         *)
(* The watchers run as root, so only the calls that another watcher can    *)
(* make fail do fail here: bind, connect, unlink, stat and chmod.          *)
(***************************************************************************)
EXTENDS Naturals

CONSTANTS
    CWatchers,      \* processes that run watcher.c
    GoWatchers      \* processes that run watcher.go

ASSUME SocketAssumption ==
    /\ CWatchers \cap GoWatchers = {}
    /\ {"nothing", "stale"} \cap (CWatchers \cup GoWatchers) = {}

Watchers == CWatchers \cup GoWatchers

VARIABLES
    at,             \* the next call of each watcher; off, or run: in its loop
    path,           \* whose socket is at the path; nothing; or a stale file
    mode,           \* whether chmod() has opened the file at the path to clients
    failed,         \* history: the watchers whose last start failed, not for being in use
    raced,          \* history: two starts overlapped, and some watcher has been up since
    overlapped      \* history: the watchers whose last start overlapped another's start or end

vars == <<at, path, mode, failed, raced, overlapped>>

Starting == {"bind", "connect", "unlink", "stat", "rebind", "listen", "chmod"}
Ending == {"leave", "abort"}
Listening == {"chmod", "run"} \cup Ending
Locations == {"off", "listen", "run"} \cup Starting \cup Ending

Init ==
    /\ at = [w \in Watchers |-> "off"]
    /\ path \in {"nothing", "stale"}
    /\ mode \in BOOLEAN
    /\ path = "nothing" => ~mode
    /\ failed = {}
    /\ raced = FALSE
    /\ overlapped = {}

\* Watcher w goes on to its next call, l.
GoesTo(w, l) ==
    /\ at' = [at EXCEPT ![w] = l]
    /\ raced' = /\ \E v \in Watchers : at'[v] # "off"
                /\ \/ raced
                   \/ \E v \in Watchers \ {w} : {at[v], l} \subseteq Starting
    /\ overlapped' =
          LET others == {v \in Watchers \ {w} : at[v] \in Starting \cup Ending}
          IN  IF l \in Starting \cup Ending /\ others # {}
              THEN overlapped \cup others \cup {w}
              ELSE IF at[w] = "off" THEN overlapped \ {w} ELSE overlapped

Removed == path' = "nothing" /\ mode' = FALSE

-----------------------------------------------------------------------------
(* The start of a watcher *)

Start(w) ==
    /\ at[w] = "off"
    /\ GoesTo(w, "bind")
    /\ failed' = failed \ {w}
    /\ UNCHANGED <<path, mode>>

\* The start fails.  A socket is bound only from bind() on, and chmod() fails
\* only without a file.
Fails(w) ==
    /\ GoesTo(w, "off")
    /\ failed' = failed \cup {w}
    /\ UNCHANGED <<path, mode>>

\* bind(), which creates the file.
Binds(w) ==
    /\ path = "nothing"
    /\ path' = w
    /\ mode' = FALSE
    /\ GoesTo(w, "listen")
    /\ UNCHANGED failed

Bind(w) ==
    /\ at[w] = "bind"
    /\ \/ Binds(w)
       \/ /\ path # "nothing"
          /\ GoesTo(w, "connect")
          /\ UNCHANGED <<path, mode, failed>>

\* Changed form of Connect: a file at the path is taken for stale.
ConnectUntried(w) ==
    /\ at[w] = "connect"
    /\ GoesTo(w, "unlink")
    /\ UNCHANGED <<path, mode, failed>>

\* Somebody answers: the path is in use.  Any error leads to unlink().
Connect(w) ==
    /\ at[w] = "connect"
    /\ GoesTo(w, IF path \in Watchers /\ at[path] \in Listening THEN "off" ELSE "unlink")
    /\ UNCHANGED <<path, mode, failed>>

\* Changed form of Unlink: the file is left for bind() to find.
UnlinkForgotten(w) ==
    /\ at[w] = "unlink"
    /\ GoesTo(w, "rebind")
    /\ UNCHANGED <<path, mode, failed>>

Unlink(w) ==
    /\ at[w] = "unlink"
    /\ \/ path = "nothing" /\ Fails(w)
       \/ /\ path # "nothing"
          /\ Removed
          /\ GoesTo(w, IF w \in GoWatchers THEN "stat" ELSE "rebind")
          /\ UNCHANGED failed

\* Only the Go watcher looks whether the file is gone.
Stat(w) ==
    /\ at[w] = "stat"
    /\ \/ path # "nothing" /\ Fails(w)
       \/ path = "nothing" /\ GoesTo(w, "rebind") /\ UNCHANGED <<path, mode, failed>>

Rebind(w) ==
    /\ at[w] = "rebind"
    /\ Binds(w) \/ (path # "nothing" /\ Fails(w))

Listen(w) ==
    /\ at[w] = "listen"
    /\ GoesTo(w, "chmod")
    /\ UNCHANGED <<path, mode, failed>>

\* chmod() goes by the path, whatever is there.  When it fails, the Go watcher
\* closes its listener and that removes the path.
Chmod(w) ==
    /\ at[w] = "chmod"
    /\ \/ /\ path # "nothing"
          /\ mode' = TRUE
          /\ GoesTo(w, "run")
          /\ UNCHANGED <<path, failed>>
       \/ /\ path = "nothing"
          /\ IF w \in GoWatchers
             THEN GoesTo(w, "abort") /\ UNCHANGED <<path, mode, failed>>
             ELSE Fails(w)

Abort(w) ==
    /\ at[w] = "abort"
    /\ Removed
    /\ GoesTo(w, "off")
    /\ failed' = failed \cup {w}

-----------------------------------------------------------------------------
(* The end of a watcher *)

\* SIGINT, or a failed accept(): the loop ends.
LoopEnds(w) ==
    /\ at[w] = "run"
    /\ GoesTo(w, "leave")
    /\ UNCHANGED <<path, mode, failed>>

\* Changed form of Leave: the file is left behind.
LeaveFile(w) ==
    /\ at[w] = "leave"
    /\ GoesTo(w, "off")
    /\ UNCHANGED <<path, mode, failed>>

\* unlink() of whatever is at the path, and the end of the process.
Leave(w) ==
    /\ at[w] = "leave"
    /\ Removed
    /\ GoesTo(w, "off")
    /\ UNCHANGED failed

\* SIGKILL, abort() or a SIGINT before it is handled.
Killed(w) ==
    /\ at[w] # "off"
    /\ path' = IF path = w THEN "stale" ELSE path
    /\ GoesTo(w, "off")
    /\ UNCHANGED <<mode, failed>>

-----------------------------------------------------------------------------
Next == \E w \in Watchers :
    \/ Start(w) \/ Bind(w) \/ Connect(w) \/ Unlink(w) \/ Stat(w) \/ Rebind(w)
    \/ Listen(w) \/ Chmod(w) \/ Abort(w)
    \/ LoopEnds(w) \/ Leave(w) \/ Killed(w)

Spec == Init /\ [][Next]_vars

-----------------------------------------------------------------------------
\* The socket of a watcher is its own from bind() to its end, and the file of a
\* watcher that is gone is stale.
TypeOK ==
    /\ at \in [Watchers -> Locations]
    /\ path \in Watchers \cup {"nothing", "stale"}
    /\ mode \in BOOLEAN
    /\ failed \subseteq Watchers
    /\ raced \in BOOLEAN
    /\ overlapped \subseteq Watchers
    /\ path \in Watchers => at[path] \in Listening \cup {"listen"}

\* A watcher that runs is the one that clients reach, and so the only one: stale
\* files, crashes and second starts do no harm, except when two starts overlap
\* (watcher.c:74-131, watcher.go:27-58).
RunningIsReached ==
    ~raced => \A w \in Watchers : at[w] = "run" => path = w /\ mode

\* A watcher gives up only because another one answers, or because another one
\* was starting or ending at the same time: a file left behind by a crash at any
\* point never keeps the next one from starting (watcher.c:89-97, watcher.go:36-49).
FailsOnlyInOverlap == failed \subseteq overlapped

=============================================================================
