------------------------------- MODULE Clamd -------------------------------
(***************************************************************************)
(* The clamd process as ensure_clamd() starts, awaits and monitors it      *)
(* (clamavdb.py:69-120).  clamd itself is external: it reads the           *)
(* configuration, makes its socket, loads its database and then answers;   *)
(* it may exit at any time, with its socket (killed) or without.  Where    *)
(* the caller is in ensure_clamd() is the matter of ScanLoop, which        *)
(* composes these steps with the rest of main().                           *)
(***************************************************************************)

VARIABLES
    stale,      \* whether a file was left at socket_path, which has the pid in its name
    process,    \* how far clamd is
    socket,     \* whether there is a file at socket_path
    conf,       \* the configuration in /tmp: absent, written or removed
    monitor     \* clamd_task, which runs wait_for_process()

daemon == <<stale, process, socket, conf, monitor>>

Init ==
    /\ stale \in BOOLEAN
    /\ process = "none"
    /\ socket = stale
    /\ conf = "absent"
    /\ monitor = "none"

Alive == process \notin {"none", "exited"}

-----------------------------------------------------------------------------
(* clamd *)

\* Without the configuration clamd exits.
ReadConfig ==
    /\ process = "starting"
    /\ process' = IF conf = "written" THEN "configured" ELSE "exited"
    /\ UNCHANGED <<stale, socket, conf, monitor>>

\* A file left at the path is replaced.
Listen ==
    /\ process = "configured"
    /\ process' = "listening"
    /\ socket' = TRUE
    /\ UNCHANGED <<stale, conf, monitor>>

Serve ==
    /\ process = "listening"
    /\ process' = "serving"
    /\ UNCHANGED <<stale, socket, conf, monitor>>

Exit ==
    /\ Alive
    /\ \/ UNCHANGED socket
       \/ process \in {"listening", "serving"} /\ socket' = FALSE
    /\ process' = "exited"
    /\ UNCHANGED <<stale, conf, monitor>>

Progress == ReadConfig \/ Listen \/ Serve

-----------------------------------------------------------------------------
(* ensure_clamd() *)

\* The configuration is written and clamd started; create_subprocess_exec() suspends.
Start ==
    /\ process = "none"
    /\ conf' = "written"
    /\ process' = "starting"
    /\ UNCHANGED <<stale, socket, monitor>>

\* Changed form of Started: the configuration is removed at once.
StartedUnlink ==
    /\ monitor = "none"
    /\ monitor' = "waiting"
    /\ conf' = "removed"
    /\ UNCHANGED <<stale, process, socket>>

\* create_subprocess_exec() returned: the monitor is created, and the
\* configuration removed if there is a socket already.
Started ==
    /\ monitor = "none"
    /\ monitor' = "waiting"
    /\ conf' = IF socket THEN "removed" ELSE conf
    /\ UNCHANGED <<stale, process, socket>>

\* The socket is there after a sleep.
SocketSeen ==
    /\ socket
    /\ conf' = "removed"
    /\ UNCHANGED <<stale, process, socket, monitor>>

\* A PING is answered.  Anything else is tried again after a second, and so is
\* whatever a dead socket raises.
Answered ==
    /\ process = "serving"
    /\ UNCHANGED daemon

\* End of file and then the end of the process: wait_for_process() calls sys.exit().
MonitorEnds ==
    /\ monitor = "waiting"
    /\ process = "exited"
    /\ monitor' = "ended"
    /\ UNCHANGED <<stale, process, socket, conf>>

-----------------------------------------------------------------------------
TypeOK ==
    /\ stale \in BOOLEAN /\ socket \in BOOLEAN
    /\ process \in {"none", "starting", "configured", "listening", "serving", "exited"}
    /\ conf \in {"absent", "written", "removed"}
    /\ monitor \in {"none", "waiting", "ended"}

\* The configuration is not removed before clamd has read it, unless the path of
\* the socket was taken by an older scanner with the same pid (clamavdb.py:105-107).
ConfigIsRead == process = "starting" /\ conf = "removed" => stale

=============================================================================
