------------------------------ MODULE ScanCache ------------------------------
(***************************************************************************)
(* scan_file() and its cache (class ClamAVDB and ClambScanMgr.scan(),      *)
(* clamavdb.py:125-222), for one path.  A row is good for a file with the  *)
(* same size and the same modification time in whole seconds.  While a     *)
(* scan goes on, other processes write, replace and delete the file, other *)
(* scans of the path run, and removal events delete the row.               *)
(*                                                                         *)
(* Time passes in ticks, TicksPerSecond of them in a second.  Of a file's  *)
(* content only the size and clamd's verdict matter.                       *)
(***************************************************************************)
EXTENDS Naturals, FiniteSets

CONSTANTS
    Scans,            \* the calls of scan_file() for the path
    Sizes,            \* sizes of files
    TicksPerSecond,
    MaxTicks          \* bound: the clock stops here

ASSUME CacheAssumption ==
    /\ Sizes \subseteq Nat
    /\ TicksPerSecond \in Nat \ {0}
    /\ MaxTicks \in Nat

Verdict == {"OK", "FOUND"}
Status == Verdict \cup {"ERROR"}
Ticks == 0..MaxTicks

NoFile == [size |-> 0, verdict |-> "none", mtime |-> 0]
NoRow == [size |-> 0, seconds |-> 0, status |-> "none"]
File == [size : Sizes, verdict : Verdict, mtime : Ticks]
Row == [size : Sizes, seconds : Ticks, status : Status]

VARIABLES
    now,         \* the clock
    file,        \* what is at the path
    row,         \* the row of the path
    at,          \* where each scan_file() is; "idle": not called, or over
    stat,        \* the fingerprint its second lstat() took
    answer,      \* clamd's answer to it
    arrived,     \* history: the fingerprints of all files that were at the path
    ambiguous    \* history: those that came to the path more than once

vars == <<now, file, row, at, stat, answer, arrived, ambiguous>>

\* int(stat.st_mtime)
Seconds(t) == t \div TicksPerSecond

\* What the cache knows a file by.
Fingerprint(f) == [size |-> f.size, seconds |-> Seconds(f.mtime)]
NoStat == [size |-> 0, seconds |-> 0]
Fingerprints == [size : Sizes, seconds : Ticks]

\* clamavdb.py:196
CacheHit ==
    /\ row # NoRow
    /\ row.size = file.size
    /\ row.seconds = Seconds(file.mtime)

\* A row of an earlier run of the program is correct, or describes a file that
\* is not at the path any more.
Init ==
    /\ now = 0
    /\ file \in {NoFile} \cup {f \in File : f.mtime = 0}
    /\ row \in {NoRow} \cup {r \in Row : r.seconds = 0}
    /\ file # NoFile /\ CacheHit => row.status \in {file.verdict, "ERROR"}
    /\ at = [s \in Scans |-> "idle"]
    /\ stat = [s \in Scans |-> NoStat]
    /\ answer = [s \in Scans |-> "none"]
    /\ arrived = (IF file = NoFile THEN {} ELSE {Fingerprint(file)}) \cup
                 (IF row = NoRow THEN {} ELSE {[size |-> row.size, seconds |-> row.seconds]})
    /\ ambiguous = {}

\* Between two lstat() calls of one scan_file() (clamavdb.py:191, 128) the event
\* loop does not get to run, as clamd has been started (clamavdb.py:70).
LoopFree == \A s \in Scans : at[s] # "stat"

-----------------------------------------------------------------------------
(* The rest of the system *)

Arrive(f) ==
    /\ file' = f
    /\ arrived' = arrived \cup {Fingerprint(f)}
    /\ ambiguous' = IF Fingerprint(f) \in arrived THEN ambiguous \cup {Fingerprint(f)}
                                                  ELSE ambiguous

Tick ==
    /\ now < MaxTicks
    /\ now' = now + 1
    /\ UNCHANGED <<file, row, at, stat, answer, arrived, ambiguous>>

\* The file is written, or another is moved over it and keeps its own mtime.
Change(f) ==
    /\ f.mtime <= now
    /\ f # file
    /\ Arrive(f)
    /\ UNCHANGED <<now, row, at, stat, answer>>

Delete ==
    /\ file # NoFile
    /\ file' = NoFile
    /\ UNCHANGED <<now, row, at, stat, answer, arrived, ambiguous>>

-----------------------------------------------------------------------------
(* scan_file() *)

\* scan_file() returns or raises.
Leave(s) ==
    /\ at' = [at EXCEPT ![s] = "idle"]
    /\ stat' = [stat EXCEPT ![s] = NoStat]
    /\ answer' = [answer EXCEPT ![s] = "none"]

Enter(s, place) == at' = [at EXCEPT ![s] = place]

\* The first lstat() and the lookup.  Without a file lstat() raises, and a good
\* row is returned, both without a trace; otherwise scan() is called.
Lookup(s) ==
    /\ LoopFree
    /\ at[s] = "idle"
    /\ file # NoFile
    /\ ~CacheHit
    /\ Enter(s, "stat")
    /\ UNCHANGED <<now, file, row, stat, answer, arrived, ambiguous>>

\* The lstat() of scan() gives the row its fingerprint.
Stat(s) ==
    /\ at[s] = "stat"
    /\ file # NoFile
    /\ Enter(s, "asked")
    /\ stat' = [stat EXCEPT ![s] = Fingerprint(file)]
    /\ UNCHANGED <<now, file, row, answer, arrived, ambiguous>>

\* The file is gone by now, or is no regular file any more.
StatRaises(s) ==
    /\ at[s] = "stat"
    /\ Leave(s)
    /\ UNCHANGED <<now, file, row, arrived, ambiguous>>

\* clamd reads the file, later than either lstat().  It may report an error, as
\* it does when the file is gone.
Answer(s) ==
    /\ at[s] = "asked"
    /\ Enter(s, "answered")
    /\ \E a \in {"ERROR"} \cup (IF file = NoFile THEN {} ELSE {file.verdict}) :
          answer' = [answer EXCEPT ![s] = a]
    /\ UNCHANGED <<now, file, row, stat, arrived, ambiguous>>

\* clamd closes the connection without an answer: scan() raises IndexError.
NoAnswer(s) ==
    /\ LoopFree
    /\ at[s] = "asked"
    /\ Leave(s)
    /\ UNCHANGED <<now, file, row, arrived, ambiguous>>

\* Changed form of Store: the row is stored before there is an answer.
StoreEarly(s) ==
    /\ LoopFree
    /\ at[s] = "asked"
    /\ row' = [size |-> stat[s].size, seconds |-> stat[s].seconds, status |-> answer[s]]
    /\ Leave(s)
    /\ UNCHANGED <<now, file, arrived, ambiguous>>

\* Changed form of Store: the row describes the file as it is after the scan.
StoreLateStat(s) ==
    /\ LoopFree
    /\ at[s] = "answered"
    /\ file # NoFile
    /\ row' = [size |-> file.size, seconds |-> Seconds(file.mtime), status |-> answer[s]]
    /\ Leave(s)
    /\ UNCHANGED <<now, file, arrived, ambiguous>>

\* INSERT OR REPLACE
Store(s) ==
    /\ LoopFree
    /\ at[s] = "answered"
    /\ row' = [size |-> stat[s].size, seconds |-> stat[s].seconds, status |-> answer[s]]
    /\ Leave(s)
    /\ UNCHANGED <<now, file, arrived, ambiguous>>

\* remove_file(), called for a removal event.
RemoveFile ==
    /\ LoopFree
    /\ row' = NoRow
    /\ UNCHANGED <<now, file, at, stat, answer, arrived, ambiguous>>

-----------------------------------------------------------------------------
ScanFile(s) ==
    Lookup(s) \/ Stat(s) \/ StatRaises(s) \/ Answer(s) \/ NoAnswer(s) \/ Store(s)

Next ==
    \/ Tick
    \/ \E f \in File : Change(f)
    \/ Delete
    \/ \E s \in Scans : ScanFile(s)
    \/ RemoveFile

Spec == Init /\ [][Next]_vars

-----------------------------------------------------------------------------
Places == {"idle", "stat", "asked", "answered"}

TypeOK ==
    /\ now \in Ticks
    /\ file \in File \cup {NoFile}
    /\ row \in Row \cup {NoRow}
    /\ at \in [Scans -> Places]
    /\ stat \in [Scans -> Fingerprints \cup {NoStat}]
    /\ answer \in [Scans -> Status \cup {"none"}]
    /\ arrived \in SUBSET Fingerprints
    /\ ambiguous \in SUBSET arrived

\* A verdict in the cache that would be served for the file is the verdict on
\* the file, whatever was written, moved and scanned meanwhile, provided only
\* one file with its size and second has been at the path: lstat() comes before
\* clamd reads the file (clamavdb.py:128-147, 196, 207).
CacheSound ==
    CacheHit /\ file # NoFile /\ Fingerprint(file) \notin ambiguous =>
        row.status \in {file.verdict, "ERROR"}

=============================================================================
