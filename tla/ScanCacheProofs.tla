--------------------------- MODULE ScanCacheProofs ---------------------------
(***************************************************************************)
(* The cache is sound for any number of concurrent scans, any sizes and    *)
(* any resolution of the clock.                                            *)
(***************************************************************************)
EXTENDS ScanCache, TLAPS

\* Whatever the cache or a running scan remembers has been at the path.
KnownArrived ==
    /\ file # NoFile => Fingerprint(file) \in arrived
    /\ row # NoRow => [size |-> row.size, seconds |-> row.seconds] \in arrived
    /\ \A s \in Scans : at[s] \in {"asked", "answered"} => stat[s] \in arrived

\* An answer about to be stored is right for the file, if it would be used for it.
AnswerSound ==
    \A s \in Scans :
        at[s] = "answered" /\ file # NoFile /\ Fingerprint(file) = stat[s]
            /\ Fingerprint(file) \notin ambiguous
        => answer[s] \in {file.verdict, "ERROR"}

\* A scan that is past its answer has one.
Answered == \A s \in Scans : at[s] = "answered" => answer[s] \in Status

-----------------------------------------------------------------------------
\* The fingerprint of a file has its size and a number of seconds.
LEMMA FingerprintType == ASSUME NEW f \in File PROVE Fingerprint(f) \in Fingerprints
<1>1. f.mtime \in 0..MaxTicks /\ MaxTicks \in Nat /\ TicksPerSecond \in Nat \ {0}
  BY CacheAssumption DEF File, Ticks
<1>2. f.mtime \div TicksPerSecond \in 0..MaxTicks
  <2>1. \A m \in Nat, d \in Nat \ {0} : m \div d \in Nat /\ m \div d <= m
    BY Z3
  <2>2. QED
    BY <1>1, <2>1
<1>3. QED
  BY <1>2 DEF Fingerprint, Fingerprints, Seconds, File, Ticks

\* Types, and what the fingerprints in use refer to.
LEMMA CacheBasics == Spec => [](TypeOK /\ KnownArrived /\ Answered)
<1> DEFINE T == TypeOK /\ KnownArrived /\ Answered
<1>1. Init => T
  <2> SUFFICES ASSUME Init PROVE T
    OBVIOUS
  <2>1. 0 \in Ticks
    BY CacheAssumption DEF Ticks
  <2>2. file # NoFile => file \in File /\ Fingerprint(file) \in Fingerprints
    BY FingerprintType DEF Init
  <2>3. row # NoRow => row \in Row /\ [size |-> row.size, seconds |-> row.seconds] \in Fingerprints
    BY DEF Init, Row, Fingerprints
  <2>4. QED
    BY <2>1, <2>2, <2>3 DEF Init, TypeOK, KnownArrived, Answered, Places
<1>2. T /\ [Next]_vars => T'
  <2> SUFFICES ASSUME T, [Next]_vars PROVE T'
    OBVIOUS
  <2>1. CASE Tick
    BY <2>1, CacheAssumption DEF Tick, Ticks, TypeOK, KnownArrived, Answered
  <2>2. ASSUME NEW f \in File, Change(f) PROVE T'
    <3>1. Fingerprint(f) \in Fingerprints
      BY FingerprintType
    <3>2. QED
      BY <2>2, <3>1 DEF Change, Arrive, TypeOK, KnownArrived, Answered
  <2>3. CASE Delete \/ RemoveFile
    BY <2>3 DEF Delete, RemoveFile, TypeOK, KnownArrived, Answered
  <2>4. ASSUME NEW s \in Scans, Lookup(s) PROVE T'
    BY <2>4 DEF Lookup, Enter, Places, TypeOK, KnownArrived, Answered
  <2>5. ASSUME NEW s \in Scans, Stat(s) PROVE T'
    <3>1. Fingerprint(file) \in Fingerprints
      BY <2>5, FingerprintType DEF Stat, TypeOK
    <3>2. QED
      BY <2>5, <3>1 DEF Stat, Enter, Places, TypeOK, KnownArrived, Answered
  <2>6. ASSUME NEW s \in Scans, StatRaises(s) \/ NoAnswer(s) PROVE T'
    BY <2>6 DEF StatRaises, NoAnswer, Leave, Places, TypeOK, KnownArrived, Answered
  <2>7. ASSUME NEW s \in Scans, Answer(s) PROVE T'
    <3>1. PICK a \in {"ERROR"} \cup (IF file = NoFile THEN {} ELSE {file.verdict}) :
             answer' = [answer EXCEPT ![s] = a]
      BY <2>7 DEF Answer
    <3>2. a \in Status
      BY <3>1 DEF TypeOK, File, Status
    <3>3. QED
      BY <2>7, <3>1, <3>2 DEF Answer, Enter, Places, TypeOK, KnownArrived, Answered
  <2>8. ASSUME NEW s \in Scans, Store(s) PROVE T'
    <3>1. stat[s] \in Fingerprints /\ stat[s] \in arrived /\ answer[s] \in Status
      BY <2>8 DEF Store, TypeOK, KnownArrived, Answered
    <3>2. row' = [size |-> stat[s].size, seconds |-> stat[s].seconds, status |-> answer[s]]
      BY <2>8 DEF Store
    <3>3. row' \in Row
      BY <3>1, <3>2 DEF Row, Fingerprints
    <3>4. [size |-> row'.size, seconds |-> row'.seconds] = stat[s]
      BY <3>1, <3>2 DEF Fingerprints
    <3>5. QED
      BY <2>8, <3>1, <3>3, <3>4 DEF Store, Leave, Places, TypeOK, KnownArrived, Answered
  <2>9. CASE UNCHANGED vars
    BY <2>9 DEF vars, TypeOK, KnownArrived, Answered
  <2>10. QED
    BY <2>1, <2>2, <2>3, <2>4, <2>5, <2>6, <2>7, <2>8, <2>9 DEF Next, ScanFile
<1>3. QED
  BY <1>1, <1>2, PTL DEF Spec

\* The type invariant of the cache.
THEOREM CacheTypeCorrect == Spec => []TypeOK
BY CacheBasics, PTL

-----------------------------------------------------------------------------
SoundInv == AnswerSound /\ CacheSound

LEMMA SoundStep ==
    ASSUME TypeOK, KnownArrived, Answered, SoundInv, [Next]_vars
    PROVE  SoundInv'
<1> USE DEF SoundInv
<1>1. CASE Tick
  BY <1>1 DEF Tick, AnswerSound, CacheSound, CacheHit
<1>2. ASSUME NEW f \in File, Change(f) PROVE SoundInv'
  <2>1. /\ file' = f /\ UNCHANGED <<row, at, stat, answer>>
        /\ Fingerprint(f) \in arrived => Fingerprint(f) \in ambiguous'
    BY <1>2 DEF Change, Arrive
  <2>2. CASE Fingerprint(f) \in arrived
    BY <2>1, <2>2 DEF AnswerSound, CacheSound, Fingerprint
  <2>3. CASE Fingerprint(f) \notin arrived
    <3>1. AnswerSound'
      BY <2>1, <2>3 DEF AnswerSound, KnownArrived, Fingerprint
    <3>2. ~CacheHit'
      BY <2>1, <2>3 DEF CacheHit, KnownArrived, Fingerprint
    <3>3. QED
      BY <3>1, <3>2 DEF CacheSound
  <2>4. QED
    BY <2>2, <2>3
<1>3. CASE Delete
  BY <1>3 DEF Delete, AnswerSound, CacheSound
<1>4. CASE RemoveFile
  BY <1>4 DEF RemoveFile, AnswerSound, CacheSound, CacheHit
<1>5. ASSUME NEW s \in Scans, Lookup(s) \/ Stat(s) PROVE SoundInv'
  <2>1. /\ UNCHANGED <<file, row, ambiguous, answer>>
        /\ \A r \in Scans : at'[r] = "answered" => at[r] = "answered" /\ stat'[r] = stat[r]
    BY <1>5 DEF Lookup, Stat, Enter, TypeOK
  <2>2. QED
    BY <2>1 DEF AnswerSound, CacheSound, CacheHit
<1>6. ASSUME NEW s \in Scans, StatRaises(s) \/ NoAnswer(s) PROVE SoundInv'
  <2>1. /\ UNCHANGED <<file, row, ambiguous>>
        /\ \A r \in Scans : at'[r] = "answered" =>
              at[r] = "answered" /\ stat'[r] = stat[r] /\ answer'[r] = answer[r]
    BY <1>6 DEF StatRaises, NoAnswer, Leave, TypeOK
  <2>2. QED
    BY <2>1 DEF AnswerSound, CacheSound, CacheHit
<1>7. ASSUME NEW s \in Scans, Answer(s) PROVE SoundInv'
  <2>1. /\ UNCHANGED <<file, row, ambiguous, stat>>
        /\ file # NoFile => answer'[s] \in {file.verdict, "ERROR"}
        /\ \A r \in Scans \ {s} : at'[r] = at[r] /\ answer'[r] = answer[r]
    BY <1>7 DEF Answer, Enter, TypeOK
  <2>2. QED
    BY <2>1 DEF AnswerSound, CacheSound, CacheHit
<1>8. ASSUME NEW s \in Scans, Store(s) PROVE SoundInv'
  <2>1. /\ UNCHANGED <<file, ambiguous>> /\ at[s] = "answered"
        /\ row' = [size |-> stat[s].size, seconds |-> stat[s].seconds, status |-> answer[s]]
        /\ \A r \in Scans : at'[r] = "answered" =>
              at[r] = "answered" /\ stat'[r] = stat[r] /\ answer'[r] = answer[r]
    BY <1>8 DEF Store, Leave, TypeOK
  <2>2. AnswerSound'
    BY <2>1 DEF AnswerSound
  <2>3. CacheSound'
    <3> SUFFICES ASSUME CacheHit', file # NoFile, Fingerprint(file) \notin ambiguous
                 PROVE  row'.status \in {file.verdict, "ERROR"}
      BY <2>1 DEF CacheSound
    <3>1. stat[s].size = file.size /\ stat[s].seconds = Seconds(file.mtime)
      BY <2>1 DEF CacheHit
    <3>2. stat[s] \in Fingerprints
      BY <2>1 DEF KnownArrived, TypeOK
    <3>3. Fingerprint(file) = stat[s]
      BY <3>1, <3>2 DEF Fingerprint, Fingerprints
    <3>4. QED
      BY <2>1, <3>3 DEF AnswerSound
  <2>4. QED
    BY <2>2, <2>3
<1>9. CASE UNCHANGED vars
  BY <1>9 DEF vars, AnswerSound, CacheSound, CacheHit
<1>10. QED
  BY <1>1, <1>2, <1>3, <1>4, <1>5, <1>6, <1>7, <1>8, <1>9 DEF Next, ScanFile

\* A verdict served from the cache is the verdict on the file as it is, unless
\* two files with its size and second have been at the path: lstat() comes
\* before clamd reads the file (clamavdb.py:128-147, 196, 207).
THEOREM CacheIsSound == Spec => []CacheSound
<1>1. Init => SoundInv
  BY DEF Init, SoundInv, AnswerSound, CacheSound, CacheHit
<1>2. TypeOK /\ KnownArrived /\ Answered /\ SoundInv /\ [Next]_vars => SoundInv'
  BY SoundStep
<1>3. SoundInv => CacheSound
  BY DEF SoundInv
<1>4. QED
  BY <1>1, <1>2, <1>3, CacheBasics, PTL DEF Spec

=============================================================================
