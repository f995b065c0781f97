---------------------------- MODULE FsEventsProofs ----------------------------
(***************************************************************************)
(* For any directories, names, processes and buffers: the scanner hears of *)
(* watched paths only, and what it hears last of a file is true, but for   *)
(* the cases the properties name.                                          *)
(***************************************************************************)
EXTENDS FsEvents, FiniteSetTheorems, SequenceTheorems, TLAPS

Events == [slot : Slots, by : Processes, mask : (SUBSET Bits) \ {{}}, file : Files \cup {None}]

\* The events that are not handled yet, oldest first.
Pending == buffer \o queue

\* Slots without a file that a removal has to tell of last.
Absent == {s \in Slots : file[s] = None} \ orphaned

\* The last of the events about a slot tells of the removal when the slot is in ab, and
\* of the arrival when it is in ar, unless one jumped.
Tells(evs, ab, ar, jp) ==
    \A i \in 1..Len(evs) :
        evs[i].slot \notin jp /\ (\A j \in 1..Len(evs) : evs[j].slot = evs[i].slot => j <= i) =>
            /\ evs[i].slot \in ab => evs[i].mask \cap Departures # {}
            /\ evs[i].slot \in ar => evs[i].mask \cap Arrivals # {}

InOrder(evs, ab, ar, mx, db, jp) ==
    /\ Tells(evs, ab, ar, jp)
    /\ Mixed(evs) \subseteq mx
    /\ Doubled(evs) \subseteq db

\* Nothing is on its way about a slot.
AwaitsNone(evs, s) == \A i \in 1..Len(evs) : evs[i].slot # s

\* Two directories are never at one place, and one that was not moved is at a path.
PlacesInv ==
    /\ \A c, d \in Dirs : place[c] = place[d] /\ place[c] # Gone => c = d
    /\ \A d \in Dirs \ moved : place[d] \in Places

\* What is heard passed the filter.
AllowedInv == \A p \in DOMAIN heard : p \in Places \X Names /\ Allows(p[1], p[2])

\* What was heard last of a slot is true when nothing is on its way.
HeardInv ==
    \A s \in Slots : s[1] \notin moved /\ s \notin jumped /\ AwaitsNone(Pending, s) =>
        /\ s \in arrived /\ Allows(place[s[1]], s[2]) /\ ~(flavour = "C" /\ s \in mixed) =>
              Heard(s) = "scan"
        /\ s \in Absent /\ ~(flavour = "Go" /\ s \in mixed \cup doubled) => Heard(s) # "scan"

EInv ==
    /\ TypeOK
    /\ queue \in Seq(Events) /\ buffer \in Seq(Events)
    /\ PlacesInv
    /\ InOrder(Pending, Absent, arrived, mixed, doubled, jumped)
    /\ AllowedInv
    /\ HeardInv

-----------------------------------------------------------------------------
(* Paths as text *)

Letters == STRING \ {"/"}
Characters == Letters \cup {"/"}

\* A prefix, character by character.
LEMMA PrefixMeans ==
    ASSUME NEW s \in Seq(Characters), NEW t \in Seq(Characters)
    PROVE  IsPrefix(s, t) <=> Len(s) <= Len(t) /\ \A i \in 1..Len(s) : s[i] = t[i]
<1>1. Len(s) \in Nat /\ Len(t) \in Nat
  OBVIOUS
<1>2. SubSeq(s, 1, Len(s)) = s
  BY SubSeqFull
<1>3. ASSUME Len(s) <= Len(t)
      PROVE  /\ SubSeq(t, 1, Len(s)) \in Seq(Characters)
             /\ Len(SubSeq(t, 1, Len(s))) = Len(s)
             /\ \A i \in 1..Len(s) : SubSeq(t, 1, Len(s))[i] = t[i]
  BY <1>1, <1>3
<1>4. ASSUME Len(s) <= Len(t), \A i \in 1..Len(s) : s[i] = t[i]
      PROVE  s = SubSeq(t, 1, Len(s))
  BY <1>3, <1>4, SeqEqual
<1>5. QED
  BY <1>2, <1>3, <1>4 DEF IsPrefix

\* A slash at the end, and a name after it.
LEMMA SlashAdded ==
    ASSUME NEW u \in Seq(Characters)
    PROVE  /\ u \o <<"/">> \in Seq(Characters)
           /\ Len(u \o <<"/">>) = Len(u) + 1
           /\ \A i \in 1..Len(u) : (u \o <<"/">>)[i] = u[i]
           /\ (u \o <<"/">>)[Len(u) + 1] = "/"
<1>1. <<"/">> \in Seq(Characters) /\ Len(<<"/">>) = 1 /\ <<"/">>[1] = "/"
  <2>1. "/" \in Characters
    BY DEF Characters
  <2>2. QED
    BY <2>1
<1>2. /\ u \o <<"/">> \in Seq(Characters) /\ Len(u \o <<"/">>) = Len(u) + Len(<<"/">>)
      /\ \A i \in 1..(Len(u) + Len(<<"/">>)) :
            (u \o <<"/">>)[i] = IF i <= Len(u) THEN u[i] ELSE <<"/">>[i - Len(u)]
  BY <1>1, ConcatProperties, Zenon
<1> DEFINE u1 == u \o <<"/">>
           one == <<"/">>
<1> HIDE DEF u1, one
<1>3. Len(u) \in Nat
  OBVIOUS
<1>4. /\ u1 \in Seq(Characters) /\ Len(u1) = Len(u) + 1
      /\ \A i \in 1..(Len(u) + 1) : u1[i] = IF i <= Len(u) THEN u[i] ELSE one[i - Len(u)]
      /\ one[1] = "/"
  BY <1>1, <1>2 DEF u1, one
<1>5. /\ \A i \in 1..Len(u) : u1[i] = u[i]
      /\ u1[Len(u) + 1] = "/"
  BY <1>3, <1>4
<1>6. QED
  BY <1>4, <1>5 DEF u1

\* A name is put after a text, and has no slash.
LEMMA NameAdded ==
    ASSUME NEW u \in Seq(Characters), NEW n \in Seq(Letters)
    PROVE  /\ u \o n \in Seq(Characters)
           /\ Len(u \o n) = Len(u) + Len(n)
           /\ \A i \in 1..Len(u) : (u \o n)[i] = u[i]
           /\ \A i \in 1..(Len(u) + Len(n)) : i > Len(u) => (u \o n)[i] # "/"
<1>1. n \in Seq(Characters)
  BY SeqMonotonic DEF Characters
<1>2. /\ u \o n \in Seq(Characters) /\ Len(u \o n) = Len(u) + Len(n)
      /\ \A i \in 1..(Len(u) + Len(n)) : (u \o n)[i] = IF i <= Len(u) THEN u[i] ELSE n[i - Len(u)]
  BY <1>1, ConcatProperties
<1>3. ASSUME NEW i \in 1..(Len(u) + Len(n)), i > Len(u)
      PROVE  (u \o n)[i] # "/"
  <2>1. i - Len(u) \in 1..Len(n)
    BY <1>3
  <2>2. n[i - Len(u)] \in Letters /\ "/" \notin Letters
    BY <2>1, ElementOfSeq DEF Letters
  <2>3. QED
    BY <1>2, <1>3, <2>2
<1>4. QED
  BY <1>2, <1>3

\* A name does not matter after a slash, when compared with a text that ends in one.
LEMMA NameDoesNotMatter ==
    ASSUME NEW t \in Seq(Characters), NEW u \in Seq(Characters), NEW n \in Seq(Letters)
    PROVE  IsPrefix(t \o <<"/">>, u \o <<"/">> \o n) <=> IsPrefix(t \o <<"/">>, u \o <<"/">>)
<1> DEFINE t1 == t \o <<"/">>
           u1 == u \o <<"/">>
<1>1. /\ t1 \in Seq(Characters) /\ Len(t1) = Len(t) + 1 /\ t1[Len(t) + 1] = "/"
      /\ u1 \in Seq(Characters) /\ Len(u1) = Len(u) + 1
      /\ Len(t) \in Nat /\ Len(u) \in Nat /\ Len(n) \in Nat
  BY SlashAdded
<1>2. /\ u1 \o n \in Seq(Characters) /\ Len(u1 \o n) = Len(u1) + Len(n)
      /\ \A i \in 1..Len(u1) : (u1 \o n)[i] = u1[i]
      /\ \A i \in 1..(Len(u1) + Len(n)) : i > Len(u1) => (u1 \o n)[i] # "/"
  BY <1>1, NameAdded
<1>3. IsPrefix(t1, u1 \o n) <=> Len(t1) <= Len(u1 \o n) /\ \A i \in 1..Len(t1) : t1[i] = (u1 \o n)[i]
  BY <1>1, <1>2, PrefixMeans
<1>4. IsPrefix(t1, u1) <=> Len(t1) <= Len(u1) /\ \A i \in 1..Len(t1) : t1[i] = u1[i]
  BY <1>1, PrefixMeans
<1> HIDE DEF t1, u1
<1>5. ASSUME IsPrefix(t1, u1 \o n)
      PROVE  Len(t1) <= Len(u1)
  <2>1. Len(t1) \in 1..Len(t1) /\ t1[Len(t1)] = "/"
    BY <1>1
  <2>2. (u1 \o n)[Len(t1)] = "/"
    BY <1>3, <1>5, <2>1
  <2>3. Len(t1) \in 1..(Len(u1) + Len(n))
    BY <1>1, <1>2, <1>3, <1>5
  <2>4. ~(Len(t1) > Len(u1))
    BY <1>2, <2>2, <2>3
  <2>5. QED
    BY <1>1, <2>4
<1>6. IsPrefix(t1, u1 \o n) => IsPrefix(t1, u1)
  BY <1>1, <1>2, <1>3, <1>4, <1>5
<1>7. IsPrefix(t1, u1) => IsPrefix(t1, u1 \o n)
  BY <1>1, <1>2, <1>3, <1>4
<1>8. QED
  BY <1>6, <1>7 DEF t1, u1

\* allowPath()'s two cases are one prefix, when both texts get a slash.
LEMMA BelowOrEqual ==
    ASSUME NEW t \in Seq(Characters), NEW u \in Seq(Characters)
    PROVE  IsPrefix(t \o <<"/">>, u) \/ u = t <=> IsPrefix(t \o <<"/">>, u \o <<"/">>)
<1> DEFINE t1 == t \o <<"/">>
           u1 == u \o <<"/">>
<1>1. /\ t1 \in Seq(Characters) /\ Len(t1) = Len(t) + 1 /\ t1[Len(t) + 1] = "/"
      /\ \A i \in 1..Len(t) : t1[i] = t[i]
      /\ u1 \in Seq(Characters) /\ Len(u1) = Len(u) + 1 /\ u1[Len(u) + 1] = "/"
      /\ \A i \in 1..Len(u) : u1[i] = u[i]
      /\ Len(t) \in Nat /\ Len(u) \in Nat
  BY SlashAdded
<1>2. IsPrefix(t1, u) <=> Len(t1) <= Len(u) /\ \A i \in 1..Len(t1) : t1[i] = u[i]
  BY <1>1, PrefixMeans
<1>3. IsPrefix(t1, u1) <=> Len(t1) <= Len(u1) /\ \A i \in 1..Len(t1) : t1[i] = u1[i]
  BY <1>1, PrefixMeans
<1>4. u = t => u1 = t1
  OBVIOUS
<1> HIDE DEF t1, u1
<1>5. IsPrefix(t1, u) => IsPrefix(t1, u1)
  BY <1>1, <1>2, <1>3
<1>6. u = t => IsPrefix(t1, u1)
  BY <1>1, <1>3, <1>4
<1>7. ASSUME IsPrefix(t1, u1), Len(t1) <= Len(u)
      PROVE  IsPrefix(t1, u)
  BY <1>1, <1>2, <1>3, <1>7
<1>8. ASSUME IsPrefix(t1, u1), ~(Len(t1) <= Len(u))
      PROVE  u = t
  <2>1. Len(u) = Len(t) /\ \A i \in 1..Len(t) : u[i] = t[i]
    BY <1>1, <1>3, <1>8
  <2>2. QED
    BY <2>1, SeqEqual
<1>9. QED
  BY <1>5, <1>6, <1>7, <1>8 DEF t1, u1

\* The filters let through what is below the watched path, except that Go's asks for
\* two slashes below the root.
LEMMA FiltersAreRight ==
    ASSUME flavour \in Flavours, watch \in WatchPaths, NEW p \in Places, NEW n \in Names
    PROVE  /\ Allows(p, n) => IsPrefix(watch, p)
           /\ IsPrefix(watch, p) => Allows(p, n) \/ (flavour = "Go" /\ watch = <<>> /\ p # <<>>)
<1>1. /\ flavour \in {"C", "Go"} /\ watch \in Places
      /\ watch \in Seq(Seq(Letters) \ {<<>>}) /\ p \in Seq(Seq(Letters) \ {<<>>}) /\ n \in Seq(Letters)
  BY EventsAssumption DEF Letters
<1>2. /\ Text[watch] \in Seq(Characters) /\ Text[watch] # <<>> /\ Head(Text[watch]) = "/"
      /\ Text[p] \in Seq(Characters) /\ Text[p] # <<>> /\ Head(Text[p]) = "/"
      /\ Len(Text[watch]) > 1 <=> watch # <<>>
      /\ Len(Text[p]) > 1 <=> p # <<>>
  <2>1. \A t \in Seq(STRING) : t \in Seq(Characters)
    BY SeqMonotonic DEF Characters, Letters
  <2>2. QED
    BY <1>1, <2>1, TextAssumption
<1>3. CASE watch = <<>>
  <2>1. IsPrefix(watch, p)
    BY <1>1, <1>3 DEF IsPrefix
  <2>2. CAllows(p, n)
    <3>1. \A t \in Seq(Characters) :
             t # <<>> /\ Head(t) = "/" => Len(t) \in Nat /\ Len(t) >= 1 /\ t[1] = "/"
      OBVIOUS
    <3>2. /\ Len(Text[watch]) \in Nat /\ Len(Text[watch]) >= 1 /\ Text[watch][1] = "/"
          /\ Len(Text[p]) \in Nat /\ Len(Text[p]) >= 1 /\ Text[p][1] = "/"
      BY <1>2, <3>1, Zenon
    <3>3. Len(Text[watch]) = 1
      <4>1. ~(Len(Text[watch]) > 1)
        BY <1>2, <1>3
      <4>2. Len(Text[watch]) \in Nat /\ Len(Text[watch]) >= 1
        BY <3>2, Zenon
      <4>3. \A k \in Nat : k >= 1 /\ ~(k > 1) => k = 1
        OBVIOUS
      <4>4. QED
        BY <4>1, <4>2, <4>3, Zenon
    <3> DEFINE u1 == Text[p] \o <<"/">>
    <3>4. u1 \in Seq(Characters) /\ Len(u1) = Len(Text[p]) + 1 /\ u1[1] = Text[p][1]
      BY <1>2, <3>2, SlashAdded
    <3> HIDE DEF u1
    <3> DEFINE un == u1 \o n
    <3>5. /\ un \in Seq(Characters) /\ Len(un) = Len(u1) + Len(n)
          /\ \A i \in 1..Len(u1) : un[i] = u1[i]
      BY <1>1, <3>4, NameAdded
    <3> HIDE DEF un
    <3>6. Len(n) \in Nat
      BY <1>1
    <3>7. un \in Seq(Characters) /\ Len(un) >= 1 /\ un[1] = Text[p][1]
      BY <3>2, <3>4, <3>5, <3>6
    <3>8. IsPrefix(Text[watch], un)
      <4>1. \A i \in 1..Len(Text[watch]) : Text[watch][i] = un[i]
        BY <3>2, <3>3, <3>7
      <4>2. QED
        BY <1>2, <3>3, <3>7, <4>1, PrefixMeans
    <3>9. QED
      BY <1>2, <1>3, <3>8 DEF CAllows, u1, un
  <2>3. p = <<>> => GoAllows(p, n)
    BY <1>3 DEF GoAllows
  <2>4. QED
    BY <1>1, <1>3, <2>1, <2>2, <2>3 DEF Allows
<1>4. CASE watch # <<>>
  <2>1. IsPrefix(Text[watch] \o <<"/">>, Text[p] \o <<"/">>) <=> IsPrefix(watch, p)
    BY <1>1, <1>4, TextAssumption
  <2>2. CAllows(p, n) <=> IsPrefix(Text[watch] \o <<"/">>, Text[p] \o <<"/">> \o n)
    BY <1>2, <1>4 DEF CAllows
  <2>3. CAllows(p, n) <=> IsPrefix(watch, p)
    BY <1>1, <1>2, <2>1, <2>2, NameDoesNotMatter
  <2>4. GoAllows(p, n) <=> IsPrefix(watch, p)
    BY <1>2, <2>1, BelowOrEqual DEF GoAllows
  <2>5. QED
    BY <1>1, <2>3, <2>4 DEF Allows
<1>5. QED
  BY <1>3, <1>4

-----------------------------------------------------------------------------
(* Masks *)

\* The C watcher finds a departure whenever there is one.
LEMMA COperationIsRight ==
    ASSUME NEW mask \in SUBSET Bits, mask # {}
    PROVE  IF mask \cap Departures # {} THEN COperation(mask) \in {"remove", "move_from"}
                                       ELSE COperation(mask) \in {"close_for_write", "move_to"}
<1> DEFINE k == CHOOSE i \in Tested(mask) : \A j \in Tested(mask) : j <= i
<1>1. \A i : i \in Tested(mask) <=> i \in 1..4 /\ Tests[i] \in mask
  BY DEF Tested, Tests
<1>2. /\ Tests[1] = "CLOSE_WRITE" /\ Tests[2] = "MOVED_TO"
      /\ Tests[3] = "DELETE" /\ Tests[4] = "MOVED_FROM"
  BY DEF Tests
<1>3. 1 \in Tested(mask) \/ 2 \in Tested(mask) \/ 3 \in Tested(mask) \/ 4 \in Tested(mask)
  <2>1. "CLOSE_WRITE" \in mask \/ "MOVED_TO" \in mask \/ "DELETE" \in mask \/ "MOVED_FROM" \in mask
    BY DEF Bits, Departures, Arrivals
  <2>2. 1 \in 1..4 /\ 2 \in 1..4 /\ 3 \in 1..4 /\ 4 \in 1..4
    OBVIOUS
  <2>3. QED
    BY <1>1, <1>2, <2>1, <2>2, Zenon
<1>4. \E i \in Tested(mask) : \A j \in Tested(mask) : j <= i
  <2>1. \A i \in Tested(mask) : i = 1 \/ i = 2 \/ i = 3 \/ i = 4
    BY <1>1
  <2>2. QED
    BY <1>3, <2>1
<1>5. k \in Tested(mask) /\ \A j \in Tested(mask) : j <= k
  BY <1>4
<1>6. COperation(mask) = Word[Tests[k]]
  BY DEF COperation
<1> HIDE DEF k
<1>7. mask \cap Departures # {} => k \in {3, 4}
  <2>1. mask \cap Departures # {} => 3 \in Tested(mask) \/ 4 \in Tested(mask)
    BY <1>1, <1>2 DEF Departures
  <2>2. QED
    BY <1>1, <1>5, <2>1
<1>8. mask \cap Departures = {} => k \in {1, 2}
  <2>1. mask \cap Departures = {} => 3 \notin Tested(mask) /\ 4 \notin Tested(mask)
    BY <1>1, <1>2 DEF Departures
  <2>2. QED
    BY <1>1, <1>5, <2>1
<1>9. QED
  BY <1>2, <1>6, <1>7, <1>8 DEF Word

\* The Go watcher tells single bits.
LEMMA GoOperationIsRight ==
    ASSUME NEW mask \in SUBSET Bits, mask # {}
    PROVE  /\ \A b : mask = {b} => GoOperation(mask) = Word[b]
           /\ GoOperation(mask) = "multiple" \/ \E b \in Bits : mask = {b}
<1>1. ASSUME NEW b, mask = {b}
      PROVE  GoOperation(mask) = Word[b]
  <2>1. Cardinality(mask) = 1
    BY <1>1, FS_Singleton
  <2>2. (CHOOSE c \in mask : TRUE) = b
    BY <1>1
  <2>3. QED
    <3>1. ~(Cardinality(mask) > 1)
      BY <2>1
    <3>2. QED
      BY <2>2, <3>1, Zenon DEF GoOperation
<1>2. ASSUME ~(Cardinality(mask) > 1)
      PROVE  \E b \in Bits : mask = {b}
  <2>1. IsFiniteSet(Bits)
    <3>1. ASSUME NEW a, NEW b
          PROVE  IsFiniteSet({a, b})
      <4>1. IsFiniteSet({a} \cup {b})
        BY FS_Singleton, FS_Union
      <4>2. {a, b} = {a} \cup {b}
        OBVIOUS
      <4>3. QED
        BY <4>1, <4>2
    <3>2. IsFiniteSet(Departures) /\ IsFiniteSet(Arrivals)
      BY <3>1 DEF Departures, Arrivals
    <3>3. QED
      BY <3>2, FS_Union DEF Bits
  <2>2. IsFiniteSet(mask) /\ Cardinality(mask) \in Nat
    BY <2>1, FS_Subset, FS_CardinalityType
  <2>3. Cardinality(mask) # 0
    BY <2>2, FS_EmptySet
  <2>4. Cardinality(mask) = 1
    BY <1>2, <2>2, <2>3
  <2>5. QED
    BY <2>2, <2>4, FS_Singleton
<1>3. QED
  BY <1>1, <1>2 DEF GoOperation

\* What the scanner does about a mask that does not mislead the watcher.
LEMMA ReactionIsRight ==
    ASSUME flavour \in Flavours, NEW mask \in SUBSET Bits, mask # {}
    PROVE  /\ Reaction(Operation(mask)) \in {"scan", "remove"}
           /\ mask \cap Arrivals # {} /\ ~(flavour = "C" /\ mask \cap Departures # {}) =>
                 Reaction(Operation(mask)) = "scan"
           /\ mask \cap Departures # {}
              /\ ~(flavour = "Go" /\ (mask \cap Arrivals # {} \/ Departures \subseteq mask)) =>
                 Reaction(Operation(mask)) = "remove"
<1>1. Reaction(Operation(mask)) \in {"scan", "remove"}
  BY DEF Reaction
<1>2. CASE flavour = "C"
  BY <1>1, <1>2, COperationIsRight DEF Operation, Reaction
<1>3. CASE flavour = "Go"
  <2>1. \A b \in Bits : /\ b \in Arrivals => Word[b] \in {"close_for_write", "move_to"}
                        /\ b \in Departures => Word[b] \in {"remove", "move_from"}
    BY DEF Bits, Arrivals, Departures, Word
  <2>2. ASSUME NEW b \in Bits, mask = {b}
        PROVE  Operation(mask) = Word[b]
    BY <1>3, <2>2, GoOperationIsRight DEF Operation
  <2>3. CASE \E b \in Bits : mask = {b}
    <3>1. PICK b \in Bits : mask = {b}
      BY <2>3
    <3>2. Operation(mask) = Word[b]
      BY <2>2, <3>1
    <3>3. QED
      BY <1>1, <2>1, <3>1, <3>2 DEF Reaction
  <2>4. CASE ~\E b \in Bits : mask = {b}
    <3>1. Operation(mask) = "multiple"
      BY <1>3, <2>4, GoOperationIsRight DEF Operation
    <3>2. ASSUME mask \cap Arrivals = {}
          PROVE  Departures \subseteq mask
      <4>1. mask # {"DELETE"} /\ mask # {"MOVED_FROM"}
        BY <2>4 DEF Bits, Departures
      <4>2. mask \subseteq {"DELETE", "MOVED_FROM"}
        BY <3>2 DEF Bits, Arrivals, Departures
      <4>3. "DELETE" \in mask /\ "MOVED_FROM" \in mask
        BY <4>1, <4>2
      <4>4. QED
        BY <4>3 DEF Departures
    <3>3. QED
      BY <1>3, <3>1, <3>2 DEF Reaction
  <2>5. QED
    BY <2>3, <2>4
<1>4. QED
  BY <1>2, <1>3, EventsAssumption

-----------------------------------------------------------------------------
(* The queue *)

\* The events new are evs with e put into one of them or at the end; an event that
\* was not the last one about its slot is in jp.
Extended(evs, e, new, jp) ==
    \E i \in 1..Len(new) :
        /\ Len(new) \in {Len(evs), Len(evs) + 1}
        /\ 1..Len(new) = 1..Len(evs) \cup {i}
        /\ new[i].slot = e.slot
        /\ new[i].mask = e.mask \cup (IF i \in 1..Len(evs) THEN evs[i].mask ELSE {})
        /\ \A j \in 1..Len(evs) : /\ new[j].slot = evs[j].slot
                                  /\ j # i => new[j].mask = evs[j].mask
        /\ e.slot \in jp \/ \A j \in 1..Len(evs) : evs[j].slot = e.slot => j <= i

\* The new event, or the one it was merged into, is the last for its slot, or the slot jumped.
LEMMA QueuedExtends ==
    ASSUME NEW evs \in Seq(Events), NEW e \in Events, NEW new \in Queued(evs, e)
    PROVE  new \in Seq(Events) /\ Extended(evs, e, new, Overtaken(evs, e, new))
<1>1. Len(evs) \in Nat /\ DOMAIN evs = 1..Len(evs) /\ \A i \in 1..Len(evs) : evs[i] \in Events
  OBVIOUS
<1>2. CASE new = Append(evs, e)
  <2>1. /\ new \in Seq(Events) /\ Len(new) = Len(evs) + 1 /\ new[Len(evs) + 1] = e
        /\ \A j \in 1..Len(evs) : new[j] = evs[j]
    BY <1>2
  <2>2. 1..Len(new) = 1..Len(evs) \cup {Len(evs) + 1} /\ Len(evs) + 1 \notin 1..Len(evs)
    BY <1>1, <2>1
  <2>3. QED
    BY <1>1, <2>1, <2>2 DEF Extended
<1>3. CASE \E i \in Mergeable(evs, e) : /\ \A k \in Mergeable(evs, e) : k <= i
                                        /\ new = [evs EXCEPT ![i].mask = @ \cup e.mask]
  <2>1. PICK i \in Mergeable(evs, e) : /\ \A k \in Mergeable(evs, e) : k <= i
                                      /\ new = [evs EXCEPT ![i].mask = @ \cup e.mask]
    BY <1>3
  <2>2. i \in 1..Len(evs) /\ evs[i].slot = e.slot /\ evs[i] \in Events
    <3>1. i \in 1..Len(evs) /\ [evs[i] EXCEPT !.mask = {}] = [e EXCEPT !.mask = {}]
      BY <1>1 DEF Mergeable
    <3>2. evs[i] \in Events
      BY <1>1, <3>1
    <3>3. [evs[i] EXCEPT !.mask = {}].slot = evs[i].slot /\ [e EXCEPT !.mask = {}].slot = e.slot
      BY <3>2 DEF Events
    <3>4. QED
      BY <3>1, <3>2, <3>3
  <2> DEFINE m == [evs[i] EXCEPT !.mask = evs[i].mask \cup e.mask]
  <2>3. m \in Events /\ m.slot = e.slot /\ m.mask = evs[i].mask \cup e.mask
    BY <2>2 DEF Events
  <2>4. new = [evs EXCEPT ![i] = m]
    BY <2>1
  <2> HIDE DEF m
  <2>5. /\ new \in Seq(Events) /\ Len(new) = Len(evs)
        /\ \A j \in 1..Len(evs) : new[j] = IF j = i THEN m ELSE evs[j]
    BY <2>2, <2>3, <2>4, ExceptSeq
  <2>6. e.slot \in Overtaken(evs, e, new) \/ \A j \in 1..Len(evs) : evs[j].slot = e.slot => j <= i
    <3>1. SUFFICES ASSUME NEW j \in 1..Len(evs), evs[j].slot = e.slot, ~(j <= i)
                   PROVE  e.slot \in Overtaken(evs, e, new)
      OBVIOUS
    <3>2. Mergeable(evs, e) \subseteq Nat
      BY <1>1 DEF Mergeable
    <3>3. \A k \in Mergeable(evs, e) : k < j
      BY <2>1, <2>2, <3>1, <3>2
    <3>4. QED
      BY <1>1, <2>5, <3>1, <3>3 DEF Overtaken
  <2>7. QED
    BY <1>1, <2>2, <2>3, <2>5, <2>6 DEF Extended
<1>4. QED
  BY <1>2, <1>3 DEF Queued

\* The same, with the events that were read before.
LEMMA ExtendedAfter ==
    ASSUME NEW bf \in Seq(Events), NEW evs \in Seq(Events), NEW new \in Seq(Events),
           NEW e \in Events, NEW jp, Extended(evs, e, new, jp)
    PROVE  Extended(bf \o evs, e, bf \o new, jp)
<1> DEFINE old2 == bf \o evs
           new2 == bf \o new
           b == Len(bf)
           n == Len(evs)
<1>1. b \in Nat /\ n \in Nat /\ Len(new) \in Nat
  OBVIOUS
<1>2. /\ Len(old2) = b + n
      /\ \A j \in 1..(b + n) : old2[j] = IF j <= b THEN bf[j] ELSE evs[j - b]
      /\ Len(new2) = b + Len(new)
      /\ \A j \in 1..(b + Len(new)) : new2[j] = IF j <= b THEN bf[j] ELSE new[j - b]
  BY ConcatProperties
<1>3. PICK i \in 1..Len(new) :
        /\ Len(new) \in {n, n + 1}
        /\ 1..Len(new) = 1..n \cup {i}
        /\ new[i].slot = e.slot
        /\ new[i].mask = e.mask \cup (IF i \in 1..n THEN evs[i].mask ELSE {})
        /\ \A j \in 1..n : /\ new[j].slot = evs[j].slot
                           /\ j # i => new[j].mask = evs[j].mask
        /\ e.slot \in jp \/ \A j \in 1..n : evs[j].slot = e.slot => j <= i
  BY DEF Extended
<1> HIDE DEF old2, new2, b, n
<1>4. i \in Nat /\ i >= 1 /\ (i \in 1..n \/ (i = n + 1 /\ Len(new) = n + 1))
  BY <1>1, <1>3
<1>5. /\ b + i \in 1..Len(new2) /\ new2[b + i] = new[i]
      /\ i \in 1..n => old2[b + i] = evs[i]
      /\ i \in 1..n <=> b + i \in 1..Len(old2)
  BY <1>1, <1>2, <1>4
<1>6. 1..Len(new2) = 1..Len(old2) \cup {b + i} /\ Len(new2) \in {Len(old2), Len(old2) + 1}
  <2>1. CASE i \in 1..n
    <3>1. Len(new) = n
      <4>1. n + 1 \in 1..(n + 1) /\ n + 1 \notin 1..n
        BY <1>1
      <4>2. 1..Len(new) = 1..n
        BY <1>3, <2>1
      <4>3. QED
        BY <1>3, <4>1, <4>2
    <3>2. Len(new2) = Len(old2)
      BY <1>2, <3>1
    <3>3. QED
      BY <1>5, <2>1, <3>2
  <2>2. CASE i = n + 1 /\ Len(new) = n + 1
    <3>1. Len(new2) = Len(old2) + 1 /\ b + i = Len(old2) + 1 /\ Len(old2) \in Nat
      BY <1>1, <1>2, <2>2
    <3>2. QED
      BY <3>1
  <2>3. QED
    BY <1>4, <2>1, <2>2
<1>7. /\ new2[b + i].slot = e.slot
      /\ new2[b + i].mask = e.mask \cup (IF b + i \in 1..Len(old2) THEN old2[b + i].mask ELSE {})
  BY <1>3, <1>5
<1>8. ASSUME NEW j \in 1..Len(old2)
      PROVE  /\ new2[j].slot = old2[j].slot
             /\ j # b + i => new2[j].mask = old2[j].mask
  <2>1. CASE j <= b
    <3>1. j \in 1..(b + n) /\ j \in 1..(b + Len(new)) /\ j # b + i
      BY <1>1, <1>2, <1>3, <1>4, <2>1
    <3>2. old2[j] = bf[j] /\ new2[j] = bf[j]
      BY <1>2, <2>1, <3>1
    <3>3. QED
      BY <3>2
  <2>2. CASE ~(j <= b)
    <3>1. j - b \in 1..n /\ j \in 1..(b + n) /\ j \in 1..(b + Len(new)) /\ (j # b + i => j - b # i)
      BY <1>1, <1>2, <1>3, <1>4, <2>2
    <3>2. old2[j] = evs[j - b] /\ new2[j] = new[j - b]
      BY <1>2, <2>2, <3>1
    <3>3. QED
      BY <1>3, <3>1, <3>2
  <2>3. QED
    BY <2>1, <2>2
<1>9. ASSUME e.slot \notin jp, NEW j \in 1..Len(old2), old2[j].slot = e.slot
      PROVE  j <= b + i
  <2>1. CASE j <= b
    BY <1>1, <1>2, <1>4, <2>1
  <2>2. CASE ~(j <= b)
    <3>1. j - b \in 1..n /\ old2[j] = evs[j - b]
      BY <1>1, <1>2, <2>2
    <3>2. j - b <= i
      BY <1>3, <1>9, <3>1
    <3>3. QED
      BY <1>1, <1>2, <1>4, <3>2
  <2>3. QED
    BY <2>1, <2>2
<1>10. QED
  BY <1>5, <1>6, <1>7, <1>8, <1>9, Zenon DEF Extended, old2, new2

\* The event e tells the truth about its slot when the slots that miss a file are ab, and
\* those where one arrived are ar.
Reports(e, ab, ar) ==
    \E b \in Bits : /\ e.mask = {b}
                    /\ e.slot \in ab => b \in Departures
                    /\ e.slot \in ar => b \in Arrivals

\* When an event has come in, the last one of each slot tells the truth.
LEMMA ExtendedTells ==
    ASSUME NEW evs \in Seq(Events), NEW new \in Seq(Events), NEW e \in Events,
           NEW jp, NEW jp2, jp \subseteq jp2, Extended(evs, e, new, jp2),
           NEW ab, NEW ar, NEW ab2, NEW ar2, Reports(e, ab2, ar2),
           ab2 \subseteq ab \cup {e.slot}, ar2 \subseteq ar \cup {e.slot},
           Tells(evs, ab, ar, jp)
    PROVE  Tells(new, ab2, ar2, jp2)
<1>1. PICK b \in Bits : /\ e.mask = {b}
                        /\ e.slot \in ab2 => b \in Departures
                        /\ e.slot \in ar2 => b \in Arrivals
  BY DEF Reports
<1>2. PICK i \in 1..Len(new) :
        /\ 1..Len(new) = 1..Len(evs) \cup {i}
        /\ new[i].slot = e.slot
        /\ new[i].mask = e.mask \cup (IF i \in 1..Len(evs) THEN evs[i].mask ELSE {})
        /\ \A j \in 1..Len(evs) : /\ new[j].slot = evs[j].slot
                                  /\ j # i => new[j].mask = evs[j].mask
        /\ e.slot \in jp2 \/ \A j \in 1..Len(evs) : evs[j].slot = e.slot => j <= i
  BY Zenon DEF Extended
<1>3. SUFFICES ASSUME NEW k \in 1..Len(new), new[k].slot \notin jp2,
                      \A j \in 1..Len(new) : new[j].slot = new[k].slot => j <= k
               PROVE  /\ new[k].slot \in ab2 => new[k].mask \cap Departures # {}
                      /\ new[k].slot \in ar2 => new[k].mask \cap Arrivals # {}
  BY Zenon DEF Tells
<1>4. k \in Nat /\ i \in Nat
  OBVIOUS
<1>5. CASE new[k].slot = e.slot
  <2>1. i <= k
    BY <1>2, <1>3, <1>5
  <2>2. k # i => k \in 1..Len(evs) /\ evs[k].slot = e.slot
    BY <1>2, <1>5
  <2>3. k = i
    BY <1>2, <1>3, <1>4, <1>5, <2>1, <2>2
  <2>4. b \in new[k].mask
    BY <1>1, <1>2, <2>3
  <2>5. QED
    BY <1>1, <1>5, <2>4
<1>6. CASE new[k].slot # e.slot
  <2>1. k # i /\ k \in 1..Len(evs)
    BY <1>2, <1>6
  <2>2. new[k].slot = evs[k].slot /\ new[k].mask = evs[k].mask
    BY <1>2, <2>1
  <2>3. \A j \in 1..Len(evs) : evs[j].slot = evs[k].slot => j <= k
    BY <1>2, <1>3, <2>2
  <2>4. /\ evs[k].slot \in ab => evs[k].mask \cap Departures # {}
        /\ evs[k].slot \in ar => evs[k].mask \cap Arrivals # {}
    BY <1>3, <2>1, <2>2, <2>3 DEF Tells
  <2>5. QED
    BY <1>6, <2>2, <2>4
<1>7. QED
  BY <1>5, <1>6

\* Events with two bits keep them.
LEMMA BothGrows ==
    ASSUME NEW evs \in Seq(Events), NEW new \in Seq(Events), NEW e, NEW jp, NEW B, NEW C,
           Extended(evs, e, new, jp)
    PROVE  Both(evs, B, C) \subseteq Both(new, B, C)
<1>1. DOMAIN evs = 1..Len(evs) /\ DOMAIN new = 1..Len(new)
  OBVIOUS
<1>2. \A j \in 1..Len(evs) : /\ j \in 1..Len(new) /\ new[j].slot = evs[j].slot
                            /\ evs[j].mask \subseteq new[j].mask
  <2>1. PICK i \in 1..Len(new) :
          /\ 1..Len(new) = 1..Len(evs) \cup {i}
          /\ new[i].mask = e.mask \cup (IF i \in 1..Len(evs) THEN evs[i].mask ELSE {})
          /\ \A j \in 1..Len(evs) : /\ new[j].slot = evs[j].slot
                                    /\ j # i => new[j].mask = evs[j].mask
    BY Zenon DEF Extended
  <2>2. QED
    BY <2>1
<1>3. QED
  BY <1>1, <1>2 DEF Both

\* Such an event was read or is in the queue.
LEMMA BothOfTwo ==
    ASSUME NEW bf \in Seq(Events), NEW evs \in Seq(Events), NEW B, NEW C
    PROVE  /\ Both(bf \o evs, B, C) \subseteq Both(bf, B, C) \cup Both(evs, B, C)
           /\ Both(bf, B, C) \cup Both(evs, B, C) \subseteq Both(bf \o evs, B, C)
<1> DEFINE all == bf \o evs
<1>1. /\ Len(bf) \in Nat /\ Len(evs) \in Nat /\ Len(all) = Len(bf) + Len(evs)
      /\ \A j \in 1..(Len(bf) + Len(evs)) : all[j] = IF j <= Len(bf) THEN bf[j] ELSE evs[j - Len(bf)]
      /\ DOMAIN bf = 1..Len(bf) /\ DOMAIN evs = 1..Len(evs) /\ DOMAIN all = 1..(Len(bf) + Len(evs))
  BY ConcatProperties
<1> HIDE DEF all
<1>2. ASSUME NEW j \in DOMAIN all
      PROVE  \/ j \in DOMAIN bf /\ all[j] = bf[j]
             \/ j - Len(bf) \in DOMAIN evs /\ all[j] = evs[j - Len(bf)]
  BY <1>1
<1>3. ASSUME NEW j \in DOMAIN bf
      PROVE  j \in DOMAIN all /\ all[j] = bf[j]
  BY <1>1
<1>4. ASSUME NEW j \in DOMAIN evs
      PROVE  Len(bf) + j \in DOMAIN all /\ all[Len(bf) + j] = evs[j]
  BY <1>1
<1>5. Both(all, B, C) \subseteq Both(bf, B, C) \cup Both(evs, B, C)
  BY <1>2 DEF Both
<1>6. Both(bf, B, C) \cup Both(evs, B, C) \subseteq Both(all, B, C)
  BY <1>3, <1>4 DEF Both
<1>7. QED
  BY <1>5, <1>6 DEF all

\* The event e comes into evs, which becomes new; of ab and ar become ab2 and ar2, and
\* what is remembered grows likewise; bf was read before.
Comes(bf, evs, e, new, ab, ab2, ar, ar2, mx, mx2, db, db2, jp, jp2) ==
    /\ bf \in Seq(Events) /\ evs \in Seq(Events) /\ e \in Events
    /\ new \in Queued(evs, e)
    /\ Reports(e, ab2, ar2)
    /\ ab2 \subseteq ab \cup {e.slot} /\ ar2 \subseteq ar \cup {e.slot}
    /\ mx \cup Mixed(new) \subseteq mx2
    /\ db \cup Doubled(new) \subseteq db2
    /\ jp \cup Overtaken(evs, e, new) \subseteq jp2
    /\ InOrder(bf \o evs, ab, ar, mx, db, jp)

\* One event comes to the queue, and the order stays right.
LEMMA OneEventMore ==
    ASSUME NEW bf, NEW evs, NEW e, NEW new, NEW ab, NEW ab2, NEW ar, NEW ar2,
           NEW mx, NEW mx2, NEW db, NEW db2, NEW jp, NEW jp2,
           Comes(bf, evs, e, new, ab, ab2, ar, ar2, mx, mx2, db, db2, jp, jp2)
    PROVE  /\ new \in Seq(Events)
           /\ InOrder(bf \o new, ab2, ar2, mx2, db2, jp2)
           /\ \A s : AwaitsNone(bf \o new, s) => AwaitsNone(bf \o evs, s) /\ s # e.slot
<1>1. /\ bf \in Seq(Events) /\ evs \in Seq(Events) /\ e \in Events
      /\ new \in Queued(evs, e)
      /\ Reports(e, ab2, ar2)
      /\ ab2 \subseteq ab \cup {e.slot} /\ ar2 \subseteq ar \cup {e.slot}
      /\ mx \cup Mixed(new) \subseteq mx2
      /\ db \cup Doubled(new) \subseteq db2
      /\ jp \cup Overtaken(evs, e, new) \subseteq jp2
      /\ InOrder(bf \o evs, ab, ar, mx, db, jp)
  BY DEF Comes
<1>2. new \in Seq(Events) /\ Extended(evs, e, new, Overtaken(evs, e, new))
  BY <1>1, QueuedExtends
<1>3. Extended(evs, e, new, jp2)
  BY <1>2, <1>1, Zenon DEF Extended
<1>4. bf \o evs \in Seq(Events) /\ bf \o new \in Seq(Events)
  BY <1>2, <1>1, ConcatProperties
<1>5. Extended(bf \o evs, e, bf \o new, jp2)
  BY <1>2, <1>3, <1>1, ExtendedAfter
<1>6. Mixed(bf \o new) \subseteq mx2
  <2>1. Mixed(bf \o new) \subseteq Mixed(bf) \cup Mixed(new) /\ Mixed(bf) \subseteq Mixed(bf \o evs)
    BY <1>2, <1>1, BothOfTwo DEF Mixed
  <2>2. QED
    BY <1>1, <2>1 DEF InOrder
<1>7. Doubled(bf \o new) \subseteq db2
  <2>1. Doubled(bf \o new) \subseteq Doubled(bf) \cup Doubled(new) /\ Doubled(bf) \subseteq Doubled(bf \o evs)
    BY <1>2, <1>1, BothOfTwo DEF Doubled
  <2>2. QED
    BY <1>1, <2>1 DEF InOrder
<1>8. Tells(bf \o new, ab2, ar2, jp2)
  <2>1. jp \subseteq jp2 /\ Tells(bf \o evs, ab, ar, jp)
    BY <1>1 DEF InOrder
  <2>2. QED
    BY <1>1, <1>4, <1>5, <2>1, ExtendedTells
<1>9. ASSUME NEW s, AwaitsNone(bf \o new, s)
      PROVE  AwaitsNone(bf \o evs, s) /\ s # e.slot
  <2> DEFINE old2 == bf \o evs
             new2 == bf \o new
  <2> HIDE DEF old2, new2
  <2>1. PICK i \in 1..Len(new2) :
          /\ 1..Len(new2) = 1..Len(old2) \cup {i}
          /\ new2[i].slot = e.slot
          /\ \A j \in 1..Len(old2) : new2[j].slot = old2[j].slot
    BY <1>5, Zenon DEF Extended, old2, new2
  <2>2. \A j \in 1..Len(new2) : new2[j].slot # s
    BY <1>9 DEF AwaitsNone, new2
  <2>3. QED
    BY <2>1, <2>2 DEF AwaitsNone, old2
<1>10. QED
  BY <1>2, <1>6, <1>7, <1>8, <1>9 DEF InOrder

-----------------------------------------------------------------------------
(* Changes of files *)

\* What Event makes.
LEMMA EventIsEvent ==
    ASSUME NEW pr \in Processes, NEW s \in Slots, NEW b \in Bits, NEW f \in Files \cup {None}
    PROVE  /\ Event(pr, s, b, f) \in Events
           /\ Event(pr, s, b, f).slot = s
           /\ Event(pr, s, b, f).mask = {b}
<1> DEFINE g == IF b = "CLOSE_WRITE" THEN f ELSE None
<1>1. g \in Files \cup {None}
  OBVIOUS
<1>2. Event(pr, s, b, f) = [slot |-> s, by |-> pr, mask |-> {b}, file |-> g]
  BY DEF Event
<1> HIDE DEF g
<1>3. {b} \in (SUBSET Bits) \ {{}}
  OBVIOUS
<1>4. QED
  BY <1>1, <1>2, <1>3 DEF Events

\* A file is something else than none.
LEMMA FilesAreThere == None \notin Files
<1>1. ASSUME NEW f \in Files
      PROVE  f # None
  <2>1. Len(f) = 2
    BY DEF Files
  <2>2. Len(None) = 0
    BY DEF None
  <2>3. QED
    BY <2>1, <2>2
<1>2. QED
  BY <1>1

\* Events have bits, and their slots are slots.
LEMMA EventsAreTyped ==
    ASSUME NEW evs \in Seq(Events), NEW e \in Events, NEW new
    PROVE  /\ \A i \in DOMAIN evs : evs[i].mask \subseteq Bits /\ evs[i].mask # {}
           /\ Mixed(evs) \subseteq Slots /\ Doubled(evs) \subseteq Slots
           /\ Overtaken(evs, e, new) \subseteq Slots
<1>1. \A i \in DOMAIN evs : /\ evs[i].slot \in Slots
                           /\ evs[i].mask \subseteq Bits /\ evs[i].mask # {}
  <2>1. \A i \in DOMAIN evs : evs[i] \in Events
    OBVIOUS
  <2>2. QED
    BY <2>1 DEF Events
<1>2. e.slot \in Slots
  BY DEF Events
<1>3. QED
  BY <1>1, <1>2 DEF Mixed, Doubled, Both, Overtaken

\* What is said of files and of the queue has its type.
FilesOK ==
    /\ file \in [Slots -> Files \cup {None}]
    /\ writers \subseteq [by : Processes, slot : Slots, file : Files]
    /\ arrived \subseteq {s \in Slots : file[s] # None}
    /\ orphaned \subseteq {s \in Slots : file[s] = None}
    /\ mixed \subseteq Slots /\ doubled \subseteq Slots /\ jumped \subseteq Slots
    /\ changes \in 0..MaxChanges

\* A change of files puts events in the queue about the slots of which it says something.
LEMMA ChangeKeeps ==
    ASSUME EInv, UNCHANGED <<setting, place, moved, buffer, heard>>, FilesOK',
           mixed \subseteq mixed', doubled \subseteq doubled', jumped \subseteq jumped',
           queue' \in Seq(Events),
           InOrder(buffer \o queue', Absent', arrived', mixed', doubled', jumped'),
           \A s \in Slots : AwaitsNone(buffer \o queue', s) =>
              /\ AwaitsNone(buffer \o queue, s)
              /\ s \in Absent' => s \in Absent
              /\ s \in arrived' => s \in arrived
    PROVE  EInv'
<1>1. buffer' = buffer /\ place' = place /\ moved' = moved /\ heard' = heard
      /\ flavour' = flavour /\ watch' = watch
  BY DEF setting
<1>2. \A i \in DOMAIN queue' : queue'[i].mask \subseteq Bits /\ queue'[i].mask # {}
  <2>1. ASSUME NEW evs \in Seq(Events), NEW i \in DOMAIN evs
        PROVE  evs[i].mask \subseteq Bits /\ evs[i].mask # {}
    <3>1. evs[i] \in Events
      OBVIOUS
    <3>2. QED
      BY <3>1 DEF Events
  <2>2. QED
    BY <2>1
<1>3. Size(buffer)' <= Room'
  BY <1>1 DEF EInv, TypeOK, Size, Room
<1>4. TypeOK'
  BY <1>1, <1>2, <1>3 DEF EInv, TypeOK, FilesOK
<1>5. PlacesInv'
  BY <1>1 DEF EInv, PlacesInv
<1>6. \A p, n : Allows(p, n)' <=> Allows(p, n)
  BY <1>1 DEF Allows, CAllows, GoAllows
<1>7. AllowedInv'
  BY <1>1, <1>6 DEF EInv, AllowedInv
<1>8. HeardInv'
  <2>1. SUFFICES ASSUME NEW s \in Slots, s[1] \notin moved, s \notin jumped',
                        AwaitsNone(buffer \o queue', s)
                 PROVE  /\ s \in arrived' /\ Allows(place[s[1]], s[2]) /\ ~(flavour = "C" /\ s \in mixed') =>
                              Heard(s)' = "scan"
                        /\ s \in Absent' /\ ~(flavour = "Go" /\ s \in mixed' \cup doubled') => Heard(s)' # "scan"
    BY <1>1, <1>6, Zenon DEF HeardInv, Pending
  <2>2. AwaitsNone(Pending, s) /\ (s \in Absent' => s \in Absent) /\ (s \in arrived' => s \in arrived)
    BY <2>1 DEF Pending
  <2>3. Heard(s)' = Heard(s)
    BY <1>1 DEF Heard
  <2>4. QED
    BY <2>1, <2>2, <2>3 DEF EInv, HeardInv
<1>9. InOrder(Pending, Absent, arrived, mixed, doubled, jumped)'
  BY <1>1 DEF Pending
<1>10. QED
  BY <1>1, <1>4, <1>5, <1>7, <1>8, <1>9 DEF EInv

\* Close and Delete: one event, and one slot.
LEMMA OneEvent ==
    ASSUME EInv, NEW pr \in Processes, NEW s \in Slots, NEW b \in Bits,
           NEW w \in Files \cup {None}, Queue(Event(pr, s, b, w)), FilesOK',
           Absent' \subseteq Absent \cup {s}, arrived' \subseteq arrived \cup {s},
           s \in Absent' => b \in Departures, s \in arrived' => b \in Arrivals,
           UNCHANGED <<setting, place, moved, buffer, heard>>
    PROVE  EInv'
<1> DEFINE e == Event(pr, s, b, w)
<1>1. e \in Events /\ e.slot = s /\ e.mask = {b}
  BY EventIsEvent
<1>2. /\ queue' \in Queued(queue, e)
      /\ mixed' = mixed \cup Mixed(queue') /\ doubled' = doubled \cup Doubled(queue')
      /\ jumped' = jumped \cup Overtaken(queue, e, queue')
  BY DEF Queue, Remember
<1> HIDE DEF e
<1>3. /\ queue \in Seq(Events) /\ buffer \in Seq(Events)
      /\ InOrder(buffer \o queue, Absent, arrived, mixed, doubled, jumped)
  BY DEF EInv, Pending
<1>4. Comes(buffer, queue, e, queue', Absent, Absent', arrived, arrived',
            mixed, mixed', doubled, doubled', jumped, jumped')
  <2>1. Reports(e, Absent', arrived')
    BY <1>1 DEF Reports
  <2>2. QED
    BY <1>1, <1>2, <1>3, <2>1 DEF Comes
<1>5. /\ queue' \in Seq(Events)
      /\ InOrder(buffer \o queue', Absent', arrived', mixed', doubled', jumped')
      /\ \A t : AwaitsNone(buffer \o queue', t) => AwaitsNone(buffer \o queue, t) /\ t # e.slot
  BY <1>4, OneEventMore
<1>6. \A t \in Slots : t # s => (t \in Absent' => t \in Absent) /\ (t \in arrived' => t \in arrived)
  OBVIOUS
<1>7. QED
  BY <1>1, <1>2, <1>5, <1>6, ChangeKeeps

\* What is remembered of a queue that got an event.
LEMMA QueueIsTyped ==
    ASSUME TypeOK, queue \in Seq(Events), NEW pr \in Processes, NEW s \in Slots, NEW b \in Bits,
           NEW w \in Files \cup {None}, Queue(Event(pr, s, b, w))
    PROVE  mixed' \subseteq Slots /\ doubled' \subseteq Slots /\ jumped' \subseteq Slots
<1> DEFINE e == Event(pr, s, b, w)
<1>1. e \in Events
  BY EventIsEvent
<1>2. /\ queue' \in Queued(queue, e)
      /\ mixed' = mixed \cup Mixed(queue') /\ doubled' = doubled \cup Doubled(queue')
      /\ jumped' = jumped \cup Overtaken(queue, e, queue')
  BY DEF Queue, Remember
<1> HIDE DEF e
<1>3. queue' \in Seq(Events)
  BY <1>1, <1>2, QueuedExtends
<1>4. /\ Mixed(queue') \subseteq Slots /\ Doubled(queue') \subseteq Slots
      /\ Overtaken(queue, e, queue') \subseteq Slots
  BY <1>1, <1>3, EventsAreTyped
<1>5. QED
  BY <1>2, <1>4 DEF TypeOK

\* Changes are counted up to the bound.
LEMMA ChangesAreBounded ==
    ASSUME TypeOK, Changes(1)
    PROVE  changes' \in 0..MaxChanges /\ changes + 1 \in 0..MaxChanges
BY EventsAssumption DEF TypeOK, Changes

\* A file that is opened: no event, and one slot less that misses a file.
LEMMA OpenKeeps ==
    ASSUME EInv, NEW pr \in Processes, NEW s \in Slots, Open(pr, s)
    PROVE  EInv'
<1> DEFINE f == IF file[s] = None THEN <<s, changes + 1>> ELSE file[s]
           h == [by |-> pr, slot |-> s, file |-> f]
<1>1. /\ Changes(1) /\ file' = [file EXCEPT ![s] = f] /\ writers' = writers \cup {h}
      /\ orphaned' = orphaned \ {s}
      /\ UNCHANGED <<setting, place, arrived, moved, queue, buffer, heard, merges>>
  BY DEF Open
<1>2. TypeOK /\ file \in [Slots -> Files \cup {None}] /\ changes + 1 \in 0..MaxChanges
      /\ changes' \in 0..MaxChanges
  BY <1>1, ChangesAreBounded DEF EInv, TypeOK
<1>3. f \in Files /\ f # None
  <2>1. <<s, changes + 1>> \in Files
    BY <1>2 DEF Files
  <2>2. QED
    BY <1>2, <2>1, FilesAreThere
<1>4. h \in [by : Processes, slot : Slots, file : Files]
  BY <1>3
<1> HIDE DEF f, h
<1>5. /\ file' \in [Slots -> Files \cup {None}]
      /\ file'[s] # None /\ \A t \in Slots : t # s => file'[t] = file[t]
  BY <1>1, <1>2, <1>3
<1>6. /\ queue' = queue /\ arrived' = arrived
      /\ mixed' = mixed /\ doubled' = doubled /\ jumped' = jumped
  BY <1>1 DEF merges
<1>7. FilesOK'
  BY <1>1, <1>2, <1>4, <1>5, <1>6 DEF FilesOK, TypeOK
<1>8. Absent' \subseteq Absent
  BY <1>1, <1>5 DEF Absent
<1>9. queue \in Seq(Events) /\ InOrder(buffer \o queue, Absent, arrived, mixed, doubled, jumped)
  BY DEF EInv, Pending
<1>10. InOrder(buffer \o queue, Absent', arrived, mixed, doubled, jumped)
  BY <1>8, <1>9 DEF InOrder, Tells
<1>11. QED
  BY <1>1, <1>6, <1>7, <1>8, <1>9, <1>10, ChangeKeeps

\* A file that is closed: a slot that has it is one where it arrived, and one that has
\* none is not claimed to miss it any more.
LEMMA CloseKeeps ==
    ASSUME EInv, NEW h \in writers, Close(h)
    PROVE  EInv'
<1>1. /\ writers' = writers \ {h} /\ Queue(Event(h.by, h.slot, "CLOSE_WRITE", h.file))
      /\ arrived' = IF file[h.slot] = h.file THEN arrived \cup {h.slot} ELSE arrived
      /\ orphaned' = IF file[h.slot] = None THEN orphaned \cup {h.slot} ELSE orphaned
      /\ UNCHANGED <<setting, place, file, changes, moved, buffer, heard>>
  BY DEF Close
<1>2. /\ TypeOK /\ queue \in Seq(Events)
      /\ h.by \in Processes /\ h.slot \in Slots /\ h.file \in Files /\ h.file # None
  BY FilesAreThere DEF EInv, TypeOK
<1>3. "CLOSE_WRITE" \in Bits /\ "CLOSE_WRITE" \in Arrivals
  BY DEF Bits, Arrivals
<1>4. /\ file' = file /\ changes' = changes
      /\ arrived' \subseteq arrived \cup {h.slot}
  BY <1>1
<1>5. Absent' \subseteq Absent /\ h.slot \notin Absent'
  BY <1>1, <1>4 DEF Absent
<1>6. FilesOK'
  <2>1. mixed' \subseteq Slots /\ doubled' \subseteq Slots /\ jumped' \subseteq Slots
    BY <1>1, <1>2, <1>3, QueueIsTyped
  <2>2. QED
    BY <1>1, <1>2, <1>4, <2>1 DEF FilesOK, TypeOK
<1>7. QED
  BY <1>1, <1>2, <1>3, <1>4, <1>5, <1>6, OneEvent

\* A departure.
LEMMA DeleteKeeps ==
    ASSUME EInv, NEW pr \in Processes, NEW s \in Slots, Delete(pr, s)
    PROVE  EInv'
<1>1. /\ Changes(1) /\ Queue(Event(pr, s, "DELETE", None)) /\ file[s] # None
      /\ file' = [file EXCEPT ![s] = None] /\ arrived' = arrived \ {s}
      /\ UNCHANGED <<setting, place, writers, moved, orphaned, buffer, heard>>
  BY DEF Delete
<1>2. /\ TypeOK /\ queue \in Seq(Events) /\ file \in [Slots -> Files \cup {None}]
      /\ changes' \in 0..MaxChanges
  BY <1>1, ChangesAreBounded DEF EInv, TypeOK
<1>3. "DELETE" \in Bits /\ "DELETE" \in Departures
  BY DEF Bits, Departures
<1>4. /\ file' \in [Slots -> Files \cup {None}]
      /\ file'[s] = None /\ \A t \in Slots : t # s => file'[t] = file[t]
  BY <1>1, <1>2
<1>5. Absent' \subseteq Absent \cup {s}
  BY <1>1, <1>4 DEF Absent
<1>6. FilesOK'
  <2>1. mixed' \subseteq Slots /\ doubled' \subseteq Slots /\ jumped' \subseteq Slots
    BY <1>1, <1>2, <1>3, QueueIsTyped
  <2>2. QED
    BY <1>1, <1>2, <1>4, <2>1 DEF FilesOK, TypeOK
<1>7. QED
  BY <1>1, <1>3, <1>5, <1>6, OneEvent

\* A rename is a departure and then an arrival.
LEMMA RenameKeeps ==
    ASSUME EInv, NEW pr \in Processes, NEW s \in Slots, NEW t \in Slots, Rename(pr, s, t)
    PROVE  EInv'
<1> DEFINE from == Event(pr, s, "MOVED_FROM", None)
           to == Event(pr, t, "MOVED_TO", None)
<1>1. PICK evs \in Queued(queue, from) :
        /\ queue' \in Queued(evs, to)
        /\ mixed' = mixed \cup Mixed(queue') /\ doubled' = doubled \cup Doubled(queue')
        /\ jumped' = jumped \cup Overtaken(queue, from, evs) \cup Overtaken(evs, to, queue')
  BY Zenon DEF Rename, Remember
<1>2. /\ s # t /\ file[s] # None /\ Changes(1)
      /\ file' = [file EXCEPT ![s] = None, ![t] = file[s]]
      /\ writers' = {IF h.slot = s /\ h.file = file[s] THEN [h EXCEPT !.slot = t] ELSE h : h \in writers}
      /\ arrived' = (arrived \ {s}) \cup {t} /\ orphaned' = orphaned \ {t}
      /\ UNCHANGED <<setting, place, moved, buffer, heard>>
  BY DEF Rename
<1>3. /\ "MOVED_FROM" \in Bits /\ "MOVED_FROM" \in Departures
      /\ "MOVED_TO" \in Bits /\ "MOVED_TO" \in Arrivals
  BY DEF Bits, Arrivals, Departures
<1>4. /\ from \in Events /\ from.slot = s /\ from.mask = {"MOVED_FROM"}
      /\ to \in Events /\ to.slot = t /\ to.mask = {"MOVED_TO"}
  BY <1>3, EventIsEvent
<1> HIDE DEF from, to
<1>5. /\ TypeOK /\ queue \in Seq(Events) /\ buffer \in Seq(Events)
      /\ InOrder(buffer \o queue, Absent, arrived, mixed, doubled, jumped)
      /\ file \in [Slots -> Files \cup {None}]
  BY DEF EInv, Pending, TypeOK
<1> DEFINE mx == mixed \cup Mixed(evs)
           db == doubled \cup Doubled(evs)
           jp == jumped \cup Overtaken(queue, from, evs)
           ab == Absent \cup {s}
           ar == arrived \ {s}
<1>6. /\ evs \in Seq(Events)
      /\ InOrder(buffer \o evs, ab, ar, mx, db, jp)
      /\ \A u : AwaitsNone(buffer \o evs, u) => AwaitsNone(buffer \o queue, u) /\ u # from.slot
  <2>1. Reports(from, ab, ar)
    BY <1>3, <1>4 DEF Reports
  <2>2. /\ ab \subseteq Absent \cup {from.slot} /\ ar \subseteq arrived \cup {from.slot}
        /\ mixed \cup Mixed(evs) \subseteq mx /\ doubled \cup Doubled(evs) \subseteq db
        /\ jumped \cup Overtaken(queue, from, evs) \subseteq jp
    BY <1>4
  <2> HIDE DEF mx, db, jp, ab, ar
  <2>3. Comes(buffer, queue, from, evs, Absent, ab, arrived, ar, mixed, mx, doubled, db, jumped, jp)
    BY <1>1, <1>4, <1>5, <2>1, <2>2 DEF Comes
  <2>4. QED
    BY <2>3, OneEventMore
<1>7. /\ file' \in [Slots -> Files \cup {None}]
      /\ file'[s] = None /\ file'[t] = file[s]
      /\ \A u \in Slots : u # s /\ u # t => file'[u] = file[u]
  BY <1>2, <1>5
<1>8. /\ Absent' \subseteq ab /\ t \notin Absent'
      /\ arrived' \subseteq ar \cup {to.slot}
  BY <1>2, <1>4, <1>7 DEF Absent
<1>9. Mixed(evs) \subseteq Mixed(queue') /\ Doubled(evs) \subseteq Doubled(queue')
  <2>1. queue' \in Seq(Events) /\ Extended(evs, to, queue', Overtaken(evs, to, queue'))
    BY <1>1, <1>4, <1>6, QueuedExtends
  <2>2. QED
    BY <1>6, <2>1, BothGrows DEF Mixed, Doubled
<1> HIDE DEF mx, db, jp, ab, ar
<1>10. /\ mx \cup Mixed(queue') \subseteq mixed'
       /\ db \cup Doubled(queue') \subseteq doubled'
       /\ jp \cup Overtaken(evs, to, queue') \subseteq jumped'
  BY <1>1, <1>9 DEF mx, db, jp
<1>11. /\ queue' \in Seq(Events)
       /\ InOrder(buffer \o queue', Absent', arrived', mixed', doubled', jumped')
       /\ \A u : AwaitsNone(buffer \o queue', u) => AwaitsNone(buffer \o evs, u) /\ u # to.slot
  <2>1. Reports(to, Absent', arrived')
    BY <1>3, <1>4, <1>8 DEF Reports
  <2>2. Comes(buffer, evs, to, queue', ab, Absent', ar, arrived', mx, mixed', db, doubled', jp, jumped')
    BY <1>1, <1>4, <1>5, <1>6, <1>8, <1>10, <2>1 DEF Comes
  <2>3. QED
    BY <2>2, OneEventMore
<1>12. FilesOK'
  <2>1. mixed' \subseteq Slots /\ doubled' \subseteq Slots /\ jumped' \subseteq Slots
    <3>1. /\ Mixed(queue') \subseteq Slots /\ Doubled(queue') \subseteq Slots
          /\ Overtaken(queue, from, evs) \subseteq Slots /\ Overtaken(evs, to, queue') \subseteq Slots
      BY <1>4, <1>5, <1>6, <1>11, EventsAreTyped
    <3>2. QED
      BY <1>1, <1>5, <3>1 DEF TypeOK
  <2>2. writers' \subseteq [by : Processes, slot : Slots, file : Files]
    <3>1. \A h \in writers : /\ h \in [by : Processes, slot : Slots, file : Files]
                             /\ [h EXCEPT !.slot = t] \in [by : Processes, slot : Slots, file : Files]
      BY <1>5 DEF TypeOK
    <3>2. QED
      BY <1>2, <3>1
  <2>3. changes' \in 0..MaxChanges
    BY <1>2, <1>5, ChangesAreBounded
  <2>4. /\ arrived' \subseteq {u \in Slots : file'[u] # None}
        /\ orphaned' \subseteq {u \in Slots : file'[u] = None}
    BY <1>2, <1>5, <1>7 DEF TypeOK
  <2>5. QED
    BY <1>7, <2>1, <2>2, <2>3, <2>4 DEF FilesOK
<1>13. \A u \in Slots : u # s /\ u # t =>
         (u \in Absent' => u \in Absent) /\ (u \in arrived' => u \in arrived)
  BY <1>2, <1>8 DEF ab
<1>14. \A u \in Slots : AwaitsNone(buffer \o queue', u) =>
         /\ AwaitsNone(buffer \o queue, u)
         /\ u \in Absent' => u \in Absent
         /\ u \in arrived' => u \in arrived
  BY <1>4, <1>6, <1>11, <1>13
<1>15. QED
  BY <1>1, <1>2, <1>11, <1>12, <1>14, ChangeKeeps

-----------------------------------------------------------------------------
(* Directories *)

\* A directory is moved or removed: what is claimed of it is given up.
LEMMA DirsKeep ==
    ASSUME EInv, NEW d \in Dirs, RemoveDir(d) \/ \E p \in Places : MoveDir(d, p)
    PROVE  EInv'
<1>1. PICK q \in Places \cup {Gone} :
        /\ place' = [place EXCEPT ![d] = q]
        /\ q # Gone => q \notin {place[c] : c \in Dirs}
        /\ moved' = moved \cup {d}
        /\ Changes(1)
        /\ UNCHANGED <<setting, file, writers, arrived, orphaned, queue, buffer, heard, merges>>
  BY Zenon DEF RemoveDir, MoveDir
<1>2. /\ flavour' = flavour /\ watch' = watch /\ file' = file /\ writers' = writers
      /\ arrived' = arrived /\ orphaned' = orphaned
      /\ queue' = queue /\ buffer' = buffer /\ heard' = heard
      /\ mixed' = mixed /\ doubled' = doubled /\ jumped' = jumped
  BY <1>1 DEF setting, merges
<1>3. place \in [Dirs -> Places \cup {Gone}]
  BY DEF EInv, TypeOK
<1>4. changes' \in 0..MaxChanges
  BY <1>1, ChangesAreBounded DEF EInv
<1>5. Size(buffer)' <= Room'
  BY <1>2 DEF EInv, TypeOK, Size, Room
<1>6. TypeOK'
  BY <1>1, <1>2, <1>3, <1>4, <1>5 DEF EInv, TypeOK
<1>7. PlacesInv'
  <2>1. ASSUME NEW b \in Dirs, NEW c \in Dirs, place'[b] = place'[c], place'[b] # Gone
        PROVE  b = c
    <3>1. place'[b] = (IF b = d THEN q ELSE place[b]) /\ place'[c] = (IF c = d THEN q ELSE place[c])
      BY <1>1, <1>3
    <3>2. QED
      BY <1>1, <2>1, <3>1 DEF EInv, PlacesInv
  <2>2. ASSUME NEW c \in Dirs \ moved'
        PROVE  place'[c] \in Places
    BY <1>1, <1>3 DEF EInv, PlacesInv
  <2>3. QED
    BY <2>1, <2>2 DEF PlacesInv
<1>8. \A p, n : Allows(p, n)' <=> Allows(p, n)
  BY <1>2 DEF Allows, CAllows, GoAllows
<1>9. AllowedInv'
  BY <1>2, <1>8 DEF EInv, AllowedInv
<1>10. HeardInv'
  <2>1. SUFFICES ASSUME NEW s \in Slots, s[1] \notin moved', s \notin jumped, AwaitsNone(Pending, s)
                 PROVE  /\ s \in arrived /\ Allows(place'[s[1]], s[2]) /\ ~(flavour = "C" /\ s \in mixed) =>
                              Heard(s)' = "scan"
                        /\ s \in Absent /\ ~(flavour = "Go" /\ s \in mixed \cup doubled) => Heard(s)' # "scan"
    BY <1>2, <1>8, Zenon DEF HeardInv, Pending, Absent
  <2>2. s[1] \in Dirs /\ s[1] # d /\ s[1] \notin moved
    BY <1>1, <2>1 DEF Slots
  <2>3. place'[s[1]] = place[s[1]]
    BY <1>1, <1>3, <2>2
  <2>4. Heard(s)' = Heard(s)
    BY <1>2, <2>3 DEF Heard
  <2>5. QED
    BY <2>1, <2>2, <2>3, <2>4 DEF EInv, HeardInv
<1>11. InOrder(Pending, Absent, arrived, mixed, doubled, jumped)'
  BY <1>2 DEF EInv, Pending, Absent
<1>12. QED
  BY <1>2, <1>6, <1>7, <1>9, <1>10, <1>11 DEF EInv

-----------------------------------------------------------------------------
(* The watchers *)

\* The largest of finitely many numbers.
LEMMA LargestExists ==
    ASSUME NEW n \in Nat, NEW T, T \subseteq 1..n, T # {}
    PROVE  \E k \in T : \A m \in T : m <= k
<1> DEFINE R == {n - k : k \in T}
<1>1. R \subseteq Nat /\ R # {}
  <2>1. \A k \in T : n - k \in Nat
    OBVIOUS
  <2>2. QED
    BY <2>1
<1>2. PICK r \in R : \A x \in R : <<x, r>> \notin OpToRel(<, Nat)
  BY <1>1, WFMin, NatLessThanWellFounded, Zenon
<1>3. \A x \in R : ~(x < r)
  BY <1>1, <1>2, Zenon DEF OpToRel
<1>4. PICK k \in T : r = n - k
  OBVIOUS
<1>5. ASSUME NEW m \in T
      PROVE  m <= k
  <2>1. ~(n - m < n - k)
    BY <1>3, <1>4
  <2>2. m \in Nat /\ k \in Nat
    OBVIOUS
  <2>3. QED
    BY <2>1, <2>2
<1>6. QED
  BY <1>5

\* What was read is not handled yet.
LEMMA ReadKeeps ==
    ASSUME EInv, ReadEvents
    PROVE  EInv'
<1> DEFINE n == CHOOSE n \in Fitting : \A m \in Fitting : m <= n
<1>1. queue \in Seq(Events) /\ Len(queue) \in Nat /\ buffer = <<>> /\ Fitting # {}
  BY DEF EInv, ReadEvents
<1>2. n \in Fitting
  <2>1. Fitting \subseteq 1..Len(queue)
    BY DEF Fitting
  <2>2. \E k \in Fitting : \A m \in Fitting : m <= k
    BY <1>1, <2>1, LargestExists, Zenon
  <2>3. QED
    BY <2>2
<1>3. /\ buffer' = SubSeq(queue, 1, n) /\ queue' = SubSeq(queue, n + 1, Len(queue))
      /\ UNCHANGED <<setting, files, heard, merges>>
  BY DEF ReadEvents
<1> HIDE DEF n
<1>4. n \in 1..Len(queue) /\ Size(SubSeq(queue, 1, n)) <= Room
  BY <1>2 DEF Fitting
<1>5. /\ flavour' = flavour /\ watch' = watch /\ place' = place /\ file' = file
      /\ writers' = writers /\ changes' = changes /\ moved' = moved
      /\ arrived' = arrived /\ orphaned' = orphaned /\ heard' = heard
      /\ mixed' = mixed /\ doubled' = doubled /\ jumped' = jumped
  BY <1>3 DEF setting, files, merges
<1>6. buffer' \in Seq(Events) /\ queue' \in Seq(Events)
  BY <1>1, <1>3, <1>4
<1>7. Pending' = Pending
  <2>1. SubSeq(queue, 1, n) \o SubSeq(queue, n + 1, Len(queue)) = SubSeq(queue, 1, Len(queue))
    BY <1>1, <1>4, ConcatAdjacentSubSeq
  <2>2. SubSeq(queue, 1, Len(queue)) = queue
    BY <1>1, SubSeqFull
  <2>3. <<>> \o queue = queue
    BY <1>1, ConcatEmptySeq
  <2>4. QED
    BY <1>1, <1>3, <2>1, <2>2, <2>3 DEF Pending
<1>8. Room' = Room
  BY <1>5 DEF Room
<1>9. Size(buffer)' <= Room'
  <2>1. Size(buffer)' = Size(buffer')
    BY DEF Size
  <2>2. QED
    BY <1>3, <1>4, <1>8, <2>1
<1>10. \A i \in DOMAIN queue' : queue'[i].mask \subseteq Bits /\ queue'[i].mask # {}
  <2>1. ASSUME NEW evs \in Seq(Events), NEW i \in DOMAIN evs
        PROVE  evs[i].mask \subseteq Bits /\ evs[i].mask # {}
    <3>1. evs[i] \in Events
      OBVIOUS
    <3>2. QED
      BY <3>1 DEF Events
  <2>2. QED
    BY <1>6, <2>1
<1>11. TypeOK'
  BY <1>5, <1>9, <1>10 DEF EInv, TypeOK
<1>12. \A p, m : Allows(p, m)' <=> Allows(p, m)
  BY <1>5 DEF Allows, CAllows, GoAllows
<1>13. PlacesInv' /\ AllowedInv'
  BY <1>5, <1>12 DEF EInv, PlacesInv, AllowedInv
<1>14. \A s : Heard(s)' = Heard(s)
  BY <1>5 DEF Heard
<1>15. HeardInv'
  BY <1>5, <1>7, <1>12, <1>14, Zenon DEF EInv, HeardInv, Absent
<1>16. InOrder(Pending, Absent, arrived, mixed, doubled, jumped)'
  BY <1>5, <1>7 DEF EInv, Absent
<1>17. QED
  BY <1>6, <1>11, <1>13, <1>15, <1>16 DEF EInv

\* The room that events take is a number.
LEMMA SizeIsNumber ==
    ASSUME NEW evs \in Seq(Events)
    PROVE  Size(evs) \in Int
<1> DEFINE L == {i \in DOMAIN evs : evs[i].slot[2] \in LongNames}
<1>1. L \in SUBSET (1..Len(evs)) /\ Len(evs) \in Nat
  OBVIOUS
<1>2. Size(evs) = Len(evs) + (LongSize - 1) * Cardinality(L)
  BY DEF Size
<1> HIDE DEF L
<1>3. Cardinality(L) \in Nat
  <2>1. IsFiniteSet(1..Len(evs))
    BY <1>1, FS_Interval
  <2>2. QED
    BY <1>1, <2>1, FS_Subset, FS_CardinalityType
<1>4. LongSize - 1 \in Nat
  BY EventsAssumption
<1>5. \A a, b, c \in Nat : a + b * c \in Int
  OBVIOUS
<1>6. QED
  BY <1>1, <1>2, <1>3, <1>4, <1>5

\* Fewer events take less room.
LEMMA TailIsSmaller ==
    ASSUME NEW evs \in Seq(Events), evs # <<>>
    PROVE  Size(Tail(evs)) <= Size(evs)
<1> DEFINE rest == Tail(evs)
           L == {i \in 1..Len(evs) : evs[i].slot[2] \in LongNames}
           M == {i \in 1..Len(rest) : rest[i].slot[2] \in LongNames}
           g == [i \in M |-> i + 1]
<1>1. /\ Len(evs) \in Nat /\ Len(rest) \in Nat /\ Len(rest) = Len(evs) - 1
      /\ DOMAIN evs = 1..Len(evs) /\ DOMAIN rest = 1..Len(rest)
      /\ \A i \in 1..Len(rest) : rest[i] = evs[i + 1]
  BY HeadTailProperties
<1> HIDE DEF rest
<1>2. IsFiniteSet(L) /\ IsFiniteSet(M)
  <2>1. IsFiniteSet(1..Len(evs)) /\ IsFiniteSet(1..Len(rest))
    BY <1>1, FS_Interval
  <2>2. L \in SUBSET (1..Len(evs)) /\ M \in SUBSET (1..Len(rest))
    OBVIOUS
  <2> HIDE DEF L, M
  <2>3. QED
    BY <2>1, <2>2, FS_Subset
<1>3. g \in Injection(M, L)
  <2>1. \A i \in M : i + 1 \in L
    BY <1>1
  <2>2. M \subseteq Nat
    BY <1>1
  <2>3. g \in [M -> L]
    BY <2>1
  <2>4. \A i, j \in M : g[i] = g[j] => i = j
    BY <2>2
  <2> HIDE DEF g, L, M
  <2>5. QED
    BY <2>3, <2>4, Zenon DEF Injection, IsInjective
<1>4. /\ Cardinality(L) \in Nat /\ Cardinality(M) \in Nat
      /\ Cardinality(M) <= Cardinality(L)
  <2> HIDE DEF g, L, M
  <2>1. QED
    BY <1>2, <1>3, FS_Injection, FS_CardinalityType
<1>5. Size(evs) = Len(evs) + (LongSize - 1) * Cardinality(L)
  BY <1>1, Zenon DEF Size
<1>6. Size(rest) = Len(rest) + (LongSize - 1) * Cardinality(M)
  BY <1>1, Zenon DEF Size
<1> HIDE DEF g, L, M
<1>7. \A k, a, b \in Nat : a <= b => k * a <= k * b
  OBVIOUS
<1>8. LongSize - 1 \in Nat
  BY EventsAssumption
<1>9. (LongSize - 1) * Cardinality(M) <= (LongSize - 1) * Cardinality(L)
  BY <1>4, <1>7, <1>8
<1>10. Size(rest) <= Size(evs)
  <2>1. \A l, a, b \in Nat : a <= b => l - 1 + a <= l + b
    OBVIOUS
  <2>2. (LongSize - 1) * Cardinality(M) \in Nat /\ (LongSize - 1) * Cardinality(L) \in Nat
    BY <1>4, <1>8
  <2>3. Len(rest) + (LongSize - 1) * Cardinality(M) <= Len(evs) + (LongSize - 1) * Cardinality(L)
    BY <1>1, <1>9, <2>1, <2>2
  <2>4. QED
    BY <1>5, <1>6, <2>3
<1>11. QED
  BY <1>10 DEF rest

\* When the oldest event is taken the others stay in order.
LEMMA TailInOrder ==
    ASSUME NEW evs \in Seq(Events), NEW new \in Seq(Events), NEW ab, NEW ar, NEW mx, NEW db, NEW jp,
           Len(evs) = Len(new) + 1, \A i \in 1..Len(new) : new[i] = evs[i + 1],
           InOrder(evs, ab, ar, mx, db, jp)
    PROVE  InOrder(new, ab, ar, mx, db, jp)
<1>1. /\ Len(evs) \in Nat /\ Len(new) \in Nat
      /\ DOMAIN evs = 1..Len(evs) /\ DOMAIN new = 1..Len(new)
      /\ \A i \in 1..Len(new) : i \in Nat /\ i + 1 \in 1..Len(evs)
  OBVIOUS
<1>2. Tells(new, ab, ar, jp)
  <2>1. SUFFICES ASSUME NEW i \in 1..Len(new), new[i].slot \notin jp,
                        \A j \in 1..Len(new) : new[j].slot = new[i].slot => j <= i
                 PROVE  /\ new[i].slot \in ab => new[i].mask \cap Departures # {}
                        /\ new[i].slot \in ar => new[i].mask \cap Arrivals # {}
    BY Zenon DEF Tells
  <2>2. ASSUME NEW j \in 1..Len(evs), evs[j].slot = evs[i + 1].slot
        PROVE  j <= i + 1
    <3>1. CASE j = 1
      BY <1>1, <3>1
    <3>2. CASE j # 1
      <4>1. j - 1 \in 1..Len(new) /\ new[j - 1] = evs[j]
        BY <1>1, <3>2
      <4>2. j - 1 <= i
        BY <2>1, <2>2, <4>1
      <4>3. QED
        BY <1>1, <4>2
    <3>3. QED
      BY <3>1, <3>2
  <2>3. QED
    BY <1>1, <2>1, <2>2 DEF InOrder, Tells
<1>3. Mixed(new) \subseteq mx
  BY <1>1 DEF InOrder, Mixed, Both
<1>4. Doubled(new) \subseteq db
  BY <1>1 DEF InOrder, Doubled, Both
<1>5. QED
  BY <1>2, <1>3, <1>4 DEF InOrder

\* An event that is handled sets what was heard of its path, and of no other.
LEMMA ParseKeeps ==
    ASSUME EInv, ParseEvent
    PROVE  EInv'
<1> DEFINE e == Head(buffer)
           p == place[e.slot[1]]
           n == e.slot[2]
           r == Reaction(Operation(e.mask))
           all == Pending
           rest == Tail(buffer) \o queue
<1>1. /\ TypeOK /\ buffer \in Seq(Events) /\ queue \in Seq(Events) /\ buffer # <<>>
      /\ InOrder(all, Absent, arrived, mixed, doubled, jumped)
  BY DEF EInv, ParseEvent
<1>2. /\ heard' = IF p # Gone /\ Allows(p, n) THEN HeardOf(<<p, n>>, r) ELSE heard
      /\ buffer' = Tail(buffer)
      /\ UNCHANGED <<setting, files, queue, merges>>
  BY DEF ParseEvent
<1>3. /\ flavour' = flavour /\ watch' = watch /\ place' = place /\ file' = file
      /\ writers' = writers /\ changes' = changes /\ moved' = moved
      /\ arrived' = arrived /\ orphaned' = orphaned /\ queue' = queue
      /\ mixed' = mixed /\ doubled' = doubled /\ jumped' = jumped /\ Absent' = Absent
  BY <1>2 DEF setting, files, merges, Absent
<1>4. e \in Events /\ Tail(buffer) \in Seq(Events)
  BY <1>1
<1>5. /\ e.slot \in Slots /\ e.slot[1] \in Dirs /\ n \in Names
      /\ e.mask \in SUBSET Bits /\ e.mask # {}
      /\ p \in Places \cup {Gone}
  BY <1>1, <1>4 DEF Events, Slots, TypeOK
<1>6. flavour \in Flavours /\ r \in {"scan", "remove"}
  BY <1>1, <1>5, ReactionIsRight DEF TypeOK
<1>7. /\ all \in Seq(Events) /\ rest \in Seq(Events)
      /\ Len(all) = Len(rest) + 1
      /\ all[1] = e
      /\ \A i \in 1..Len(rest) : rest[i] = all[i + 1]
  <2> DEFINE tl == Tail(buffer)
  <2>1. /\ all \in Seq(Events) /\ Len(all) = Len(buffer) + Len(queue)
        /\ \A i \in 1..(Len(buffer) + Len(queue)) :
              all[i] = IF i <= Len(buffer) THEN buffer[i] ELSE queue[i - Len(buffer)]
    BY <1>1, ConcatProperties DEF Pending
  <2>2. /\ rest \in Seq(Events) /\ Len(rest) = Len(tl) + Len(queue)
        /\ \A i \in 1..(Len(tl) + Len(queue)) :
              rest[i] = IF i <= Len(tl) THEN tl[i] ELSE queue[i - Len(tl)]
    BY <1>1, <1>4, ConcatProperties
  <2>3. /\ Len(tl) = Len(buffer) - 1 /\ Len(buffer) \in Nat /\ Len(queue) \in Nat
        /\ Len(buffer) >= 1 /\ buffer[1] = e
        /\ \A i \in 1..Len(tl) : tl[i] = buffer[i + 1]
    BY <1>1, HeadTailProperties
  <2> HIDE DEF all, rest, e, tl
  <2>4. Len(all) = Len(rest) + 1 /\ all[1] = e
    BY <2>1, <2>2, <2>3
  <2>5. ASSUME NEW i \in 1..Len(rest)
        PROVE  rest[i] = all[i + 1]
    <3>1. i \in Nat /\ i + 1 \in 1..(Len(buffer) + Len(queue)) /\ i \in 1..(Len(tl) + Len(queue))
      BY <2>2, <2>3
    <3>2. CASE i <= Len(tl)
      BY <2>1, <2>2, <2>3, <3>1, <3>2
    <3>3. CASE ~(i <= Len(tl))
      <4>1. i - Len(tl) = i + 1 - Len(buffer) /\ ~(i + 1 <= Len(buffer))
        BY <2>3, <3>1, <3>3
      <4>2. QED
        BY <2>1, <2>2, <3>1, <3>3, <4>1
    <3>4. QED
      BY <3>2, <3>3
  <2>6. QED
    BY <2>1, <2>2, <2>4, <2>5
<1>8. Pending' = rest
  BY <1>2, <1>3 DEF Pending
<1> HIDE DEF e, p, n, r, all, rest
<1>9. InOrder(Pending, Absent, arrived, mixed, doubled, jumped)'
  <2>1. InOrder(rest, Absent, arrived, mixed, doubled, jumped)
    BY <1>1, <1>7, TailInOrder
  <2>2. QED
    BY <1>3, <1>8, <2>1
<1>10. /\ DOMAIN heard' \subseteq DOMAIN heard \cup {<<p, n>>}
       /\ <<p, n>> \in DOMAIN heard' \ DOMAIN heard => p # Gone /\ Allows(p, n)
       /\ p # Gone /\ Allows(p, n) => <<p, n>> \in DOMAIN heard' /\ heard'[<<p, n>>] = r
       /\ \A x \in DOMAIN heard' : heard'[x] = r \/ (x \in DOMAIN heard /\ heard'[x] = heard[x])
  BY <1>2 DEF HeardOf
<1>11. ASSUME NEW x, x # <<p, n>>
       PROVE  /\ x \in DOMAIN heard' <=> x \in DOMAIN heard
              /\ x \in DOMAIN heard => heard'[x] = heard[x]
  BY <1>2, <1>11 DEF HeardOf
<1>12. \A x, y : Allows(x, y)' <=> Allows(x, y)
  BY <1>3 DEF Allows, CAllows, GoAllows
<1>13. AllowedInv'
  <2>1. SUFFICES ASSUME NEW x \in DOMAIN heard'
                 PROVE  x \in Places \X Names /\ Allows(x[1], x[2])
    BY <1>12, Zenon DEF AllowedInv
  <2>2. CASE x \in DOMAIN heard
    BY <2>2 DEF EInv, AllowedInv
  <2>3. CASE x \notin DOMAIN heard
    <3>1. x = <<p, n>> /\ p # Gone /\ Allows(p, n)
      BY <1>10, <2>1, <2>3
    <3>2. QED
      BY <1>5, <3>1
  <2>4. QED
    BY <2>2, <2>3
<1>14. TypeOK'
  <2>1. Size(buffer)' <= Room'
    <3>1. Size(buffer') <= Size(buffer)
      BY <1>1, <1>2, TailIsSmaller
    <3>2. Size(buffer)' = Size(buffer') /\ Room' = Room /\ Room \in Nat
      BY <1>1, <1>3, EventsAssumption DEF Size, Room
    <3>3. Size(buffer) <= Room
      BY <1>1 DEF TypeOK
    <3>4. Size(buffer) \in Int /\ Size(buffer') \in Int
      BY <1>1, <1>4, <1>2, SizeIsNumber
    <3>5. QED
      BY <3>1, <3>2, <3>3, <3>4
  <2>2. DOMAIN heard' \subseteq Places \X Names
    BY <1>13 DEF AllowedInv
  <2>3. \A x \in DOMAIN heard' : heard'[x] \in {"scan", "remove"}
    BY <1>1, <1>6, <1>10 DEF TypeOK
  <2>4. QED
    BY <1>1, <1>3, <2>1, <2>2, <2>3 DEF TypeOK
<1>15. PlacesInv'
  BY <1>3 DEF EInv, PlacesInv
<1>16. HeardInv'
  <2>1. SUFFICES ASSUME NEW s \in Slots, s[1] \notin moved, s \notin jumped, AwaitsNone(rest, s)
                 PROVE  /\ s \in arrived /\ Allows(place[s[1]], s[2]) /\ ~(flavour = "C" /\ s \in mixed) =>
                              Heard(s)' = "scan"
                        /\ s \in Absent /\ ~(flavour = "Go" /\ s \in mixed \cup doubled) => Heard(s)' # "scan"
    BY <1>3, <1>8, <1>12, Zenon DEF HeardInv
  <2>2. /\ s[1] \in Dirs /\ place[s[1]] \in Places /\ place[s[1]] # Gone
        /\ s = <<s[1], s[2]>> /\ e.slot = <<e.slot[1], e.slot[2]>>
    BY <1>5, <2>1, EventsAssumption DEF EInv, PlacesInv, Slots
  <2>3. CASE e.slot = s
    <3>1. p = place[s[1]] /\ n = s[2]
      BY <2>3 DEF p, n
    <3>2. /\ 1 \in 1..Len(all) /\ all[1].slot = s
          /\ \A j \in 1..Len(all) : all[j].slot = s => j <= 1
      <4>1. Len(rest) \in Nat
        BY <1>7
      <4>2. ASSUME NEW j \in 1..Len(all), all[j].slot = s, ~(j <= 1)
            PROVE  FALSE
        <5>1. j - 1 \in 1..Len(rest) /\ (j - 1) + 1 = j
          BY <1>7, <4>1, <4>2
        <5>2. rest[j - 1] = all[j]
          BY <1>7, <5>1
        <5>3. QED
          BY <2>1, <4>2, <5>1, <5>2 DEF AwaitsNone
      <4>3. QED
        BY <1>7, <2>3, <4>1, <4>2
    <3>3. /\ s \in Absent => e.mask \cap Departures # {}
          /\ s \in arrived => e.mask \cap Arrivals # {}
      <4>1. Tells(all, Absent, arrived, jumped)
        BY <1>1 DEF InOrder
      <4>2. QED
        BY <1>7, <2>1, <3>2, <4>1, Zenon DEF Tells
    <3>4. 1 \in DOMAIN all /\ all[1].slot = s /\ all[1].mask = e.mask
      BY <1>7, <3>2
    <3>5. e.mask \cap Departures # {} /\ e.mask \cap Arrivals # {} => s \in mixed
      BY <1>1, <3>4 DEF InOrder, Mixed, Both
    <3>6. Departures \subseteq e.mask => s \in doubled
      BY <1>1, <3>4 DEF InOrder, Doubled, Both, Departures
    <3>7. /\ s \in arrived /\ ~(flavour = "C" /\ s \in mixed) => r = "scan"
          /\ s \in Absent /\ ~(flavour = "Go" /\ s \in mixed \cup doubled) => r = "remove"
      BY <1>5, <1>6, <3>3, <3>5, <3>6, ReactionIsRight DEF r
    <3>8. CASE Allows(p, n)
      <4>1. Heard(s)' = r
        BY <1>3, <1>10, <2>2, <3>1, <3>8 DEF Heard
      <4>2. QED
        BY <3>7, <4>1
    <3>9. CASE ~Allows(p, n)
      <4>1. heard' = heard /\ <<p, n>> \notin DOMAIN heard
        BY <1>2, <3>9 DEF EInv, AllowedInv, p, n, e
      <4>2. Heard(s)' = "nothing"
        BY <1>3, <3>1, <4>1 DEF Heard
      <4>3. QED
        BY <3>1, <3>9, <4>2
    <3>10. QED
      BY <3>8, <3>9
  <2>4. CASE e.slot # s
    <3>1. AwaitsNone(Pending, s)
      <4>1. SUFFICES ASSUME NEW j \in 1..Len(all)
                     PROVE  all[j].slot # s
        BY DEF AwaitsNone, all
      <4>2. CASE j = 1
        BY <1>7, <2>4, <4>2
      <4>3. CASE j # 1
        <5>1. j - 1 \in 1..Len(rest) /\ (j - 1) + 1 = j
          BY <1>7, <4>3
        <5>2. rest[j - 1] = all[j]
          BY <1>7, <5>1
        <5>3. QED
          BY <2>1, <5>1, <5>2 DEF AwaitsNone
      <4>4. QED
        BY <4>2, <4>3
    <3>2. <<p, n>> # <<place[s[1]], s[2]>>
      <4>1. SUFFICES ASSUME p = place[s[1]], n = s[2]
                     PROVE  FALSE
        OBVIOUS
      <4>2. e.slot[1] = s[1]
        BY <1>5, <2>2, <4>1 DEF EInv, PlacesInv, p
      <4>3. QED
        BY <2>2, <2>4, <4>1, <4>2 DEF n
    <3>3. Heard(s)' = Heard(s)
      <4>1. PICK path : path = <<place[s[1]], s[2]>>
        OBVIOUS
      <4>2. /\ path \in DOMAIN heard' <=> path \in DOMAIN heard
            /\ path \in DOMAIN heard => heard'[path] = heard[path]
        BY <1>11, <3>2, <4>1
      <4>3. Heard(s) = IF path \in DOMAIN heard THEN heard[path] ELSE "nothing"
        BY <4>1 DEF Heard
      <4>4. Heard(s)' = IF path \in DOMAIN heard' THEN heard'[path] ELSE "nothing"
        BY <1>3, <4>1 DEF Heard
      <4>5. QED
        BY <4>2, <4>3, <4>4
    <3>4. QED
      BY <2>1, <3>1, <3>3 DEF EInv, HeardInv
  <2>5. QED
    BY <2>3, <2>4
<1>17. QED
  BY <1>2, <1>3, <1>4, <1>1, <1>9, <1>14, <1>15, <1>13, <1>16 DEF EInv

-----------------------------------------------------------------------------
(* The invariant, and what follows from it *)

\* Nothing is under way, and nothing was heard.
LEMMA InitKeeps == Init => EInv
<1> SUFFICES ASSUME Init
             PROVE  EInv
  OBVIOUS
<1>1. /\ queue = <<>> /\ buffer = <<>> /\ heard = <<>> /\ changes = 0
      /\ writers = {} /\ arrived = {} /\ moved = {} /\ orphaned = {}
      /\ mixed = {} /\ doubled = {} /\ jumped = {}
      /\ flavour \in Flavours /\ watch \in WatchPaths
      /\ place \in [Dirs -> Places]
      /\ \A d, c \in Dirs : place[d] = place[c] => d = c
  BY DEF Init
<1>2. DOMAIN <<>> = {} /\ Len(<<>>) = 0 /\ 1..0 = {}
  OBVIOUS
<1>3. TypeOK
  <2>1. file \in [Slots -> Files \cup {None}]
    <3>1. \A s \in Slots : <<s, 0>> \in Files
      BY EventsAssumption DEF Files
    <3>2. QED
      BY <3>1 DEF Init
  <2>2. Size(buffer) <= Room
    <3>1. {i \in DOMAIN <<>> : <<>>[i].slot[2] \in LongNames} = {}
      BY <1>2
    <3>2. Cardinality({}) = 0
      BY FS_EmptySet
    <3>3. LongSize - 1 \in Int /\ \A k \in Int : 0 + k * 0 = 0
      BY EventsAssumption
    <3>4. Size(<<>>) = 0 + (LongSize - 1) * 0
      BY <1>2, <3>1, <3>2, Zenon DEF Size
    <3>5. Room \in Nat
      BY EventsAssumption DEF Room
    <3>6. QED
      BY <1>1, <3>3, <3>4, <3>5
  <2>3. changes \in 0..MaxChanges
    BY <1>1, EventsAssumption
  <2>4. QED
    BY <1>1, <1>2, <2>1, <2>2, <2>3 DEF TypeOK
<1>4. PlacesInv
  BY <1>1 DEF PlacesInv
<1>5. Pending = <<>>
  BY <1>1 DEF Pending
<1>6. InOrder(Pending, Absent, arrived, mixed, doubled, jumped)
  BY <1>2, <1>5 DEF InOrder, Tells, Mixed, Doubled, Both
<1>7. AllowedInv
  BY <1>1, <1>2 DEF AllowedInv
<1>8. HeardInv
  BY <1>1, <1>2 DEF HeardInv, Heard
<1>9. QED
  BY <1>1, <1>3, <1>4, <1>6, <1>7, <1>8 DEF EInv

\* Steps of nobody.
LEMMA StutterKeeps ==
    ASSUME EInv, UNCHANGED vars
    PROVE  EInv'
<1>1. /\ flavour' = flavour /\ watch' = watch /\ place' = place /\ file' = file
      /\ writers' = writers /\ changes' = changes /\ moved' = moved
      /\ arrived' = arrived /\ orphaned' = orphaned
      /\ queue' = queue /\ buffer' = buffer /\ heard' = heard
      /\ mixed' = mixed /\ doubled' = doubled /\ jumped' = jumped /\ Absent' = Absent
  BY DEF vars, setting, files, merges, Absent
<1>2. TypeOK'
  BY <1>1 DEF EInv, TypeOK, Size, Room
<1>3. PlacesInv'
  BY <1>1 DEF EInv, PlacesInv
<1>4. InOrder(Pending, Absent, arrived, mixed, doubled, jumped)'
  BY <1>1 DEF EInv, Pending
<1>5. \A p, n : Allows(p, n)' <=> Allows(p, n)
  BY <1>1 DEF Allows, CAllows, GoAllows
<1>6. AllowedInv'
  BY <1>1, <1>5 DEF EInv, AllowedInv
<1>7. HeardInv'
  <2>1. \A s : Heard(s)' = Heard(s)
    BY <1>1 DEF Heard
  <2>2. Pending' = Pending
    BY <1>1 DEF Pending
  <2>3. QED
    BY <1>1, <1>5, <2>1, <2>2 DEF EInv, HeardInv
<1>8. QED
  BY <1>1, <1>2, <1>3, <1>4, <1>6, <1>7 DEF EInv

\* One lemma for each kind of step.
LEMMA EInvStep == EInv /\ [Next]_vars => EInv'
<1> SUFFICES ASSUME EInv, [Next]_vars
             PROVE  EInv'
  OBVIOUS
<1>1. CASE \E pr \in Processes, s \in Slots : Open(pr, s)
  BY <1>1, OpenKeeps
<1>2. CASE \E h \in writers : Close(h)
  BY <1>2, CloseKeeps
<1>3. CASE \E pr \in Processes, s \in Slots : Delete(pr, s)
  BY <1>3, DeleteKeeps
<1>4. CASE \E pr \in Processes, s, t \in Slots : Rename(pr, s, t)
  BY <1>4, RenameKeeps
<1>5. CASE \E d \in Dirs : RemoveDir(d) \/ \E p \in Places : MoveDir(d, p)
  BY <1>5, DirsKeep
<1>6. CASE ReadEvents
  BY <1>6, ReadKeeps
<1>7. CASE ParseEvent
  BY <1>7, ParseKeeps
<1>8. CASE UNCHANGED vars
  BY <1>8, StutterKeeps
<1>9. QED
  BY <1>1, <1>2, <1>3, <1>4, <1>5, <1>6, <1>7, <1>8, Zenon DEF Next, Change, Watcher

\* The inductive invariant: what is under way for a slot ends with what is true of it
\* (watcher.c:440-515, fswatcher.go:416-505).
THEOREM EventsInductive == Spec => []EInv
<1>1. Init => EInv
  BY InitKeeps
<1>2. EInv /\ [Next]_vars => EInv'
  BY EInvStep
<1>3. QED
  BY <1>1, <1>2, PTL DEF Spec

\* Types: events have bits, and what one read returns fits into the buffer it was
\* given (watcher.c:443, fswatcher.go:417).
THEOREM EventsTypeCorrect == Spec => []TypeOK
<1>1. EInv => TypeOK
  BY DEF EInv
<1>2. QED
  BY <1>1, EventsInductive, PTL

\* When all is handled, nothing is under way.
LEMMA QuietAwaitsNone ==
    ASSUME EInv, Quiet, NEW s
    PROVE  AwaitsNone(Pending, s)
<1>1. Pending = <<>>
  BY DEF Quiet, Pending
<1>2. QED
  BY <1>1 DEF AwaitsNone

\* The directory of a watched slot is at a path below the one that is watched, and its
\* events get through, but for Go's below the root.
LEMMA WatchedIsAllowed ==
    ASSUME EInv, NEW s \in Watched
    PROVE  /\ s \in Slots /\ s[1] \notin moved
           /\ \/ Allows(place[s[1]], s[2])
              \/ flavour = "Go" /\ watch = <<>> /\ place[s[1]] # <<>>
<1>1. s \in Slots /\ s[1] \notin moved /\ IsPrefix(watch, place[s[1]])
  BY DEF Watched
<1>2. place[s[1]] \in Places /\ s[2] \in Names
  BY <1>1 DEF EInv, PlacesInv, Slots
<1>3. flavour \in Flavours /\ watch \in WatchPaths
  BY DEF EInv, TypeOK
<1>4. QED
  BY <1>1, <1>2, <1>3, FiltersAreRight

\* The last thing heard of a file that was written or moved to its place is a scan,
\* but for the cases ArrivalsAreHeard names: a merge over a younger event, a mask with
\* a removal in the C watcher, Go's prefix of "/" (watcher.c:484-505,
\* fswatcher.go:426-440, parsing.go:83-104, scan.py:229-243).
THEOREM ArrivalsReachTheScanner == Spec => []ArrivalsAreHeard
<1>1. ASSUME EInv
      PROVE  ArrivalsAreHeard
  <2>1. SUFFICES ASSUME Quiet, NEW s \in arrived \cap Watched
                 PROVE  \/ Heard(s) = "scan"
                        \/ s \in jumped
                        \/ flavour = "C" /\ s \in mixed
                        \/ flavour = "Go" /\ watch = <<>> /\ place[s[1]] # <<>>
    BY DEF ArrivalsAreHeard
  <2>2. AwaitsNone(Pending, s)
    BY <1>1, <2>1, QuietAwaitsNone
  <2>3. /\ s \in Slots /\ s[1] \notin moved
        /\ \/ Allows(place[s[1]], s[2])
           \/ flavour = "Go" /\ watch = <<>> /\ place[s[1]] # <<>>
    BY <1>1, WatchedIsAllowed
  <2>4. QED
    BY <1>1, <2>2, <2>3 DEF EInv, HeardInv
<1>2. QED
  BY <1>1, EventsInductive, PTL

\* The last thing heard of a path without a file is not a scan, but for the cases
\* RemovalsAreHeard names: a file closed after it was removed, a merge over a younger
\* event, Go's "multiple" (watcher.c:484-505, 609, parsing.go:100-102).
THEOREM RemovalsReachTheScanner == Spec => []RemovalsAreHeard
<1>1. ASSUME EInv
      PROVE  RemovalsAreHeard
  <2>1. SUFFICES ASSUME Quiet, NEW s \in Watched, file[s] = None, Heard(s) = "scan",
                        s \notin orphaned
                 PROVE  s \in jumped \/ (flavour = "Go" /\ s \in mixed \cup doubled)
    BY DEF RemovalsAreHeard
  <2>2. AwaitsNone(Pending, s)
    BY <1>1, <2>1, QuietAwaitsNone
  <2>3. s \in Slots /\ s[1] \notin moved
    BY DEF Watched
  <2>4. s \in Absent
    BY <2>1, <2>3 DEF Absent
  <2>5. QED
    BY <1>1, <2>1, <2>2, <2>3, <2>4 DEF EInv, HeardInv
<1>2. QED
  BY <1>1, EventsInductive, PTL

\* Nothing is heard of a path outside of the watched tree, wherever directories are
\* moved between an event and its parsing (watcher.c:478, 587-592, fswatcher.go:426-440).
THEOREM OnlyWatchedPathsAreHeard == Spec => []OnlyWatchedHeard
<1>1. ASSUME EInv
      PROVE  OnlyWatchedHeard
  <2>1. SUFFICES ASSUME NEW p \in DOMAIN heard
                 PROVE  IsPrefix(watch, p[1])
    BY DEF OnlyWatchedHeard
  <2>2. p[1] \in Places /\ p[2] \in Names /\ Allows(p[1], p[2])
    BY <1>1 DEF EInv, AllowedInv
  <2>3. flavour \in Flavours /\ watch \in WatchPaths
    BY <1>1 DEF EInv, TypeOK
  <2>4. QED
    BY <2>2, <2>3, FiltersAreRight
<1>2. QED
  BY <1>1, EventsInductive, PTL

=============================================================================
