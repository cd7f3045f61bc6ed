----------------------------- MODULE SensorProofs -----------------------------
(***************************************************************************)
(* Proofs about the sensor, for any threads, hosts, events, windows and    *)
(* limits.  The deduplicator: the table is bounded, what passes twice is a *)
(* window apart, and what is suppressed lies within a window of one that   *)
(* passed.  The watchlist detector: a host that asks is alerted.  The      *)
(* dispatcher: there is evidence of what is alerted, and mail is bounded.  *)
(* The scan detectors: what they report is a scan, and no scan is missed.  *)
(* The ARP detector: it reports changes it saw, and misses one at most.    *)
(***************************************************************************)
EXTENDS MCSensor, FiniteSetTheorems, WellFoundedInduction, TLAPS

-----------------------------------------------------------------------------
(* The inductive invariant.                                                *)

TableBounded == IsFiniteSet(seen) /\ Cardinality(seen) <= MaxEntries

(* The table has only what passed. *)
OnlyPassed == seen \subseteq passed

(* No reading of the clock is ahead of it. *)
ClocksRead ==
  /\ \A e \in passed : e.ts <= now
  /\ \A c \in Callers : pc[c] = "called" => call[c].ts <= now

(* What passed is remembered: it is in the table, or a younger sighting of *)
(* the same event is; or else nobody who could still repeat it is about.   *)
Remembered(p) == \E e \in seen : e.fp = p.fp /\ (e = p \/ p.ts + Window <= e.ts)
Forgotten(p) ==
  /\ p.ts + Window <= now
  /\ \A c \in Callers : pc[c] = "called" => p.ts + Window <= call[c].ts
Accounted == ~strained => \A p \in passed : Remembered(p) \/ Forgotten(p)

IInv ==
  TypeOK /\ TableBounded /\ OnlyPassed /\ ClocksRead /\ Accounted /\ NoRepeatPasses

-----------------------------------------------------------------------------
USE EntriesAssumption, WindowAssumption, ClockAssumption DEF Times, Sightings

(* Eviction leaves a part of the table, with room for one more. *)
LEMMA EvictMakesRoom ==
  ASSUME TypeOK, TableBounded, NEW ts \in Times, NEW table \in Evict(seen, ts, Window)
  PROVE  /\ table \subseteq seen
         /\ IsFiniteSet(table) /\ Cardinality(table) \in Nat
         /\ Cardinality(table) + 1 <= MaxEntries
<1> DEFINE unexpired == Unexpired(seen, ts, Window)
<1>1. unexpired \subseteq seen
  BY DEF Unexpired
<1>2. IsFiniteSet(unexpired) /\ Cardinality(unexpired) <= Cardinality(seen)
  BY <1>1, TableBounded, FS_Subset DEF TableBounded
<1>3. Cardinality(seen) \in Nat /\ Cardinality(unexpired) \in Nat
  BY <1>2, TableBounded, FS_CardinalityType DEF TableBounded
<1>4. table \subseteq seen
  BY <1>1 DEF Evict, YoungerHalves
<1>5. IsFiniteSet(table) /\ Cardinality(table) \in Nat
  BY <1>4, TableBounded, FS_Subset, FS_CardinalityType DEF TableBounded
<1> HIDE DEF unexpired
<1>6. CASE Cardinality(seen) < MaxEntries
  BY <1>3, <1>4, <1>5, <1>6 DEF Evict
<1>7. CASE Cardinality(seen) >= MaxEntries /\ Cardinality(unexpired) < MaxEntries
  BY <1>3, <1>4, <1>5, <1>7 DEF Evict, unexpired
<1>8. CASE Cardinality(seen) >= MaxEntries /\ Cardinality(unexpired) >= MaxEntries
  <2>1. table \in YoungerHalves(unexpired)
    BY <1>3, <1>8 DEF Evict, unexpired
  <2>2. Cardinality(table) = Cardinality(unexpired) - Cardinality(unexpired) \div 2
    BY <2>1 DEF YoungerHalves
  <2>3. Cardinality(unexpired) <= MaxEntries
    BY <1>2, <1>3, TableBounded DEF TableBounded
  <2>4. Cardinality(unexpired) = MaxEntries
    BY <1>3, <1>8, <2>3
  <2>5. MaxEntries - MaxEntries \div 2 + 1 <= MaxEntries
    OBVIOUS
  <2> QED BY <1>4, <1>5, <2>2, <2>4, <2>5
<1> QED BY <1>3, <1>6, <1>7, <1>8

(* While the table is not strained nothing goes that somebody may repeat.  *)
LEMMA EvictForgets ==
  ASSUME TypeOK, TableBounded, ClocksRead, NEW c \in Callers, pc[c] = "called",
         NEW table \in Evict(seen, call[c].ts, Window),
         ~Full(call[c].ts), ~Overtakes(call[c].ts, table),
         NEW e \in seen \ table
  PROVE  Forgotten(e)
<1> DEFINE ts == call[c].ts
<1>1. ts \in Times /\ ts <= now /\ now \in Times /\ e.ts \in Times
  BY TypeOK, ClocksRead, pc[c] = "called" DEF TypeOK, ClocksRead
<1>2. Unexpired(seen, ts, Window) = {x \in seen : ts - x.ts <= Window}
  BY <1>1, TypeOK DEF Unexpired, TypeOK
<1>3. Cardinality(Unexpired(seen, ts, Window)) < MaxEntries
  <2>1. IsFiniteSet(Unexpired(seen, ts, Window))
    BY TableBounded, FS_Subset DEF TableBounded, Unexpired
  <2>2. Cardinality(Unexpired(seen, ts, Window)) \in Nat
    BY <2>1, FS_CardinalityType
  <2> QED BY <1>2, <2>2, ~Full(call[c].ts) DEF Full
<1>4. table = seen \/ table = Unexpired(seen, ts, Window)
  BY <1>3 DEF Evict
<1>5. Window < ts - e.ts
  BY <1>1, <1>2, <1>4
<1>6. \A d \in Callers : pc[d] = "called" => e.ts + Window <= call[d].ts
  <2> SUFFICES ASSUME NEW d \in Callers, pc[d] = "called"
               PROVE  e.ts + Window <= call[d].ts
    OBVIOUS
  <2>1. call[d].ts \in Times
    BY TypeOK DEF TypeOK
  <2>2. ~(call[d].ts - e.ts < Window)
    BY <1>5, ~Overtakes(call[c].ts, table) DEF Overtakes
  <2> QED BY <1>1, <2>1, <2>2
<1> QED BY <1>1, <1>5, <1>6 DEF Forgotten

-----------------------------------------------------------------------------
(* One lemma per action.                                                   *)

LEMMA TickStep ==
  ASSUME IInv, Tick
  PROVE  IInv'
<1>1. TypeOK' /\ TableBounded' /\ OnlyPassed' /\ NoRepeatPasses'
  BY DEF IInv, Tick, TypeOK, TableBounded, OnlyPassed, NoRepeatPasses
<1>2. ClocksRead'
  BY DEF IInv, Tick, TypeOK, ClocksRead
<1>3. Accounted'
  BY DEF IInv, Tick, TypeOK, Accounted, Remembered, Forgotten
<1> QED BY <1>1, <1>2, <1>3 DEF IInv

(* A caller that reads the clock comes later than all that is forgotten.   *)
LEMMA CallStep ==
  ASSUME IInv, NEW c \in Callers, NEW f \in Fingerprints, Call(c, f)
  PROVE  IInv'
<1>1. TypeOK' /\ TableBounded' /\ OnlyPassed' /\ NoRepeatPasses'
  BY DEF IInv, Call, TypeOK, TableBounded, OnlyPassed, NoRepeatPasses
<1>2. ClocksRead'
  BY DEF IInv, Call, TypeOK, ClocksRead
<1>3. \A p \in passed : Remembered(p) => Remembered(p)'
  BY DEF Call, Remembered
<1>4. \A p \in passed : Forgotten(p) => Forgotten(p)'
  BY DEF IInv, Call, TypeOK, Forgotten
<1>5. Accounted'
  BY <1>3, <1>4 DEF IInv, Call, Accounted
<1> QED BY <1>1, <1>2, <1>5 DEF IInv

(* Whatever the call answers, the table it found was bounded, and what its *)
(* eviction dropped is forgotten, with all that it stood for.              *)
LEMMA EvictionKeepsAccounts ==
  ASSUME IInv, NEW c \in Callers, pc[c] = "called",
         NEW table \in Evict(seen, call[c].ts, Window), Return(c, table), ~strained',
         NEW p \in passed
  PROVE  \/ \E e \in table : e.fp = p.fp /\ (e = p \/ p.ts + Window <= e.ts)
         \/ Forgotten(p)'
<1>1. ~strained /\ ~Full(call[c].ts) /\ ~Overtakes(call[c].ts, table)
  BY Return(c, table), ~strained' DEF Return
<1>2. Remembered(p) \/ Forgotten(p)
  BY <1>1 DEF IInv, Accounted
<1>3. \A q \in passed : Forgotten(q) => Forgotten(q)'
  BY Return(c, table) DEF IInv, TypeOK, Return, Forgotten
<1>4. ASSUME NEW e \in seen, e.fp = p.fp, e = p \/ p.ts + Window <= e.ts, e \notin table
      PROVE  Forgotten(p)'
  <2>1. Forgotten(e)
    BY <1>1, <1>4, EvictForgets, pc[c] = "called" DEF IInv
  <2>2. p.ts <= e.ts /\ p.ts \in Times /\ e.ts \in Times /\ now \in Times
    BY <1>4 DEF IInv, TypeOK
  <2>3. \A d \in Callers : pc[d] = "called" => call[d].ts \in Times
    BY DEF IInv, TypeOK
  <2>4. Forgotten(p)
    BY <2>1, <2>2, <2>3 DEF Forgotten
  <2> QED BY <1>3, <2>4
<1> QED BY <1>2, <1>3, <1>4 DEF Remembered

LEMMA SuppressStep ==
  ASSUME IInv, NEW c \in Callers, pc[c] = "called",
         NEW table \in Evict(seen, call[c].ts, Window), Suppress(c, table)
  PROVE  IInv'
<1>1. /\ table \subseteq seen /\ IsFiniteSet(table)
      /\ Cardinality(table) \in Nat /\ Cardinality(table) + 1 <= MaxEntries
  BY EvictMakesRoom, pc[c] = "called" DEF IInv, TypeOK
<1>2. TypeOK' /\ TableBounded' /\ OnlyPassed' /\ ClocksRead'
  <2>1. TypeOK'
    BY <1>1 DEF IInv, TypeOK, Suppress, Return
  <2>2. TableBounded'
    BY <1>1 DEF TableBounded, Suppress
  <2>3. OnlyPassed' /\ ClocksRead'
    BY <1>1 DEF IInv, TypeOK, OnlyPassed, ClocksRead, Suppress, Return
  <2> QED BY <2>1, <2>2, <2>3
<1>3. Accounted'
  BY EvictionKeepsAccounts, pc[c] = "called" DEF Accounted, Suppress, Remembered
<1>4. NoRepeatPasses'
  BY DEF IInv, NoRepeatPasses, Suppress, Return
<1> QED BY <1>2, <1>3, <1>4 DEF IInv

(* What passes lies a window after all that passed of its event: after the *)
(* entry that remembers it, or after it is forgotten.                      *)
LEMMA RegisterStep ==
  ASSUME IInv, NEW c \in Callers, pc[c] = "called",
         NEW table \in Evict(seen, call[c].ts, Window), Register(c, table)
  PROVE  IInv'
<1> DEFINE s == call[c]
<1>1. /\ table \subseteq seen /\ IsFiniteSet(table)
      /\ Cardinality(table) \in Nat /\ Cardinality(table) + 1 <= MaxEntries
  BY EvictMakesRoom, pc[c] = "called" DEF IInv, TypeOK
<1>2. s \in Sightings /\ s.ts <= now /\ now \in Times
  BY pc[c] = "called" DEF IInv, TypeOK, ClocksRead
<1>3. TypeOK'
  BY <1>1, <1>2 DEF IInv, TypeOK, Register, Registered, Return
<1>4. TableBounded'
  <2> DEFINE others == {e \in table : e.fp # s.fp}
  <2>1. IsFiniteSet(others) /\ Cardinality(others) <= Cardinality(table)
    BY <1>1, FS_Subset
  <2>2. Cardinality(others) \in Nat
    BY <2>1, FS_CardinalityType
  <2>3. IsFiniteSet(others \cup {s}) /\ Cardinality(others \cup {s}) <= Cardinality(others) + 1
    <3> HIDE DEF others
    <3> QED BY <2>1, <2>2, FS_AddElement
  <2>4. Cardinality(others \cup {s}) \in Nat
    BY <2>3, FS_CardinalityType
  <2>5. seen' = others \cup {s}
    BY DEF Register, Registered
  <2> HIDE DEF others
  <2> QED BY <1>1, <2>1, <2>2, <2>3, <2>4, <2>5 DEF TableBounded
<1>5. OnlyPassed' /\ ClocksRead'
  BY <1>1, <1>2 DEF IInv, TypeOK, OnlyPassed, ClocksRead, Register, Registered, Return
<1>6. \A e \in table : e.fp = s.fp => e.ts + Window <= s.ts
  BY <1>1, <1>2 DEF IInv, TypeOK, Register, Repeats
<1>7. ASSUME ~strained', NEW p \in passed, p.fp = s.fp
      PROVE  p.ts + Window <= s.ts
  <2>1. p.ts \in Times
    BY DEF IInv, TypeOK
  <2>2. ~strained /\ (Remembered(p) \/ Forgotten(p))
    BY <1>7 DEF IInv, Accounted, Register, Return
  <2>3. CASE Forgotten(p)
    BY <2>3, pc[c] = "called" DEF Forgotten
  <2>4. CASE Remembered(p)
    <3>1. PICK e \in seen : e.fp = p.fp /\ (e = p \/ p.ts + Window <= e.ts)
      BY <2>4 DEF Remembered
    <3>2. e.ts \in Times
      BY DEF IInv, TypeOK
    <3>3. CASE e \in table
      BY <1>2, <1>6, <1>7, <2>1, <3>1, <3>2, <3>3
    <3>4. CASE e \notin table
      <4>1. ~Full(s.ts) /\ ~Overtakes(s.ts, table)
        BY <1>7 DEF Register, Return
      <4>2. Forgotten(e)
        BY <3>4, <4>1, EvictForgets, pc[c] = "called" DEF IInv
      <4>3. e.ts + Window <= s.ts
        BY <4>2, pc[c] = "called" DEF Forgotten
      <4> QED BY <1>2, <2>1, <3>1, <3>2, <4>3
    <3> QED BY <3>3, <3>4
  <2> QED BY <2>2, <2>3, <2>4
<1>8. Accounted'
  <2> SUFFICES ASSUME ~strained', NEW p \in passed'
               PROVE  Remembered(p)' \/ Forgotten(p)'
    BY DEF Accounted
  <2>1. s \in seen' /\ seen' = {e \in table : e.fp # s.fp} \cup {s}
    BY DEF Register, Registered
  <2>2. CASE p = s
    BY <2>1, <2>2 DEF Remembered
  <2>3. CASE p \in passed /\ p.fp = s.fp
    BY <1>7, <2>1, <2>3 DEF Remembered
  <2>4. CASE p \in passed /\ p.fp # s.fp
    <3>1. \/ \E e \in table : e.fp = p.fp /\ (e = p \/ p.ts + Window <= e.ts)
          \/ Forgotten(p)'
      BY <2>4, EvictionKeepsAccounts, pc[c] = "called" DEF Register
    <3> QED BY <2>1, <2>4, <3>1 DEF Remembered
  <2> QED BY <2>2, <2>3, <2>4 DEF Register
<1>9. NoRepeatPasses'
  <2> SUFFICES ASSUME ~strained', NEW p \in passed', NEW q \in passed',
                      p.fp = q.fp, p.ts <= q.ts
               PROVE  p = q \/ Window <= q.ts - p.ts
    BY DEF NoRepeatPasses
  <2>1. passed' = passed \cup {s} /\ ~strained
    BY DEF Register, Return
  <2>2. \A x \in passed : x.ts \in Times
    BY DEF IInv, TypeOK
  <2>3. CASE p \in passed /\ q \in passed
    BY <2>1, <2>3 DEF IInv, NoRepeatPasses
  <2>4. CASE p \in passed /\ q = s
    BY <1>2, <1>7, <2>2, <2>4
  <2>5. CASE p = s /\ q \in passed
    BY <1>2, <1>7, <2>2, <2>5
  <2> QED BY <2>1, <2>3, <2>4, <2>5
<1> QED BY <1>3, <1>4, <1>5, <1>8, <1>9 DEF IInv

-----------------------------------------------------------------------------
(* The invariant holds in every reachable state.                           *)
THEOREM InvariantHolds == Spec => []IInv
<1>1. Init => IInv
  <2> SUFFICES ASSUME Init PROVE IInv
    OBVIOUS
  <2>1. TypeOK
    <3>1. now \in Times
      BY DEF Init
    <3>2. /\ seen \subseteq Sightings /\ passed \subseteq Sightings
          /\ \A e, f \in seen : e.fp = f.fp => e = f
      BY DEF Init
    <3>3. pc \in [Callers -> {"idle", "called"}]
      BY DEF Init
    <3>4. call \in [Callers -> Sightings \cup {None}]
      <4> DEFINE Calls == Sightings \cup {None}
      <4>1. None \in Calls
        OBVIOUS
      <4> HIDE DEF Calls
      <4>2. call \in [Callers -> Calls]
        BY <4>1 DEF Init
      <4> QED BY <4>2 DEF Calls
    <3>5. \A c \in Callers : pc[c] = "called" => call[c] \in Sightings
      BY DEF Init
    <3>6. strained \in BOOLEAN
      BY Zenon DEF Init
    <3> QED BY <3>1, <3>2, <3>3, <3>4, <3>5, <3>6 DEF TypeOK
  <2>3. OnlyPassed /\ ClocksRead /\ Accounted /\ NoRepeatPasses
    BY DEF Init, OnlyPassed, ClocksRead, Accounted, NoRepeatPasses
  <2>2. TableBounded
    BY FS_EmptySet DEF Init, TableBounded
  <2> QED BY <2>1, <2>2, <2>3 DEF IInv
<1>2. ASSUME IInv, UNCHANGED vars PROVE IInv'
  BY <1>2 DEF vars, IInv, TypeOK, TableBounded, OnlyPassed, ClocksRead, Accounted, Remembered,
              Forgotten, NoRepeatPasses
<1>3. IInv /\ [Next]_vars => IInv'
  BY <1>2, TickStep, CallStep, SuppressStep, RegisterStep DEF Next
<1> QED BY <1>1, <1>3, PTL DEF Spec

(* What is suppressed repeats one that passed, less than a window before.  *)
LEMMA OnlyRepeatsSuppressed ==
  ASSUME IInv, [Next]_vars, NEW c \in Callers, pc[c] = "called", pc'[c] = "idle",
         passed' = passed
  PROVE  \E p \in passed : p.fp = call[c].fp /\ call[c].ts - p.ts < Window
<1>1. PICK table \in Evict(seen, call[c].ts, Window) : Suppress(c, table) \/ Register(c, table)
  <2>1. CASE Tick
    BY <2>1, pc[c] = "called", pc'[c] = "idle" DEF Tick
  <2>2. ASSUME NEW d \in Callers, NEW f \in Fingerprints, Call(d, f)
        PROVE  FALSE
    BY <2>2, pc[c] = "called", pc'[c] = "idle" DEF IInv, TypeOK, Call
  <2>3. CASE UNCHANGED vars
    BY <2>3, pc[c] = "called", pc'[c] = "idle" DEF vars
  <2>4. ASSUME NEW d \in Callers, pc[d] = "called",
               NEW table \in Evict(seen, call[d].ts, Window), Suppress(d, table) \/ Register(d, table)
        PROVE  d = c
    BY <2>4, pc[c] = "called", pc'[c] = "idle" DEF IInv, TypeOK, Suppress, Register, Return
  <2> QED BY <2>1, <2>2, <2>3, <2>4 DEF Next
<1>2. table \subseteq seen
  BY EvictMakesRoom, pc[c] = "called" DEF IInv, TypeOK
<1>3. CASE Suppress(c, table)
  BY <1>2, <1>3 DEF IInv, OnlyPassed, Suppress, Repeats
<1>4. CASE Register(c, table)
  <2>1. call[c] \in passed
    BY <1>4, passed' = passed DEF Register
  <2>2. call[c].ts - call[c].ts < Window
    BY pc[c] = "called" DEF IInv, TypeOK
  <2> QED BY <2>1, <2>2
<1> QED BY <1>1, <1>3, <1>4

(* Suppression is honest, in a bounded table (EventDeduplicator of         *)
(* detection/dedup.py).                                                    *)
THEOREM SuppressionStaysHonest == Spec => SuppressionIsHonest
<1>1. IInv => Bounded /\ NoRepeatPasses
  BY DEF IInv, TableBounded, Bounded
<1>2. IInv /\ [Next]_vars =>
        [\A c \in Callers : pc[c] = "called" /\ pc'[c] = "idle" /\ passed' = passed =>
           \E p \in passed : p.fp = call[c].fp /\ call[c].ts - p.ts < Window]_vars
  BY OnlyRepeatsSuppressed
<1> QED
  BY <1>1, <1>2, InvariantHolds, PTL DEF Spec, SuppressionIsHonest, SuppressedAfterPassing

-----------------------------------------------------------------------------
(* The scan detectors: counting in a deque.                                *)

Hits(d, t) == {i \in 1 .. Len(d) : d[i].target = t}
HeadHits(d, n, t) == {i \in 1 .. n : d[i].target = t}
(* What is left of a deque when its first n went and p came.               *)
Moved(d, n, p) == Append(SubSeq(d, n + 1, Len(d)), p)

LEMMA MovedDeque ==
  ASSUME NEW d \in Seq(N!Packets), NEW n \in 0 .. Len(d), NEW p \in N!Packets
  PROVE  /\ Moved(d, n, p) \in Seq(N!Packets) /\ Len(Moved(d, n, p)) = Len(d) - n + 1
         /\ \A i \in 1 .. Len(d) - n : Moved(d, n, p)[i] = d[n + i]
         /\ Moved(d, n, p)[Len(d) - n + 1] = p
<1> DEFINE s == SubSeq(d, n + 1, Len(d))
<1>1. Len(d) \in Nat /\ n \in Nat /\ n <= Len(d)
  OBVIOUS
<1>2. s \in Seq(N!Packets) /\ Len(s) = Len(d) - n /\ \A i \in 1 .. Len(d) - n : s[i] = d[n + i]
  BY <1>1
<1>3. Moved(d, n, p) = Append(s, p)
  BY DEF Moved
<1> HIDE DEF s
<1> QED BY <1>1, <1>2, <1>3

LEMMA HitsCount ==
  ASSUME NEW d \in Seq(N!Packets), NEW n \in 0 .. Len(d), NEW p \in N!Packets, NEW t
  PROVE  /\ IsFiniteSet(Hits(d, t)) /\ Cardinality(Hits(d, t)) \in Nat
         /\ Cardinality(HeadHits(d, n, t)) \in Nat
         /\ Cardinality(HeadHits(d, n, t)) <= Cardinality(Hits(d, t))
         /\ Cardinality(Hits(Moved(d, n, p), t)) =
              Cardinality(Hits(d, t)) - Cardinality(HeadHits(d, n, t))
                + (IF p.target = t THEN 1 ELSE 0)
<1> DEFINE Gone == {i \in 1 .. n : d[i].target = t}
           Rest == {i \in n + 1 .. Len(d) : d[i].target = t}
           new == Moved(d, n, p)
           Kept == {i \in 1 .. Len(d) - n : new[i].target = t}
           f == [i \in Rest |-> i - n]
<1>1. Len(d) \in Nat /\ n \in Nat /\ n <= Len(d)
  OBVIOUS
<1>2. /\ new \in Seq(N!Packets) /\ Len(new) = Len(d) - n + 1 /\ new[Len(d) - n + 1] = p
      /\ \A i \in 1 .. Len(d) - n : new[i] = d[n + i]
  BY MovedDeque
<1>3. IsFiniteSet(Hits(d, t)) /\ IsFiniteSet(Gone) /\ IsFiniteSet(Rest) /\ IsFiniteSet(Kept)
  <2>1. IsFiniteSet(1 .. Len(d)) /\ IsFiniteSet(1 .. n) /\ IsFiniteSet(n + 1 .. Len(d))
        /\ IsFiniteSet(1 .. Len(d) - n)
    BY <1>1, FS_Interval
  <2>2. Hits(d, t) \subseteq 1 .. Len(d) /\ Gone \subseteq 1 .. n /\ Rest \subseteq n + 1 .. Len(d)
        /\ Kept \subseteq 1 .. Len(d) - n
    BY DEF Hits
  <2> HIDE DEF Gone, Rest, Kept, new
  <2> QED BY <2>1, <2>2, FS_Subset
<1>4. Hits(d, t) = Gone \cup Rest /\ Gone \cap Rest = {}
  BY <1>1 DEF Hits
<1>5. Cardinality(Kept) = Cardinality(Rest)
  <2>1. \A i \in Rest : i - n \in Kept
    BY <1>1, <1>2
  <2>2. \A j \in Kept : n + j \in Rest /\ (n + j) - n = j
    BY <1>1, <1>2
  <2>3. \A i, j \in Rest : i - n = j - n => i = j
    BY <1>1
  <2>4. f \in Bijection(Rest, Kept)
    <3>1. f \in [Rest -> Kept]
      BY <2>1
    <3>2. \A i, j \in Rest : f[i] = f[j] => i = j
      BY <2>3
    <3>3. \A j \in Kept : \E i \in Rest : f[i] = j
      BY <2>2
    <3> HIDE DEF f, Rest, Kept
    <3> QED BY <3>1, <3>2, <3>3 DEF Bijection, Injection, Surjection, IsInjective
  <2>5. ExistsBijection(Rest, Kept)
    BY <2>4 DEF ExistsBijection
  <2> HIDE DEF Rest, Kept, f
  <2> QED BY <1>3, <2>5, FS_Bijection
<1>6. Cardinality(Hits(d, t)) = Cardinality(Gone) + Cardinality(Rest)
  <2> HIDE DEF Gone, Rest
  <2>1. Cardinality(Gone \cup Rest) = Cardinality(Gone) + Cardinality(Rest) - Cardinality(Gone \cap Rest)
    BY <1>3, FS_Union
  <2>2. Cardinality(Gone \cap Rest) = 0 /\ Cardinality(Gone) \in Nat /\ Cardinality(Rest) \in Nat
    BY <1>3, <1>4, FS_EmptySet, FS_CardinalityType
  <2> QED BY <1>4, <2>1, <2>2
<1>7. Cardinality(Gone) \in Nat /\ Cardinality(Rest) \in Nat /\ Cardinality(Hits(d, t)) \in Nat
  <2> HIDE DEF Gone, Rest
  <2> QED BY <1>3, FS_CardinalityType
<1>8. Cardinality(Hits(new, t)) = Cardinality(Kept) + (IF p.target = t THEN 1 ELSE 0)
  <2> DEFINE l == Len(d) - n + 1
  <2>1. l \in Nat /\ l \notin 1 .. Len(d) - n
    BY <1>1
  <2>2. l \notin Kept
    BY <2>1
  <2>3. Hits(new, t) = IF p.target = t THEN Kept \cup {l} ELSE Kept
    <3>1. 1 .. l = (1 .. Len(d) - n) \cup {l}
      BY <1>1
    <3>2. Len(new) = l /\ new[l] = p
      BY <1>2
    <3> HIDE DEF new, l
    <3> QED BY <3>1, <3>2 DEF Hits
  <2> HIDE DEF Kept, l, new
  <2>4. Cardinality(Kept \cup {l}) = Cardinality(Kept) + 1 /\ Cardinality(Kept) \in Nat
    BY <1>3, <2>2, FS_AddElement, FS_CardinalityType
  <2> QED BY <2>3, <2>4
<1> HIDE DEF Gone, Rest, Kept, new, f
<1>9. /\ Cardinality(Gone) <= Cardinality(Hits(d, t))
      /\ Cardinality(Hits(new, t)) =
           Cardinality(Hits(d, t)) - Cardinality(Gone) + (IF p.target = t THEN 1 ELSE 0)
  BY <1>5, <1>6, <1>7, <1>8
<1> QED BY <1>3, <1>7, <1>9 DEF Gone, new, HeadHits

(* A set of places that has, with each, all before it, is an interval.     *)
LEMMA PlacesBefore ==
  ASSUME NEW l \in Nat, NEW X \in SUBSET (1 .. l),
         \A i \in X : \A j \in 1 .. i : j \in X
  PROVE  IsFiniteSet(X) /\ Cardinality(X) \in 0 .. l /\ X = 1 .. Cardinality(X)
<1> DEFINE Y == {m \in 0 .. l : m + 1 \notin X}
<1>1. Y \in SUBSET Nat /\ Y # {}
  <2>1. l + 1 \notin X /\ l \in 0 .. l
    OBVIOUS
  <2>2. l \in Y
    BY <2>1
  <2>3. \A y \in Y : y \in Nat
    OBVIOUS
  <2> HIDE DEF Y
  <2> QED BY <2>2, <2>3
<1>2. PICK m \in Y : \A y \in Y : ~ (<<y, m>> \in OpToRel(<, Nat))
  <2> HIDE DEF Y
  <2> QED BY <1>1, NatLessThanWellFounded, WFMin
<1>3. \A y \in Y : ~(y < m)
  <2> HIDE DEF Y
  <2> QED BY <1>1, <1>2 DEF OpToRel
<1>4. m \in 0 .. l /\ m + 1 \notin X
  OBVIOUS
<1>5. \A i \in 1 .. m : i \in X
  <2> SUFFICES ASSUME NEW i \in 1 .. m PROVE i \in X
    OBVIOUS
  <2>1. i - 1 \in 0 .. l /\ i - 1 < m /\ (i - 1) + 1 = i
    BY <1>4
  <2> QED BY <1>3, <2>1
<1>6. \A i \in X : i \in 1 .. m
  <2> SUFFICES ASSUME NEW i \in X, ~(i \in 1 .. m) PROVE FALSE
    OBVIOUS
  <2>1. m + 1 \in 1 .. i
    BY <1>4
  <2> QED BY <1>4, <2>1
<1> HIDE DEF Y
<1>7. X = 1 .. m
  BY <1>5, <1>6
<1>8. IsFiniteSet(1 .. m) /\ Cardinality(1 .. m) = m
  <2>1. m \in Nat /\ 1 \in Int
    BY <1>4
  <2>2. IsFiniteSet(1 .. m) /\ Cardinality(1 .. m) = IF 1 > m THEN 0 ELSE m - 1 + 1
    BY <2>1, FS_Interval
  <2> QED BY <2>1, <2>2
<1> QED BY <1>4, <1>7, <1>8

-----------------------------------------------------------------------------
(* The inductive invariant.                                                *)

(* The counter counts what is in the deque, all of it unreported, and in   *)
(* order but for the disorder of the capture.                              *)
Counted(s) ==
  /\ \A t \in Targets : counts[s][t] = Cardinality(Hits(deque[s], t))
  /\ \A i \in 1 .. Len(deque[s]) : deque[s][i] \in unreported[s]
  /\ \A j \in 1 .. Len(deque[s]) : \A i \in 1 .. j : deque[s][i].at - Skew <= deque[s][j].at

(* What is unreported and no longer in the deque is older than a window.   *)
InDeque(s, p) == \E i \in 1 .. Len(deque[s]) : deque[s][i] = p
StillCounted(s) ==
  \A p \in unreported[s] : p.at <= ticks /\ (InDeque(s, p) \/ ticks - p.at > Window)

ScanTypes ==
  /\ ticks \in 0 .. MaxTicks
  /\ scan \in {None} \cup [targets : SUBSET Targets, since : SUBSET N!Packets]
  /\ deque \in [Sources -> Seq(N!Packets)]
  /\ counts \in [Sources -> [Targets -> Nat]]
  /\ unreported \in [Sources -> SUBSET N!Packets]

ScanInv ==
  /\ ScanTypes /\ \A s \in Sources : Counted(s) /\ StillCounted(s)
  /\ N!ReportsAreScans /\ N!NoScanMissed

LEMMA NSameCount == \A X : N!Cardinality(X) = Cardinality(X)
BY DEF N!Cardinality, Cardinality

(* What leaves a deque: the packets at its head that are over.             *)
LEMMA ExpiredHead ==
  ASSUME NEW d \in Seq(N!Packets), NEW time \in Int
  PROVE  /\ N!Expired(d, time) \in 0 .. Len(d)
         /\ \A i \in 1 .. N!Expired(d, time) : time - d[i].at > Window
         /\ N!Expired(d, time) < Len(d) => ~(time - d[N!Expired(d, time) + 1].at > Window)
<1> USE SensorAssumption DEF N!ScanAssumption
<1> DEFINE X == {i \in DOMAIN d : \A j \in 1 .. i : time - d[j].at > Window}
           l == Len(d)
           n == Cardinality(X)
<1>1. l \in Nat /\ DOMAIN d = 1 .. l
  OBVIOUS
<1>2. X \in SUBSET (1 .. l) /\ \A i \in X : \A j \in 1 .. i : j \in X
  BY <1>1
<1>3. N!Expired(d, time) = n
  BY NSameCount DEF N!Expired
<1>4. n \in 0 .. l /\ X = 1 .. n
  <2> HIDE DEF X, l
  <2> QED BY <1>1, <1>2, PlacesBefore
<1>5. \A i \in 1 .. n : time - d[i].at > Window
  <2>1. \A i \in X : time - d[i].at > Window
    BY <1>1
  <2> HIDE DEF X, n
  <2> QED BY <1>4, <2>1
<1>6. n < l => ~(time - d[n + 1].at > Window)
  <2> SUFFICES ASSUME n < l, time - d[n + 1].at > Window PROVE FALSE
    OBVIOUS
  <2> DEFINE m == n
  <2>1. /\ m \in 0 .. l /\ m < l /\ time - d[m + 1].at > Window
        /\ \A i \in 1 .. m : time - d[i].at > Window
    BY <1>4, <1>5
  <2>2. m + 1 \notin X
    <3>1. X = 1 .. m
      BY <1>4
    <3> HIDE DEF X, m
    <3> QED BY <1>1, <2>1, <3>1
  <2> HIDE DEF m, l
  <2>3. m + 1 \in 1 .. l /\ \A j \in 1 .. m + 1 : time - d[j].at > Window
    BY <1>1, <2>1
  <2> QED BY <1>1, <2>2, <2>3
<1> HIDE DEF n, X, l
<1> QED BY <1>3, <1>4, <1>5, <1>6 DEF l

(* A packet moves the deque: what is left is what came within a window of  *)
(* it, or behind such a packet, and then the packet.                       *)
Moves(d, p, n, new) ==
  /\ n \in 0 .. Len(d) /\ n \in Nat /\ n <= Len(d) /\ Len(d) \in Nat
  /\ p.at \in 0 .. MaxTicks /\ p.target \in Targets
  /\ \A i \in 1 .. n : p.at - d[i].at > Window
  /\ n < Len(d) => ~(p.at - d[n + 1].at > Window)
  /\ new \in Seq(N!Packets) /\ Len(new) = Len(d) - n + 1
  /\ \A i \in 1 .. Len(d) - n : new[i] = d[n + i]
  /\ new[Len(d) - n + 1] = p
  /\ \A t : /\ Cardinality(Hits(d, t)) \in Nat
            /\ Cardinality(HeadHits(d, n, t)) \in Nat
            /\ Cardinality(HeadHits(d, n, t)) <= Cardinality(Hits(d, t))
            /\ Cardinality(Hits(new, t)) =
                 Cardinality(Hits(d, t)) - Cardinality(HeadHits(d, n, t))
                   + (IF p.target = t THEN 1 ELSE 0)

LEMMA DequeMoves ==
  ASSUME NEW d \in Seq(N!Packets), NEW p \in N!Packets, NEW n, n = N!Expired(d, p.at),
         NEW new, new = Moved(d, n, p)
  PROVE  Moves(d, p, n, new)
<1>1. p.at \in 0 .. MaxTicks /\ p.target \in Targets /\ p.at \in Int
  BY DEF N!Packets
<1>2. /\ n \in 0 .. Len(d) /\ \A i \in 1 .. n : p.at - d[i].at > Window
      /\ n < Len(d) => ~(p.at - d[n + 1].at > Window)
  BY <1>1, ExpiredHead
<1>3. n \in 0 .. Len(d)
  BY <1>2
<1>4. /\ Moved(d, n, p) \in Seq(N!Packets) /\ Len(Moved(d, n, p)) = Len(d) - n + 1
      /\ \A i \in 1 .. Len(d) - n : Moved(d, n, p)[i] = d[n + i]
      /\ Moved(d, n, p)[Len(d) - n + 1] = p
  BY <1>3, MovedDeque
<1>5. \A t : /\ Cardinality(Hits(d, t)) \in Nat
            /\ Cardinality(HeadHits(d, n, t)) \in Nat
            /\ Cardinality(HeadHits(d, n, t)) <= Cardinality(Hits(d, t))
            /\ Cardinality(Hits(Moved(d, n, p), t)) =
                 Cardinality(Hits(d, t)) - Cardinality(HeadHits(d, n, t))
                   + (IF p.target = t THEN 1 ELSE 0)
  BY <1>3, HitsCount
<1>6. n \in Nat /\ n <= Len(d) /\ Len(d) \in Nat
  BY <1>3
<1>7. /\ new \in Seq(N!Packets) /\ Len(new) = Len(d) - n + 1
      /\ \A i \in 1 .. Len(d) - n : new[i] = d[n + i]
      /\ new[Len(d) - n + 1] = p
  BY <1>4
<1>8. \A t : /\ Cardinality(Hits(d, t)) \in Nat
            /\ Cardinality(HeadHits(d, n, t)) \in Nat
            /\ Cardinality(HeadHits(d, n, t)) <= Cardinality(Hits(d, t))
            /\ Cardinality(Hits(new, t)) =
                 Cardinality(Hits(d, t)) - Cardinality(HeadHits(d, n, t))
                   + (IF p.target = t THEN 1 ELSE 0)
  BY <1>5
<1> QED BY <1>1, <1>2, <1>6, <1>7, <1>8, Zenon DEF Moves

Recounted(d, c, n, p) == [N!CountedWithout(d, c, n) EXCEPT ![p.target] = @ + 1]

(* What is counted, with the packet, and what is unreported then.          *)
Recount(p, new, count, since) ==
  /\ new \in Seq(N!Packets) /\ since \in SUBSET N!Packets /\ count \in [Targets -> Nat]
  /\ \A t \in Targets : count[t] = Cardinality(Hits(new, t))
  /\ \A i \in 1 .. Len(new) : new[i] \in since
  /\ \A j \in 1 .. Len(new) : \A i \in 1 .. j : new[i].at - Skew <= new[j].at
  /\ \A q \in since :
       /\ q.at <= ticks
       /\ (\E i \in 1 .. Len(new) : new[i] = q) \/ ticks - q.at > Window
  /\ \A i \in 1 .. Len(new) : p.at - new[i].at <= Window + Skew

(* A packet comes: what is counted then, before anything is reported.      *)
LEMMA PacketCounted ==
  ASSUME ScanInv, NEW s \in Sources, NEW p \in N!Packets, p.at <= ticks, ticks - p.at <= Skew,
         NEW d, d = deque[s], NEW n, n = N!Expired(d, p.at),
         NEW new, new = Moved(d, n, p),
         NEW count, count = Recounted(d, counts[s], n, p),
         NEW since, since = unreported[s] \cup {p}
  PROVE  Recount(p, new, count, since)
<1>w. Window \in Nat /\ Skew \in Nat
  BY SensorAssumption DEF N!ScanAssumption
<1>1. /\ d \in Seq(N!Packets) /\ counts[s] \in [Targets -> Nat]
      /\ unreported[s] \in SUBSET N!Packets
      /\ ticks \in 0 .. MaxTicks /\ p.at \in 0 .. MaxTicks /\ p.target \in Targets
      /\ Len(d) \in Nat
  <2>1. d \in Seq(N!Packets) /\ counts[s] \in [Targets -> Nat] /\ unreported[s] \in SUBSET N!Packets
    BY DEF ScanInv, ScanTypes
  <2>2. ticks \in 0 .. MaxTicks
    BY DEF ScanInv, ScanTypes
  <2>3. p.at \in 0 .. MaxTicks /\ p.target \in Targets
    BY DEF N!Packets
  <2> QED BY <2>1, <2>2, <2>3
<1>2. Counted(s) /\ StillCounted(s)
  BY DEF ScanInv
<1>m. Moves(d, p, n, new)
  BY <1>1, DequeMoves
<1>3. /\ n \in 0 .. Len(d) /\ \A i \in 1 .. n : p.at - d[i].at > Window
      /\ n < Len(d) => ~(p.at - d[n + 1].at > Window)
  BY <1>m, Zenon DEF Moves
<1>4. /\ new \in Seq(N!Packets) /\ Len(new) = Len(d) - n + 1
      /\ \A i \in 1 .. Len(d) - n : new[i] = d[n + i]
      /\ new[Len(d) - n + 1] = p
  BY <1>m, Zenon DEF Moves
<1>0. Len(d) \in Nat /\ n \in Nat /\ n <= Len(d) /\ Len(new) = Len(d) - n + 1
  BY <1>m, Zenon DEF Moves
<1>a. /\ Window \in Nat /\ Skew \in Nat /\ ticks \in Nat /\ p.at \in Nat
      /\ ticks - p.at <= Skew /\ p.at <= ticks
  BY <1>1, <1>w
<1>5. since \in SUBSET N!Packets
  BY <1>1
<1>6. count \in [Targets -> Nat] /\ \A t \in Targets : count[t] = Cardinality(Hits(new, t))
  <2>1. \A t \in Targets :
          /\ Cardinality(Hits(d, t)) \in Nat /\ Cardinality(HeadHits(d, n, t)) \in Nat
          /\ Cardinality(HeadHits(d, n, t)) <= Cardinality(Hits(d, t))
          /\ Cardinality(Hits(new, t)) =
               Cardinality(Hits(d, t)) - Cardinality(HeadHits(d, n, t))
                 + (IF p.target = t THEN 1 ELSE 0)
    <3>2. \A t : /\ Cardinality(Hits(d, t)) \in Nat /\ Cardinality(HeadHits(d, n, t)) \in Nat
                 /\ Cardinality(HeadHits(d, n, t)) <= Cardinality(Hits(d, t))
                 /\ Cardinality(Hits(new, t)) =
                      Cardinality(Hits(d, t)) - Cardinality(HeadHits(d, n, t))
                        + (IF p.target = t THEN 1 ELSE 0)
      BY <1>m, Zenon DEF Moves
    <3> QED BY <3>2, Zenon
  <2>2. N!CountedWithout(d, counts[s], n) =
          [t \in Targets |-> counts[s][t] - Cardinality(HeadHits(d, n, t))]
    BY NSameCount DEF N!CountedWithout, HeadHits
  <2>3. \A t \in Targets : counts[s][t] = Cardinality(Hits(d, t))
    BY <1>2 DEF Counted
  <2>4. count = [[t \in Targets |-> counts[s][t] - Cardinality(HeadHits(d, n, t))]
                   EXCEPT ![p.target] = @ + 1]
    BY <2>2 DEF Recounted
  <2>5. \A t \in Targets :
          count[t] = counts[s][t] - Cardinality(HeadHits(d, n, t))
                       + (IF p.target = t THEN 1 ELSE 0)
    <3>1. \A t \in Targets : counts[s][t] - Cardinality(HeadHits(d, n, t)) \in Int
      BY <1>1, <2>1
    <3> QED BY <1>1, <2>4, <3>1
  <2>6. \A t \in Targets : count[t] = Cardinality(Hits(new, t)) /\ count[t] \in Nat
    BY <2>1, <2>3, <2>5
  <2>7. DOMAIN count = Targets /\ count = [t \in Targets |-> count[t]]
    BY <2>4
  <2> QED BY <2>6, <2>7
<1>7. \A i \in 1 .. Len(new) :
        \/ i \in 1 .. Len(d) - n /\ n + i \in 1 .. Len(d) /\ new[i] = d[n + i]
        \/ i = Len(d) - n + 1 /\ new[i] = p
  <2> SUFFICES ASSUME NEW i \in 1 .. Len(new)
               PROVE  \/ i \in 1 .. Len(d) - n /\ n + i \in 1 .. Len(d) /\ new[i] = d[n + i]
                      \/ i = Len(d) - n + 1 /\ new[i] = p
    OBVIOUS
  <2>1. (i \in 1 .. Len(d) - n /\ n + i \in 1 .. Len(d)) \/ i = Len(d) - n + 1
    BY <1>0
  <2> QED BY <1>4, <2>1, Zenon
<1>8. \A i \in 1 .. Len(new) : new[i] \in since
  BY <1>2, <1>7 DEF Counted
<1>9. \A i \in 1 .. Len(d) : d[i].at \in 0 .. ticks
  <2>1. \A i \in 1 .. Len(d) : d[i] \in unreported[s]
    BY <1>2 DEF Counted
  <2>2. \A q \in unreported[s] : q.at \in 0 .. MaxTicks /\ q.at <= ticks
    BY <1>1, <1>2 DEF StillCounted, N!Packets
  <2> QED BY <1>1, <2>1, <2>2
<1>10. \A j \in 1 .. Len(d) : \A i \in 1 .. j : d[i].at - Skew <= d[j].at
  BY <1>2 DEF Counted
<1>11. \A j \in 1 .. Len(new) : \A i \in 1 .. j : new[i].at - Skew <= new[j].at
  <2> SUFFICES ASSUME NEW j \in 1 .. Len(new), NEW i \in 1 .. j
               PROVE  new[i].at - Skew <= new[j].at
    OBVIOUS
  <2>1. CASE j \in 1 .. Len(d) - n
    <3>1. i \in 1 .. Len(d) - n /\ n + i \in 1 .. n + j /\ n + j \in 1 .. Len(d)
      BY <1>0, <2>1
    <3> QED BY <1>4, <1>10, <2>1, <3>1
  <2>2. CASE j = Len(d) - n + 1 /\ i \in 1 .. Len(d) - n
    <3>1. new[j] = p /\ new[i] = d[n + i] /\ n + i \in 1 .. Len(d)
      BY <1>0, <1>4, <2>2
    <3>2. d[n + i].at \in 0 .. ticks
      BY <1>9, <3>1
    <3> QED BY <1>a, <3>1, <3>2
  <2>3. CASE i = Len(d) - n + 1
    <3>1. j = i /\ new[i] = p
      BY <1>0, <1>4, <2>3
    <3> QED BY <1>a, <3>1
  <2> QED BY <1>0, <2>1, <2>2, <2>3
<1>12. \A q \in since :
         /\ q.at <= ticks
         /\ (\E i \in 1 .. Len(new) : new[i] = q) \/ ticks - q.at > Window
  <2> SUFFICES ASSUME NEW q \in since
               PROVE  /\ q.at <= ticks
                      /\ (\E i \in 1 .. Len(new) : new[i] = q) \/ ticks - q.at > Window
    OBVIOUS
  <2>1. CASE q = p
    <3>1. Len(d) - n + 1 \in 1 .. Len(new)
      BY <1>0
    <3> QED BY <1>4, <1>a, <2>1, <3>1
  <2>2. CASE q \in unreported[s] /\ ~InDeque(s, q)
    BY <1>2, <2>2 DEF StillCounted
  <2>3. CASE q \in unreported[s] /\ InDeque(s, q)
    <3>1. PICK i \in 1 .. Len(d) : d[i] = q
      BY <2>3 DEF InDeque
    <3>2. q.at \in 0 .. ticks
      BY <1>9, <3>1
    <3>3. CASE i \in 1 .. n
      <4>1. p.at - q.at > Window
        BY <1>3, <3>1, <3>3
      <4> QED BY <1>a, <3>2, <4>1
    <3>4. CASE ~(i \in 1 .. n)
      <4>1. i - n \in 1 .. Len(d) - n /\ n + (i - n) = i /\ i - n \in 1 .. Len(new)
        BY <1>0, <3>4
      <4> QED BY <1>4, <3>1, <3>2, <4>1
    <3> QED BY <3>3, <3>4
  <2> QED BY <2>1, <2>2, <2>3
<1>13. \A i \in 1 .. Len(new) : p.at - new[i].at <= Window + Skew
  <2> SUFFICES ASSUME NEW i \in 1 .. Len(new)
               PROVE  p.at - new[i].at <= Window + Skew
    OBVIOUS
  <2>1. CASE new[i] = p
    BY <1>a, <2>1
  <2>2. CASE i \in 1 .. Len(d) - n /\ new[i] = d[n + i]
    <3>1. n + 1 \in 1 .. n + i /\ n + i \in 1 .. Len(d) /\ n + 1 \in 1 .. Len(d) /\ n < Len(d)
      BY <1>0, <2>2
    <3>2. d[n + 1].at - Skew <= d[n + i].at
      BY <1>10, <3>1
    <3>3. d[n + 1].at \in 0 .. ticks /\ d[n + i].at \in 0 .. ticks
      BY <1>9, <3>1
    <3>4. ~(p.at - d[n + 1].at > Window)
      BY <1>3, <3>1
    <3>5. p.at - d[n + i].at <= Window + Skew
      <4> DEFINE x == d[n + 1].at
                 y == d[n + i].at
                 z == p.at
      <4>1. x \in Int /\ y \in Int /\ z \in Nat /\ x - Skew <= y /\ ~(z - x > Window)
        BY <1>a, <3>2, <3>3, <3>4
      <4> HIDE DEF x, y, z
      <4>2. z - y <= Window + Skew
        BY <1>w, <4>1
      <4> QED BY <4>2 DEF y, z
    <3> QED BY <2>2, <3>5
  <2> QED BY <1>7, <2>1, <2>2
<1>14. new \in Seq(N!Packets)
  BY <1>4
<1> QED BY <1>5, <1>6, <1>8, <1>11, <1>12, <1>13, <1>14, Zenon DEF Recount

(* The active targets are those of the packets in the deque.               *)
LEMMA ActiveTargets ==
  ASSUME NEW new \in Seq(N!Packets), NEW count \in [Targets -> Nat],
         \A t \in Targets : count[t] = Cardinality(Hits(new, t))
  PROVE  /\ N!Active(count) = {new[i].target : i \in 1 .. Len(new)}
         /\ IsFiniteSet(N!Active(count))
<1> DEFINE P == 1 .. Len(new)
           f == [i \in P |-> new[i].target]
           T == {new[i].target : i \in P}
<1>1. \A i \in P : new[i].target \in Targets
  <2>1. \A i \in P : new[i] \in N!Packets
    OBVIOUS
  <2>2. \A q \in N!Packets : q.target \in Targets
    BY DEF N!Packets
  <2> QED BY <2>1, <2>2
<1>2. IsFiniteSet(P)
  BY FS_Interval
<1>3. \A t \in Targets : count[t] > 0 <=> t \in T
  <2> SUFFICES ASSUME NEW t \in Targets PROVE count[t] > 0 <=> t \in T
    OBVIOUS
  <2>1. Hits(new, t) \subseteq P /\ (Hits(new, t) = {} <=> t \notin T)
    BY DEF Hits
  <2> HIDE DEF P, T
  <2>2. IsFiniteSet(Hits(new, t))
    BY <1>2, <2>1, FS_Subset
  <2>3. Cardinality(Hits(new, t)) \in Nat
        /\ (Cardinality(Hits(new, t)) = 0 <=> Hits(new, t) = {})
    BY <2>2, FS_CardinalityType, FS_EmptySet
  <2> QED BY <2>1, <2>3
<1>4. N!Active(count) = T
  BY <1>1, <1>3 DEF N!Active
<1>5. f \in Surjection(P, T)
  <2>1. f \in [P -> T] /\ \A t \in T : \E i \in P : f[i] = t
    OBVIOUS
  <2> HIDE DEF f, P, T
  <2> QED BY <2>1 DEF Surjection
<1>6. IsFiniteSet(T)
  <2> HIDE DEF f, P, T
  <2> QED BY <1>2, <1>5, FS_Surjection
<1> QED BY <1>4, <1>6

(* What is reported is a scan: the packets of the deque are its witness.   *)
LEMMA ReportedScan ==
  ASSUME NEW p \in N!Packets, ticks \in Nat, p.at <= ticks, ticks - p.at <= Skew,
         NEW new \in Seq(N!Packets), NEW since \in SUBSET N!Packets,
         \A i \in 1 .. Len(new) : new[i] \in since,
         \A q \in since : q.at <= ticks,
         \A i \in 1 .. Len(new) : p.at - new[i].at <= Window + Skew
  PROVE  \E packets \in SUBSET since :
           /\ N!TargetsOf(packets) = {new[i].target : i \in 1 .. Len(new)}
           /\ N!Within(packets, Window + 2 * Skew)
<1> DEFINE packets == {new[i] : i \in 1 .. Len(new)}
<1>1. packets \in SUBSET since
  OBVIOUS
<1>2. N!TargetsOf(packets) = {new[i].target : i \in 1 .. Len(new)}
  BY DEF N!TargetsOf
<1>3. N!Within(packets, Window + 2 * Skew)
  <2> SUFFICES ASSUME NEW x \in packets, NEW y \in packets
               PROVE  y.at - x.at <= Window + 2 * Skew
    BY DEF N!Within
  <2>1. p.at - x.at <= Window + Skew /\ y.at <= ticks
    OBVIOUS
  <2>2. x.at \in Int /\ y.at \in Int /\ p.at \in Int
    BY <1>1 DEF N!Packets
  <2>3. Window \in Nat /\ Skew \in Nat
    BY SensorAssumption DEF N!ScanAssumption
  <2> HIDE DEF packets
  <2> QED BY <2>1, <2>2, <2>3
<1> QED BY <1>1, <1>2, <1>3

(* Nothing within a window, less the disorder, is left out of the deque.   *)
LEMMA KeptScan ==
  ASSUME NEW p \in N!Packets, ticks \in Nat, p.at <= ticks, ticks - p.at <= Skew,
         NEW new \in Seq(N!Packets), NEW packets \in SUBSET N!Packets,
         p \in packets, N!Within(packets, Window - Skew),
         \A q \in packets : (\E i \in 1 .. Len(new) : new[i] = q) \/ ticks - q.at > Window
  PROVE  N!TargetsOf(packets) \subseteq {new[i].target : i \in 1 .. Len(new)}
<1> SUFFICES ASSUME NEW q \in packets PROVE \E i \in 1 .. Len(new) : new[i] = q
  BY DEF N!TargetsOf
<1>1. p.at - q.at <= Window - Skew
  BY DEF N!Within
<1>2. q.at \in Int /\ p.at \in Int
  BY DEF N!Packets
<1>3. Window \in Nat /\ Skew \in Nat
  BY SensorAssumption DEF N!ScanAssumption
<1>4. ~(ticks - q.at > Window)
  BY <1>1, <1>2, <1>3
<1> QED BY <1>4

-----------------------------------------------------------------------------
(* The invariant holds.                                                    *)

(* What a packet of s does to the other sources: nothing.                  *)
SourceStays(s) ==
  /\ deque'[s] = deque[s] /\ counts'[s] = counts[s] /\ unreported'[s] = unreported[s]
  /\ ticks' = ticks

LEMMA StaysCounted ==
  ASSUME NEW s, SourceStays(s), Counted(s), StillCounted(s)
  PROVE  Counted(s)' /\ StillCounted(s)'
BY DEF SourceStays, Counted, StillCounted, InDeque

LEMMA ReportStep ==
  ASSUME ScanInv, NEW s \in Sources, NEW p \in N!Packets, p.at <= ticks, ticks - p.at <= Skew,
         NEW active \in SUBSET Targets, N!Cardinality(active) > Threshold,
         NEW since \in SUBSET N!Packets,
         \E packets \in SUBSET since :
           N!TargetsOf(packets) = active /\ N!Within(packets, Window + 2 * Skew),
         N!Report(s, [targets |-> active, since |-> since]), UNCHANGED ticks
  PROVE  ScanInv'
<1> DEFINE e == [targets |-> active, since |-> since]
<1>1. ScanTypes
  BY DEF ScanInv
<1>2. /\ scan' = e /\ deque' = [deque EXCEPT ![s] = <<>>]
      /\ counts' = [counts EXCEPT ![s] = [t \in Targets |-> 0]]
      /\ unreported' = [unreported EXCEPT ![s] = {}]
  BY DEF N!Report
<1>3. ScanTypes'
  <2>1. e \in [targets : SUBSET Targets, since : SUBSET N!Packets]
    OBVIOUS
  <2>2. <<>> \in Seq(N!Packets) /\ [t \in Targets |-> 0] \in [Targets -> Nat]
    OBVIOUS
  <2> HIDE DEF e
  <2> QED BY <1>1, <1>2, <2>1, <2>2 DEF ScanTypes, N!Packets
<1>4. ASSUME NEW r \in Sources PROVE Counted(r)' /\ StillCounted(r)'
  <2>1. CASE r = s
    <3>1. deque'[r] = <<>> /\ counts'[r] = [t \in Targets |-> 0] /\ unreported'[r] = {}
      BY <1>1, <1>2, <2>1 DEF ScanTypes
    <3>2. \A t : Hits(<<>>, t) = {}
      BY DEF Hits
    <3>3. \A t \in Targets : counts'[r][t] = Cardinality(Hits(deque'[r], t))
      BY <3>1, <3>2, FS_EmptySet
    <3>4. Len(deque'[r]) = 0
      BY <3>1
    <3> QED BY <3>1, <3>3, <3>4 DEF Counted, StillCounted
  <2>2. CASE r # s
    <3>1. SourceStays(r)
      BY <1>1, <1>2, <2>2 DEF ScanTypes, SourceStays
    <3>2. Counted(r) /\ StillCounted(r)
      BY DEF ScanInv
    <3> QED BY <3>1, <3>2, StaysCounted
  <2> QED BY <2>1, <2>2
<1>5. N!ReportsAreScans'
  <2>1. e.targets = active /\ e.since = since
    OBVIOUS
  <2> HIDE DEF e
  <2> QED BY <1>2, <2>1 DEF N!ReportsAreScans
<1>6. N!NoScanMissed'
  <2> SUFFICES ASSUME NEW r \in Sources, NEW packets \in SUBSET unreported'[r],
                      N!Within(packets, Window - Skew)
               PROVE  N!Cardinality(N!TargetsOf(packets)) <= Threshold
    BY DEF N!NoScanMissed, N!Within, N!TargetsOf
  <2>1. CASE r = s
    <3>1. packets = {}
      BY <1>1, <1>2, <2>1 DEF ScanTypes
    <3>2. N!TargetsOf(packets) = {}
      BY <3>1 DEF N!TargetsOf
    <3> QED BY <3>2, FS_EmptySet, NSameCount, SensorAssumption DEF N!ScanAssumption
  <2>2. CASE r # s
    <3>1. unreported'[r] = unreported[r]
      BY <1>1, <1>2, <2>2 DEF ScanTypes
    <3> QED BY <3>1 DEF ScanInv, N!NoScanMissed
  <2> QED BY <2>1, <2>2
<1> QED BY <1>3, <1>4, <1>5, <1>6 DEF ScanInv

LEMMA KeepStep ==
  ASSUME ScanInv, NEW s \in Sources, NEW p \in N!Packets, p.at <= ticks, ticks - p.at <= Skew,
         NEW new, NEW count, NEW since, Recount(p, new, count, since),
         since = unreported[s] \cup {p},
         N!Cardinality(N!Active(count)) <= Threshold,
         scan' = None, UNCHANGED ticks, deque' = [deque EXCEPT ![s] = new],
         counts' = [counts EXCEPT ![s] = count], unreported' = [unreported EXCEPT ![s] = since]
  PROVE  ScanInv'
<1>1. ScanTypes
  BY DEF ScanInv
<1>2. /\ since \in SUBSET N!Packets /\ new \in Seq(N!Packets) /\ count \in [Targets -> Nat]
      /\ \A t \in Targets : count[t] = Cardinality(Hits(new, t))
      /\ \A i \in 1 .. Len(new) : new[i] \in since
      /\ \A j \in 1 .. Len(new) : \A i \in 1 .. j : new[i].at - Skew <= new[j].at
      /\ \A q \in since :
           /\ q.at <= ticks
           /\ (\E i \in 1 .. Len(new) : new[i] = q) \/ ticks - q.at > Window
  BY Zenon DEF Recount
<1>3. ScanTypes'
  BY <1>1, <1>2 DEF ScanTypes, N!Packets
<1>4. deque'[s] = new /\ counts'[s] = count /\ unreported'[s] = since
  BY <1>1 DEF ScanTypes
<1>5. ASSUME NEW r \in Sources PROVE Counted(r)' /\ StillCounted(r)'
  <2>1. CASE r = s
    BY <1>2, <1>4, <2>1 DEF Counted, StillCounted, InDeque
  <2>2. CASE r # s
    <3>1. SourceStays(r)
      BY <1>1, <2>2 DEF ScanTypes, SourceStays
    <3>2. Counted(r) /\ StillCounted(r)
      BY DEF ScanInv
    <3> QED BY <3>1, <3>2, StaysCounted
  <2> QED BY <2>1, <2>2
<1>6. N!ReportsAreScans'
  BY DEF N!ReportsAreScans
<1>7. N!NoScanMissed'
  <2> SUFFICES ASSUME NEW r \in Sources, NEW packets \in SUBSET unreported'[r],
                      N!Within(packets, Window - Skew)
               PROVE  N!Cardinality(N!TargetsOf(packets)) <= Threshold
    BY DEF N!NoScanMissed, N!Within, N!TargetsOf
  <2>1. CASE packets \in SUBSET unreported[r]
    BY <2>1 DEF ScanInv, N!NoScanMissed
  <2>2. CASE packets \notin SUBSET unreported[r]
    <3>1. r = s
      BY <1>1, <2>2 DEF ScanTypes
    <3>2. packets \in SUBSET since /\ p \in packets
      BY <1>4, <2>2, <3>1
    <3>3. ticks \in Nat
      BY <1>1 DEF ScanTypes
    <3>4. N!TargetsOf(packets) \subseteq {new[i].target : i \in 1 .. Len(new)}
      BY <1>2, <3>2, <3>3, KeptScan
    <3>5. N!TargetsOf(packets) \subseteq N!Active(count) /\ IsFiniteSet(N!Active(count))
      BY <1>2, <3>4, ActiveTargets
    <3>6. /\ Cardinality(N!TargetsOf(packets)) <= Cardinality(N!Active(count))
          /\ Cardinality(N!TargetsOf(packets)) \in Nat /\ Cardinality(N!Active(count)) \in Nat
      BY <3>5, FS_Subset, FS_CardinalityType
    <3>7. Cardinality(N!Active(count)) <= Threshold
      BY NSameCount
    <3>8. Threshold \in Nat
      BY SensorAssumption DEF N!ScanAssumption
    <3>9. Cardinality(N!TargetsOf(packets)) <= Threshold
      BY <3>6, <3>7, <3>8
    <3> QED BY <3>9, NSameCount
  <2> QED BY <2>1, <2>2
<1> QED BY <1>3, <1>5, <1>6, <1>7 DEF ScanInv

LEMMA PacketStep ==
  ASSUME ScanInv, NEW s \in Sources, NEW p \in N!Packets, p.at <= ticks, ticks - p.at <= Skew,
         N!ProcessPacket(s, p)
  PROVE  ScanInv'
<1>d. PICK d : d = deque[s]
  OBVIOUS
<1>n. PICK n : n = N!Expired(d, p.at)
  OBVIOUS
<1>e. PICK new : new = Moved(d, n, p)
  OBVIOUS
<1>c. PICK count : count = Recounted(d, counts[s], n, p)
  OBVIOUS
<1>s. PICK since : since = unreported[s] \cup {p}
  OBVIOUS
<1>a. PICK active : active = N!Active(count)
  OBVIOUS
<1>1. /\ UNCHANGED ticks
      /\ IF N!Cardinality(active) > Threshold
         THEN N!Report(s, [targets |-> active, since |-> since])
         ELSE /\ scan' = None
              /\ deque' = [deque EXCEPT ![s] = Append(SubSeq(@, n + 1, Len(@)), p)]
              /\ counts' = [counts EXCEPT ![s] = count]
              /\ unreported' = [unreported EXCEPT ![s] = since]
  BY <1>d, <1>n, <1>c, <1>s, <1>a DEF N!ProcessPacket, Recounted
<1>2. ScanTypes
  BY DEF ScanInv
<1>3. [deque EXCEPT ![s] = Append(SubSeq(@, n + 1, Len(@)), p)] = [deque EXCEPT ![s] = new]
  BY <1>2, <1>d, <1>e DEF Moved, ScanTypes
<1>r. Recount(p, new, count, since)
  BY <1>d, <1>n, <1>e, <1>c, <1>s, PacketCounted
<1>4. /\ since \in SUBSET N!Packets /\ new \in Seq(N!Packets) /\ count \in [Targets -> Nat]
      /\ \A t \in Targets : count[t] = Cardinality(Hits(new, t))
      /\ \A i \in 1 .. Len(new) : new[i] \in since
      /\ \A q \in since : q.at <= ticks
      /\ \A i \in 1 .. Len(new) : p.at - new[i].at <= Window + Skew
  BY <1>r, Zenon DEF Recount
<1>5. ticks \in Nat /\ p \in N!Packets
  BY <1>2 DEF ScanTypes
<1>6. active = {new[i].target : i \in 1 .. Len(new)} /\ IsFiniteSet(active)
  BY <1>4, <1>a, ActiveTargets
<1>7. active \in SUBSET Targets
  BY <1>a DEF N!Active
<1>8. /\ Cardinality(active) \in Nat /\ Threshold \in Nat
      /\ N!Cardinality(active) = Cardinality(active)
  BY <1>6, FS_CardinalityType, NSameCount, SensorAssumption DEF N!ScanAssumption
<1>9. CASE N!Cardinality(active) > Threshold
  <2>1. \E packets \in SUBSET since :
           N!TargetsOf(packets) = active /\ N!Within(packets, Window + 2 * Skew)
    BY <1>4, <1>5, <1>6, ReportedScan
  <2>2. N!Report(s, [targets |-> active, since |-> since])
    BY <1>1, <1>9
  <2> QED BY <1>1, <1>4, <1>7, <1>9, <2>1, <2>2, ReportStep
<1>10. CASE ~(N!Cardinality(active) > Threshold)
  <2>1. N!Cardinality(N!Active(count)) <= Threshold
    BY <1>8, <1>10, <1>a
  <2>2. /\ scan' = None /\ deque' = [deque EXCEPT ![s] = new]
        /\ counts' = [counts EXCEPT ![s] = count]
        /\ unreported' = [unreported EXCEPT ![s] = since]
    BY <1>1, <1>3, <1>10
  <2> QED BY <1>1, <1>r, <1>s, <2>1, <2>2, KeepStep
<1> QED BY <1>9, <1>10

LEMMA ScanTick ==
  ASSUME ScanInv, ticks < MaxTicks, ticks' = ticks + 1, UNCHANGED scans
  PROVE  ScanInv'
<1> USE DEF scans
<1>1. ScanTypes /\ ticks \in 0 .. MaxTicks
  BY DEF ScanInv, ScanTypes
<1>2. MaxTicks \in Nat /\ Window \in Nat
  BY SensorAssumption DEF N!ScanAssumption
<1>3. ticks' \in 0 .. MaxTicks
  BY <1>1, <1>2
<1>4. ScanTypes'
  BY <1>1, <1>3 DEF ScanTypes, N!Packets
<1>5. ASSUME NEW s \in Sources PROVE Counted(s)' /\ StillCounted(s)'
  <2>1. Counted(s) /\ StillCounted(s)
    BY DEF ScanInv
  <2>2. \A q \in unreported[s] : q.at \in Int
    BY <1>1 DEF ScanTypes, N!Packets
  <2>3. Counted(s)'
    BY <2>1 DEF Counted
  <2>4. StillCounted(s)'
    BY <1>1, <1>2, <2>1, <2>2 DEF StillCounted, InDeque
  <2> QED BY <2>3, <2>4
<1>6. N!ReportsAreScans' /\ N!NoScanMissed'
  BY DEF ScanInv, N!ReportsAreScans, N!NoScanMissed
<1> QED BY <1>4, <1>5, <1>6 DEF ScanInv

LEMMA ScanStep == ScanInv /\ [N!Next]_<<ticks, scans>> => ScanInv'
<1> SUFFICES ASSUME ScanInv, [N!Next]_<<ticks, scans>> PROVE ScanInv'
  OBVIOUS
<1>1. CASE N!Tick
  BY <1>1, ScanTick DEF N!Tick, scans
<1>2. ASSUME NEW s \in Sources, NEW t \in Targets, NEW a \in 0 .. ticks, ticks - a <= Skew,
             N!ProcessPacket(s, [at |-> a, target |-> t])
      PROVE  ScanInv'
  <2> DEFINE p == [at |-> a, target |-> t]
  <2>1. ticks \in 0 .. MaxTicks
    BY DEF ScanInv, ScanTypes
  <2>2. a \in 0 .. MaxTicks /\ a <= ticks
    BY <2>1, SensorAssumption DEF N!ScanAssumption
  <2>3. p \in N!Packets /\ p.at <= ticks /\ ticks - p.at <= Skew
    BY <1>2, <2>2 DEF N!Packets
  <2> HIDE DEF p
  <2> QED BY <1>2, <2>3, PacketStep DEF p
<1>3. CASE UNCHANGED <<ticks, scans>>
  BY <1>3 DEF scans, ScanInv, ScanTypes, Counted, StillCounted, InDeque, N!ReportsAreScans,
              N!NoScanMissed, N!Packets
<1> QED BY <1>1, <1>2, <1>3 DEF N!Next

LEMMA ScanInit == N!Init => ScanInv
<1> SUFFICES ASSUME N!Init PROVE ScanInv
  OBVIOUS
<1>1. ScanTypes
  BY SensorAssumption DEF N!Init, ScanTypes, N!ScanAssumption
<1>2. ASSUME NEW s \in Sources PROVE Counted(s) /\ StillCounted(s)
  <2>1. deque[s] = <<>> /\ counts[s] = [t \in Targets |-> 0] /\ unreported[s] = {}
    BY DEF N!Init
  <2>2. \A t : Hits(<<>>, t) = {}
    BY DEF Hits
  <2>3. \A t \in Targets : counts[s][t] = Cardinality(Hits(deque[s], t))
    BY <2>1, <2>2, FS_EmptySet
  <2> QED BY <2>1, <2>3 DEF Counted, StillCounted
<1>3. N!ReportsAreScans
  BY DEF N!Init, N!ReportsAreScans
<1>4. N!NoScanMissed
  <2>1. Cardinality({}) <= Threshold
    BY FS_EmptySet, SensorAssumption DEF N!ScanAssumption
  <2>2. \A packets \in SUBSET {} : N!TargetsOf(packets) = {}
    BY DEF N!TargetsOf
  <2> QED BY <2>1, <2>2, NSameCount DEF N!Init, N!NoScanMissed
<1> QED BY <1>1, <1>2, <1>3, <1>4 DEF ScanInv

LEMMA ScanTypesOK == ScanInv => N!TypeOK
<1> SUFFICES ASSUME ScanInv PROVE N!TypeOK
  OBVIOUS
<1>1. ScanTypes
  BY DEF ScanInv
<1>2. ASSUME NEW s \in Sources
      PROVE  /\ unreported[s] \subseteq N!Packets
             /\ \A i \in DOMAIN deque[s] : deque[s][i] \in unreported[s]
             /\ \A t \in Targets : counts[s][t] =
                  N!Cardinality({i \in DOMAIN deque[s] : deque[s][i].target = t})
  <2>1. deque[s] \in Seq(N!Packets) /\ unreported[s] \in SUBSET N!Packets
    BY <1>1 DEF ScanTypes
  <2>2. DOMAIN deque[s] = 1 .. Len(deque[s])
    BY <2>1
  <2>3. Counted(s)
    BY DEF ScanInv
  <2> QED BY <2>1, <2>2, <2>3, NSameCount DEF Counted, Hits
<1> QED BY <1>1, <1>2 DEF N!TypeOK, ScanTypes, N!Packets

(* The scan detectors report scans and every scan (ScanDetector.tla): what *)
(* an event of SynDetector or IcmpSweepDetector counts is a scan within a  *)
(* window, and packets within a window have no more targets than the       *)
(* threshold unless one was reported.                                      *)
THEOREM ScansAreTold == MCSpec => []ScansAreReported
<1>1. MCInit => ScanInv
  BY ScanInit DEF MCInit
<1>2. ScanInv /\ [MCNext]_<<part, vars, sensor, ticks, scans, arp, names>> => ScanInv'
  <2> SUFFICES ASSUME ScanInv, [MCNext]_<<part, vars, sensor, ticks, scans, arp, names>>
               PROVE  ScanInv'
    OBVIOUS
  <2>1. CASE Scanned
    BY <2>1, ScanStep DEF Scanned
  <2>2. CASE Announced
    <3>1. UNCHANGED scans /\ A!Next
      BY <2>2 DEF Announced
    <3>2. CASE A!Tick
      BY <3>1, <3>2, ScanTick DEF A!Tick
    <3>3. CASE \E mac \in Macs : A!ProcessPacket(mac)
      <4>1. UNCHANGED ticks
        BY <3>3 DEF A!ProcessPacket
      <4> QED BY <3>1, <4>1, ScanStep
    <3> QED BY <3>1, <3>2, <3>3 DEF A!Next
  <2>3. CASE UNCHANGED <<ticks, scans>>
    BY <2>3, ScanStep
  <2> QED BY <2>1, <2>2, <2>3 DEF MCNext, Cached, Sensed, Named
<1>3. ScanInv => ScansAreReported
  BY ScanTypesOK DEF ScanInv, ScansAreReported
<1> QED BY <1>1, <1>2, <1>3, PTL DEF MCSpec

-----------------------------------------------------------------------------
(* The ARP detector: what its history counts of the packets of an address. *)

Recent(h, first, t) == {i \in first .. Len(h) : h[i].at >= t}
Shifts(u, t) == {i \in 2 .. Len(u) : u[i].mac # u[i - 1].mac /\ u[i].at >= t}

(* The history is in the order of time, its neighbours differ, and it ends *)
(* with the MAC of the last packet.                                        *)
InOrder(h, u) ==
  /\ h \in Seq(A!Entries) /\ u \in Seq(A!Entries)
  /\ \A i \in 1 .. Len(h) : h[i].at <= ticks
  /\ \A j \in 1 .. Len(h) : \A i \in 1 .. j : h[i].at <= h[j].at
  /\ \A i \in 2 .. Len(h) : h[i - 1].mac # h[i].mac
  /\ h # <<>> <=> u # <<>>
  /\ h # <<>> => h[Len(h)].mac = u[Len(u)].mac

(* All but the first entry are changes that were seen, and the changes of  *)
(* a window are entries, the first included.                               *)
Matched(h, u) ==
  \A t \in Int :
    /\ Cardinality(Recent(h, 2, t)) <= Cardinality(Shifts(u, t))
    /\ t >= ticks - Window => Cardinality(Shifts(u, t)) <= Cardinality(Recent(h, 1, t))

ArpInv ==
  /\ ticks \in 0 .. MaxTicks
  /\ flapping \in {None} \cup [changes : Nat, since : Seq(A!Entries)]
  /\ InOrder(history, announced) /\ Matched(history, announced)
  /\ Len(history) <= MaxChanges + 1
  /\ A!ReportsAreFlaps

LEMMA RecentFinite ==
  ASSUME NEW h \in Seq(A!Entries), NEW first \in {1, 2}, NEW t \in Int
  PROVE  /\ IsFiniteSet(Recent(h, first, t)) /\ Cardinality(Recent(h, first, t)) \in Nat
         /\ IsFiniteSet(Shifts(h, t)) /\ Cardinality(Shifts(h, t)) \in Nat
<1>1. Len(h) \in Nat /\ first \in Int
  OBVIOUS
<1>2. IsFiniteSet(first .. Len(h)) /\ IsFiniteSet(2 .. Len(h))
  BY <1>1, FS_Interval
<1>3. Recent(h, first, t) \subseteq first .. Len(h) /\ Shifts(h, t) \subseteq 2 .. Len(h)
  BY DEF Recent, Shifts
<1>4. IsFiniteSet(Recent(h, first, t)) /\ IsFiniteSet(Shifts(h, t))
  BY <1>2, <1>3, FS_Subset
<1> QED BY <1>4, FS_CardinalityType

(* What is left of a history when its first n entries went. *)
LEMMA HeadGone ==
  ASSUME NEW d \in Seq(A!Entries), NEW n \in 0 .. Len(d), NEW s, s = SubSeq(d, n + 1, Len(d))
  PROVE  /\ s \in Seq(A!Entries) /\ Len(s) = Len(d) - n
         /\ Len(s) \in Nat /\ Len(d) \in Nat /\ n \in Nat /\ n <= Len(d)
         /\ \A i \in 1 .. Len(s) : s[i] = d[n + i] /\ n + i \in 1 .. Len(d)
<1>1. Len(d) \in Nat /\ n \in Nat /\ n <= Len(d)
  OBVIOUS
<1>2. /\ s \in Seq(A!Entries) /\ Len(s) = Len(d) - n
      /\ \A i \in 1 .. Len(d) - n : s[i] = d[n + i]
  BY <1>1
<1>3. Len(s) \in Nat /\ \A i \in 1 .. Len(d) - n : n + i \in 1 .. Len(d)
  BY <1>1, <1>2
<1> QED BY <1>1, <1>2, <1>3

LEMMA RecentKept ==
  ASSUME NEW d \in Seq(A!Entries), NEW n \in 0 .. Len(d), NEW s, s = SubSeq(d, n + 1, Len(d)),
         NEW first \in {1, 2}, NEW t \in Int
  PROVE  /\ Cardinality(Recent(s, first, t)) <= Cardinality(Recent(d, first, t))
         /\ (\A i \in 1 .. n : d[i].at < t) =>
              Cardinality(Recent(s, 1, t)) = Cardinality(Recent(d, 1, t))
<1>1. /\ s \in Seq(A!Entries) /\ Len(s) = Len(d) - n
      /\ Len(s) \in Nat /\ Len(d) \in Nat /\ n \in Nat /\ n <= Len(d)
      /\ \A i \in 1 .. Len(s) : s[i] = d[n + i] /\ n + i \in 1 .. Len(d)
  BY HeadGone
<1>2. ASSUME NEW a \in {1, 2}
      PROVE  /\ IsFiniteSet(Recent(d, a + n, t))
             /\ Cardinality(Recent(d, a + n, t)) = Cardinality(Recent(s, a, t))
  <2> DEFINE X == Recent(s, a, t)
             Y == Recent(d, a + n, t)
             f == [i \in X |-> n + i]
  <2>0. \A i \in a .. Len(s) : i \in 1 .. Len(s) /\ n + i \in a + n .. Len(d)
    BY <1>1
  <2>1. \A i \in X : n + i \in Y
    BY <1>1, <2>0 DEF Recent
  <2>2. \A j \in Y : j - n \in X /\ n + (j - n) = j
    <3>1. \A j \in a + n .. Len(d) :
            j - n \in a .. Len(s) /\ j - n \in 1 .. Len(s) /\ n + (j - n) = j
      BY <1>1
    <3>2. \A j \in a + n .. Len(d) : s[j - n] = d[j]
      <4> SUFFICES ASSUME NEW j \in a + n .. Len(d) PROVE s[j - n] = d[j]
        OBVIOUS
      <4> DEFINE k == j - n
      <4>1. k \in 1 .. Len(s) /\ n + k = j
        BY <3>1
      <4> HIDE DEF k
      <4>2. s[k] = d[j]
        BY <1>1, <4>1
      <4> QED BY <4>2 DEF k
    <3> QED BY <3>1, <3>2 DEF Recent
  <2>3. \A i, j \in X : n + i = n + j => i = j
    BY <1>1 DEF Recent
  <2>4. IsFiniteSet(X)
    BY <1>1, RecentFinite
  <2>5. f \in Bijection(X, Y)
    <3>1. f \in [X -> Y]
      BY <2>1
    <3>2. \A i, j \in X : f[i] = f[j] => i = j
      BY <2>3
    <3>3. \A j \in Y : \E i \in X : f[i] = j
      BY <2>2
    <3> HIDE DEF f, X, Y
    <3> QED BY <3>1, <3>2, <3>3 DEF Bijection, Injection, Surjection, IsInjective
  <2> HIDE DEF f, X, Y
  <2>6. ExistsBijection(X, Y)
    BY <2>5 DEF ExistsBijection
  <2>7. IsFiniteSet(Y) /\ Cardinality(Y) = Cardinality(X)
    BY <2>4, <2>6, FS_Bijection
  <2> QED BY <2>7 DEF X, Y
<1>3. Cardinality(Recent(s, first, t)) <= Cardinality(Recent(d, first, t))
  <2>1. Recent(d, first + n, t) \subseteq Recent(d, first, t)
    BY <1>1 DEF Recent
  <2>2. IsFiniteSet(Recent(d, first, t))
    BY RecentFinite
  <2>3. Cardinality(Recent(d, first + n, t)) <= Cardinality(Recent(d, first, t))
    BY <2>1, <2>2, FS_Subset
  <2> QED BY <1>2, <2>3
<1>4. ASSUME \A i \in 1 .. n : d[i].at < t
      PROVE  Cardinality(Recent(s, 1, t)) = Cardinality(Recent(d, 1, t))
  <2>1. \A i \in 1 .. Len(d) : d[i].at \in Int
    <3>1. \A e \in A!Entries : e.at \in Int
      BY DEF A!Entries
    <3> QED BY <3>1
  <2>2. Recent(d, 1, t) = Recent(d, 1 + n, t)
    <3>1. \A i \in 1 .. Len(d) : d[i].at >= t => i \in 1 + n .. Len(d)
      BY <1>1, <1>4, <2>1
    <3>2. \A i \in 1 + n .. Len(d) : i \in 1 .. Len(d)
      BY <1>1
    <3> QED BY <3>1, <3>2 DEF Recent
  <2> QED BY <1>2, <2>2
<1> QED BY <1>3, <1>4

(* One more entry, one more packet. *)
LEMMA RecentOfMore ==
  ASSUME NEW s \in Seq(A!Entries), NEW p \in A!Entries, NEW first \in {1, 2}, NEW t \in Int
  PROVE  Cardinality(Recent(Append(s, p), first, t)) =
           Cardinality(Recent(s, first, t))
             + (IF p.at >= t /\ (first = 1 \/ s # <<>>) THEN 1 ELSE 0)
<1> DEFINE l == Len(s) + 1
           X == Recent(s, first, t)
<1>1. /\ Len(s) \in Nat /\ Len(Append(s, p)) = l /\ Append(s, p)[l] = p
      /\ \A i \in 1 .. Len(s) : Append(s, p)[i] = s[i]
  OBVIOUS
<1>2. s # <<>> <=> Len(s) >= 1
  OBVIOUS
<1>3. l \notin X /\ IsFiniteSet(X) /\ Cardinality(X) \in Nat
  <2>1. l \notin first .. Len(s)
    BY <1>1
  <2>2. l \notin X
    BY <2>1 DEF Recent
  <2> QED BY <2>2, RecentFinite
<1>4. Recent(Append(s, p), first, t) =
        IF p.at >= t /\ (first = 1 \/ s # <<>>) THEN X \cup {l} ELSE X
  <2> DEFINE new == Append(s, p)
  <2>1. /\ Len(s) \in Nat /\ Len(new) = l /\ new[l] = p /\ l = Len(s) + 1
        /\ \A i \in 1 .. Len(s) : new[i] = s[i]
        /\ s # <<>> <=> Len(s) >= 1
    BY <1>1, <1>2
  <2> HIDE DEF new, l
  <2>2. Recent(new, first, t) = IF p.at >= t /\ (first = 1 \/ s # <<>>) THEN X \cup {l} ELSE X
    BY <2>1 DEF Recent
  <2> QED BY <2>2 DEF new
<1> HIDE DEF X, l
<1>5. Cardinality(X \cup {l}) = Cardinality(X) + 1
  BY <1>3, FS_AddElement
<1> QED BY <1>3, <1>4, <1>5 DEF X

LEMMA ShiftsOfMore ==
  ASSUME NEW u \in Seq(A!Entries), NEW p \in A!Entries, NEW t \in Int
  PROVE  Cardinality(Shifts(Append(u, p), t)) =
           Cardinality(Shifts(u, t))
             + (IF u # <<>> /\ u[Len(u)].mac # p.mac /\ p.at >= t THEN 1 ELSE 0)
<1> DEFINE l == Len(u) + 1
           X == Shifts(u, t)
           new == Append(u, p)
<1>1. /\ Len(u) \in Nat /\ Len(new) = l /\ new[l] = p /\ l = Len(u) + 1
      /\ \A i \in 1 .. Len(u) : new[i] = u[i]
      /\ u # <<>> <=> Len(u) >= 1
  OBVIOUS
<1>2. l \notin X /\ IsFiniteSet(X) /\ Cardinality(X) \in Nat
  <2>1. l \notin 2 .. Len(u)
    BY <1>1
  <2>2. l \notin X
    BY <2>1 DEF Shifts
  <2>3. IsFiniteSet(Shifts(u, t)) /\ Cardinality(Shifts(u, t)) \in Nat
    BY RecentFinite
  <2> QED BY <2>2, <2>3
<1>3. Shifts(new, t) =
        IF u # <<>> /\ u[Len(u)].mac # p.mac /\ p.at >= t THEN X \cup {l} ELSE X
  <2> HIDE DEF new, l
  <2>1. \A i \in 2 .. Len(u) : i \in 1 .. Len(u) /\ i - 1 \in 1 .. Len(u)
    BY <1>1
  <2>2. \A i \in 2 .. Len(u) : new[i] = u[i] /\ new[i - 1] = u[i - 1]
    BY <1>1, <2>1
  <2>3. u # <<>> => l - 1 = Len(u) /\ new[l - 1] = u[Len(u)] /\ l \in 2 .. l
    BY <1>1
  <2>4. u = <<>> => 2 .. l = {} /\ X = {}
    BY <1>1 DEF Shifts
  <2>5. u # <<>> => 2 .. l = (2 .. Len(u)) \cup {l}
    BY <1>1
  <2>6. CASE u = <<>>
    BY <1>1, <2>4, <2>6 DEF Shifts
  <2>7. CASE u # <<>>
    <3>1. Shifts(new, t) = {i \in (2 .. Len(u)) \cup {l} : new[i].mac # new[i - 1].mac /\ new[i].at >= t}
      BY <1>1, <2>5, <2>7 DEF Shifts
    <3>2. ASSUME NEW i
          PROVE  i \in Shifts(new, t) <=>
                   i \in IF u # <<>> /\ u[Len(u)].mac # p.mac /\ p.at >= t THEN X \cup {l} ELSE X
      <4>1. CASE i \in 2 .. Len(u)
        <5>1. i # l
          BY <1>1, <4>1
        <5> QED BY <2>2, <3>1, <4>1, <5>1 DEF Shifts
      <4>2. CASE i = l
        BY <1>1, <1>2, <2>3, <2>7, <3>1, <4>2
      <4>3. CASE i \notin 2 .. Len(u) /\ i # l
        BY <3>1, <4>3 DEF Shifts
      <4> QED BY <4>1, <4>2, <4>3
    <3> QED BY <3>2
  <2> QED BY <2>6, <2>7
<1> HIDE DEF X, l, new
<1>4. Cardinality(X \cup {l}) = Cardinality(X) + 1
  BY <1>2, FS_AddElement
<1> QED BY <1>2, <1>3, <1>4 DEF X, new

Windowed(h) == \A i \in 1 .. Len(h) : h[i].at >= ticks - Window

LEMMA HeadOver ==
  ASSUME NEW d \in Seq(A!Entries), ticks \in Int
  PROVE  /\ A!Expired(d) \in 0 .. Len(d)
         /\ \A i \in 1 .. A!Expired(d) : d[i].at < ticks - Window
         /\ A!Expired(d) < Len(d) => d[A!Expired(d) + 1].at >= ticks - Window
<1>1. Window \in Int
  BY SensorAssumption DEF A!ArpAssumption
<1> DEFINE X == {i \in DOMAIN d : \A j \in 1 .. i : d[j].at < ticks - Window}
           l == Len(d)
           n == Cardinality(X)
<1>2. l \in Nat /\ DOMAIN d = 1 .. l
  OBVIOUS
<1>3. X \in SUBSET (1 .. l) /\ \A i \in X : \A j \in 1 .. i : j \in X
  BY <1>2
<1>4. A!Expired(d) = n
  BY DEF A!Expired, A!Cardinality, Cardinality
<1>5. n \in 0 .. l /\ X = 1 .. n
  <2> HIDE DEF X, l
  <2> QED BY <1>2, <1>3, PlacesBefore
<1>6. \A i \in 1 .. n : d[i].at < ticks - Window
  <2>1. \A i \in X : d[i].at < ticks - Window
    BY <1>2
  <2> HIDE DEF X, n
  <2> QED BY <1>5, <2>1
<1>7. n < l => d[n + 1].at >= ticks - Window
  <2> SUFFICES ASSUME n < l, ~(d[n + 1].at >= ticks - Window) PROVE FALSE
    OBVIOUS
  <2> DEFINE m == n
  <2>0. n + 1 \in 1 .. l
    BY <1>5
  <2>1. d[n + 1] \in A!Entries
    <3> HIDE DEF n
    <3> QED BY <2>0
  <2>2. d[n + 1].at \in Int
    <3>1. \A e \in A!Entries : e.at \in Int
      BY DEF A!Entries
    <3> QED BY <2>1, <3>1
  <2>3. d[n + 1].at < ticks - Window
    <3> HIDE DEF n
    <3> QED BY <1>1, <2>2
  <2>4. /\ m \in 0 .. l /\ m < l /\ d[m + 1].at < ticks - Window
        /\ \A i \in 1 .. m : d[i].at < ticks - Window
    BY <1>5, <1>6, <2>3
  <2>5. m + 1 \notin X
    <3>1. X = 1 .. m
      BY <1>5
    <3> HIDE DEF X, m
    <3> QED BY <1>2, <2>4, <3>1
  <2> HIDE DEF m, l
  <2>6. m + 1 \in 1 .. l /\ \A j \in 1 .. m + 1 : d[j].at < ticks - Window
    BY <1>2, <2>4
  <2> QED BY <1>2, <2>5, <2>6
<1> HIDE DEF n, X, l
<1> QED BY <1>4, <1>5, <1>6, <1>7 DEF l

(* A packet from mac: what is counted then, before anything is reported. *)
Held(d) == SubSeq(d, A!Expired(d) + 1, Len(d))

LEMMA HeldPart ==
  ASSUME NEW d \in Seq(A!Entries), NEW u, ticks \in 0 .. MaxTicks, InOrder(d, u),
         NEW s, s = Held(d)
  PROVE  /\ s \in Seq(A!Entries)
         /\ \A i \in 1 .. Len(s) : s[i].at <= ticks
         /\ \A j \in 1 .. Len(s) : \A i \in 1 .. j : s[i].at <= s[j].at
         /\ \A i \in 2 .. Len(s) : s[i - 1].mac # s[i].mac
         /\ Windowed(s)
         /\ s # <<>> => d # <<>> /\ s[Len(s)] = d[Len(d)]
         /\ \A t \in Int :
              /\ Cardinality(Recent(s, 2, t)) <= Cardinality(Recent(d, 2, t))
              /\ t >= ticks - Window =>
                   Cardinality(Recent(s, 1, t)) = Cardinality(Recent(d, 1, t))
<1>0. ticks \in Int /\ Window \in Int
  BY SensorAssumption DEF A!ArpAssumption
<1> DEFINE n == A!Expired(d)
<1>1. /\ n \in 0 .. Len(d)
      /\ \A i \in 1 .. n : d[i].at < ticks - Window
      /\ n < Len(d) => d[n + 1].at >= ticks - Window
  BY <1>0, HeadOver
<1>2. s = SubSeq(d, n + 1, Len(d))
  BY DEF Held
<1> HIDE DEF n
<1>3. /\ s \in Seq(A!Entries) /\ Len(s) = Len(d) - n
      /\ Len(s) \in Nat /\ Len(d) \in Nat /\ n \in Nat /\ n <= Len(d)
      /\ \A i \in 1 .. Len(s) : s[i] = d[n + i] /\ n + i \in 1 .. Len(d)
  BY <1>1, <1>2, HeadGone
<1>4. \A e \in A!Entries : e.at \in Int
  BY DEF A!Entries
<1>5. \A i \in 1 .. Len(d) : d[i].at \in Int
  BY <1>4
<1>6. \A i \in 1 .. Len(s) : s[i].at <= ticks
  BY <1>3 DEF InOrder
<1>7. \A j \in 1 .. Len(s) : \A i \in 1 .. j : s[i].at <= s[j].at
  <2> SUFFICES ASSUME NEW j \in 1 .. Len(s), NEW i \in 1 .. j PROVE s[i].at <= s[j].at
    OBVIOUS
  <2>1. i \in 1 .. Len(s) /\ n + i \in 1 .. n + j
    BY <1>3
  <2> QED BY <1>3, <2>1 DEF InOrder
<1>8. \A i \in 2 .. Len(s) : s[i - 1].mac # s[i].mac
  <2> SUFFICES ASSUME NEW i \in 2 .. Len(s) PROVE s[i - 1].mac # s[i].mac
    OBVIOUS
  <2> DEFINE k == i - 1
             m == n + k
  <2>1. i \in 1 .. Len(s) /\ k \in 1 .. Len(s) /\ m = (n + i) - 1 /\ n + i \in 2 .. Len(d)
    BY <1>3
  <2>2. d[(n + i) - 1].mac # d[n + i].mac
    BY <2>1 DEF InOrder
  <2>3. s[k] = d[m]
    <3> HIDE DEF k
    <3> QED BY <1>3, <2>1
  <2> QED BY <1>3, <2>1, <2>2, <2>3
<1>9. Windowed(s)
  <2> SUFFICES ASSUME NEW i \in 1 .. Len(s) PROVE s[i].at >= ticks - Window
    BY DEF Windowed
  <2>1. 1 \in 1 .. Len(s) /\ 1 \in 1 .. i /\ n < Len(d) /\ n + 1 \in 1 .. Len(d) /\ n + i \in 1 .. Len(d)
    BY <1>3
  <2>2. s[1] = d[n + 1] /\ s[1].at <= s[i].at /\ s[i] = d[n + i]
    BY <1>3, <1>7, <2>1
  <2>3. d[n + 1].at >= ticks - Window
    BY <1>1, <2>1
  <2>4. d[n + 1].at \in Int /\ d[n + i].at \in Int
    BY <1>5, <2>1
  <2> QED BY <1>0, <2>2, <2>3, <2>4
<1>10. s # <<>> => d # <<>> /\ s[Len(s)] = d[Len(d)]
  <2> SUFFICES ASSUME s # <<>> PROVE d # <<>> /\ s[Len(s)] = d[Len(d)]
    OBVIOUS
  <2>1. Len(s) \in 1 .. Len(s) /\ n + Len(s) = Len(d) /\ Len(d) >= 1
    BY <1>3
  <2> QED BY <1>3, <2>1
<1>11. ASSUME NEW t \in Int
       PROVE  /\ Cardinality(Recent(s, 2, t)) <= Cardinality(Recent(d, 2, t))
              /\ t >= ticks - Window =>
                   Cardinality(Recent(s, 1, t)) = Cardinality(Recent(d, 1, t))
  <2>1. t >= ticks - Window => \A i \in 1 .. n : d[i].at < t
    <3> SUFFICES ASSUME t >= ticks - Window, NEW i \in 1 .. n PROVE d[i].at < t
      OBVIOUS
    <3>1. d[i].at \in Int /\ d[i].at < ticks - Window
      BY <1>1, <1>3, <1>5
    <3> QED BY <1>0, <3>1
  <2> QED BY <1>1, <1>2, <2>1, RecentKept
<1> QED BY <1>3, <1>6, <1>7, <1>8, <1>9, <1>10, <1>11

(* The history with a packet from mac. *)
Extended(s, p) == IF s # <<>> /\ s[Len(s)].mac = p.mac THEN s ELSE Append(s, p)

LEMMA PacketMatched ==
  ASSUME NEW d \in Seq(A!Entries), NEW u, ticks \in 0 .. MaxTicks, InOrder(d, u), Matched(d, u),
         NEW p \in A!Entries, p.at = ticks,
         NEW e, e = Extended(Held(d), p), NEW since, since = Append(u, p)
  PROVE  InOrder(e, since) /\ Matched(e, since) /\ Windowed(e)
         /\ e # <<>> /\ since[Len(since)] = p
<1>0. ticks \in Int /\ Window \in Nat
  BY SensorAssumption DEF A!ArpAssumption
<1>1. PICK s : s = Held(d)
  OBVIOUS
<1>2. /\ s \in Seq(A!Entries)
      /\ \A i \in 1 .. Len(s) : s[i].at <= ticks
      /\ \A j \in 1 .. Len(s) : \A i \in 1 .. j : s[i].at <= s[j].at
      /\ \A i \in 2 .. Len(s) : s[i - 1].mac # s[i].mac
      /\ Windowed(s)
      /\ s # <<>> => d # <<>> /\ s[Len(s)] = d[Len(d)]
      /\ \A t \in Int :
           /\ Cardinality(Recent(s, 2, t)) <= Cardinality(Recent(d, 2, t))
           /\ t >= ticks - Window =>
                Cardinality(Recent(s, 1, t)) = Cardinality(Recent(d, 1, t))
  BY <1>1, HeldPart
<1>3. u \in Seq(A!Entries) /\ (d # <<>> <=> u # <<>>)
      /\ (d # <<>> => d[Len(d)].mac = u[Len(u)].mac)
  BY DEF InOrder
<1>4. e = IF s # <<>> /\ s[Len(s)].mac = p.mac THEN s ELSE Append(s, p)
  BY <1>1 DEF Extended
<1>5. /\ since \in Seq(A!Entries) /\ since # <<>> /\ since[Len(since)] = p
  BY <1>3
<1>6. s # <<>> => u # <<>> /\ s[Len(s)].mac = u[Len(u)].mac
  BY <1>2, <1>3
<1>7. \A t \in Int :
        /\ Cardinality(Recent(s, 2, t)) \in Nat /\ Cardinality(Recent(s, 1, t)) \in Nat
        /\ Cardinality(Recent(d, 2, t)) \in Nat /\ Cardinality(Recent(d, 1, t)) \in Nat
        /\ Cardinality(Shifts(u, t)) \in Nat
  BY <1>2, <1>3, RecentFinite
<1>8. \A t \in Int :
        Cardinality(Shifts(since, t)) = Cardinality(Shifts(u, t))
             + (IF u # <<>> /\ u[Len(u)].mac # p.mac /\ p.at >= t THEN 1 ELSE 0)
  BY <1>3, ShiftsOfMore
<1>9. CASE s # <<>> /\ s[Len(s)].mac = p.mac
  <2>1. e = s /\ u # <<>> /\ u[Len(u)].mac = p.mac
    BY <1>4, <1>6, <1>9
  <2>2. InOrder(e, since)
    BY <1>2, <1>5, <1>9, <2>1 DEF InOrder
  <2>3. Matched(e, since)
    <3> SUFFICES ASSUME NEW t \in Int
                 PROVE  /\ Cardinality(Recent(e, 2, t)) <= Cardinality(Shifts(since, t))
                        /\ t >= ticks - Window =>
                             Cardinality(Shifts(since, t)) <= Cardinality(Recent(e, 1, t))
      BY DEF Matched
    <3>1. Cardinality(Shifts(since, t)) = Cardinality(Shifts(u, t))
      BY <1>7, <1>8, <2>1
    <3>2. /\ Cardinality(Recent(d, 2, t)) <= Cardinality(Shifts(u, t))
          /\ t >= ticks - Window => Cardinality(Shifts(u, t)) <= Cardinality(Recent(d, 1, t))
      BY DEF Matched
    <3>3. /\ Cardinality(Recent(s, 2, t)) <= Cardinality(Recent(d, 2, t))
          /\ t >= ticks - Window => Cardinality(Recent(s, 1, t)) = Cardinality(Recent(d, 1, t))
      BY <1>2
    <3>4. /\ Cardinality(Recent(s, 2, t)) \in Nat /\ Cardinality(Recent(d, 2, t)) \in Nat
          /\ Cardinality(Shifts(u, t)) \in Nat
      BY <1>7
    <3> QED BY <2>1, <3>1, <3>2, <3>3, <3>4
  <2> QED BY <1>2, <1>5, <1>9, <2>1, <2>2, <2>3
<1>10. CASE ~(s # <<>> /\ s[Len(s)].mac = p.mac)
  <2> DEFINE l == Len(s) + 1
  <2>1. e = Append(s, p)
    BY <1>4, <1>10
  <2>2. /\ Len(s) \in Nat /\ e \in Seq(A!Entries) /\ Len(e) = l /\ e[l] = p /\ e # <<>>
        /\ \A i \in 1 .. Len(s) : e[i] = s[i]
    BY <1>2, <2>1
  <2>3. l = Len(s) + 1
    OBVIOUS
  <2> HIDE DEF l
  <2>4. \A i \in 1 .. l : i \in 1 .. Len(s) \/ i = l
    BY <2>2, <2>3
  <2>5. \A i \in 1 .. Len(e) : e[i].at <= ticks
    <3> SUFFICES ASSUME NEW i \in 1 .. Len(e) PROVE e[i].at <= ticks
      OBVIOUS
    <3>1. CASE i = l
      BY <1>0, <2>2, <3>1
    <3>2. CASE i \in 1 .. Len(s)
      BY <1>2, <2>2, <3>2
    <3> QED BY <2>2, <2>4, <3>1, <3>2
  <2>6. \A j \in 1 .. Len(e) : \A i \in 1 .. j : e[i].at <= e[j].at
    <3> SUFFICES ASSUME NEW j \in 1 .. Len(e), NEW i \in 1 .. j PROVE e[i].at <= e[j].at
      OBVIOUS
    <3>1. CASE j = l
      BY <2>2, <2>5, <3>1
    <3>2. CASE j \in 1 .. Len(s)
      <4>1. i \in 1 .. Len(s)
        BY <2>2, <3>2
      <4> QED BY <1>2, <2>2, <3>2, <4>1
    <3> QED BY <2>2, <2>4, <3>1, <3>2
  <2>7. \A i \in 2 .. Len(e) : e[i - 1].mac # e[i].mac
    <3> SUFFICES ASSUME NEW i \in 2 .. Len(e) PROVE e[i - 1].mac # e[i].mac
      OBVIOUS
    <3> DEFINE k == i - 1
    <3>1. k \in 1 .. Len(s) /\ (i = l \/ i \in 2 .. Len(s))
      BY <2>2, <2>3
    <3>2. e[k] = s[k]
      <4> HIDE DEF k
      <4> QED BY <2>2, <3>1
    <3>3. CASE i = l
      <4>1. k = Len(s) /\ s # <<>>
        BY <1>2, <2>2, <2>3, <3>1, <3>3
      <4>2. e[k] = s[Len(s)]
        BY <3>2, <4>1
      <4> QED BY <1>10, <2>2, <3>3, <4>1, <4>2
    <3>4. CASE i \in 2 .. Len(s)
      <4>1. e[i] = s[i]
        BY <2>2, <3>4
      <4> QED BY <1>2, <3>2, <3>4, <4>1
    <3> QED BY <3>1, <3>3, <3>4
  <2>8. InOrder(e, since)
    BY <1>5, <2>2, <2>5, <2>6, <2>7 DEF InOrder
  <2>9. Matched(e, since)
    <3> SUFFICES ASSUME NEW t \in Int
                 PROVE  /\ Cardinality(Recent(e, 2, t)) <= Cardinality(Shifts(since, t))
                        /\ t >= ticks - Window =>
                             Cardinality(Shifts(since, t)) <= Cardinality(Recent(e, 1, t))
      BY DEF Matched
    <3>1. /\ Cardinality(Recent(e, 2, t)) =
               Cardinality(Recent(s, 2, t)) + (IF p.at >= t /\ s # <<>> THEN 1 ELSE 0)
          /\ Cardinality(Recent(e, 1, t)) =
               Cardinality(Recent(s, 1, t)) + (IF p.at >= t THEN 1 ELSE 0)
      BY <1>2, <2>1, RecentOfMore
    <3>2. /\ Cardinality(Recent(d, 2, t)) <= Cardinality(Shifts(u, t))
          /\ t >= ticks - Window => Cardinality(Shifts(u, t)) <= Cardinality(Recent(d, 1, t))
      BY DEF Matched
    <3>3. /\ Cardinality(Recent(s, 2, t)) <= Cardinality(Recent(d, 2, t))
          /\ t >= ticks - Window => Cardinality(Recent(s, 1, t)) = Cardinality(Recent(d, 1, t))
      BY <1>2
    <3>4. /\ Cardinality(Recent(s, 2, t)) \in Nat /\ Cardinality(Recent(d, 2, t)) \in Nat
          /\ Cardinality(Shifts(u, t)) \in Nat /\ Cardinality(Recent(s, 1, t)) \in Nat
      BY <1>7
    <3>5. s # <<>> => u # <<>> /\ u[Len(u)].mac # p.mac
      BY <1>6, <1>10
    <3>6. Cardinality(Shifts(since, t)) = Cardinality(Shifts(u, t))
             + (IF u # <<>> /\ u[Len(u)].mac # p.mac /\ p.at >= t THEN 1 ELSE 0)
      BY <1>8
    <3> QED BY <3>1, <3>2, <3>3, <3>4, <3>5, <3>6
  <2>10. Windowed(e)
    BY <1>0, <1>2, <2>2, <2>4 DEF Windowed
  <2> QED BY <1>5, <2>2, <2>8, <2>9, <2>10
<1> QED BY <1>9, <1>10

LEMMA ArpEmpty ==
  ASSUME Window \in Nat PROVE InOrder(<<>>, <<>>) /\ Matched(<<>>, <<>>)
<1>1. \A t \in Int : Recent(<<>>, 1, t) = {} /\ Recent(<<>>, 2, t) = {} /\ Shifts(<<>>, t) = {}
  BY DEF Recent, Shifts
<1>2. Cardinality({}) = 0
  BY FS_EmptySet
<1>3. InOrder(<<>>, <<>>)
  BY DEF InOrder
<1>4. Matched(<<>>, <<>>)
  <2> SUFFICES ASSUME NEW t \in Int
               PROVE  /\ Cardinality(Recent(<<>>, 2, t)) <= Cardinality(Shifts(<<>>, t))
                      /\ Cardinality(Shifts(<<>>, t)) <= Cardinality(Recent(<<>>, 1, t))
    BY DEF Matched
  <2>1. Recent(<<>>, 1, t) = {} /\ Recent(<<>>, 2, t) = {} /\ Shifts(<<>>, t) = {}
    BY <1>1, Zenon
  <2>2. /\ Cardinality(Recent(<<>>, 2, t)) = 0 /\ Cardinality(Shifts(<<>>, t)) = 0
        /\ Cardinality(Recent(<<>>, 1, t)) = 0
    BY <1>2, <2>1, Zenon
  <2> QED BY <2>2
<1> QED BY <1>3, <1>4

LEMMA ReportedFlap ==
  ASSUME NEW e, NEW since, InOrder(e, since), Matched(e, since), Windowed(e), e # <<>>,
         ticks \in Int
  PROVE  Len(e) - 1 \in Nat /\ Len(e) - 1 <= A!ChangesSince(since, ticks - Window)
<1>0. ticks - Window \in Int
  BY SensorAssumption DEF A!ArpAssumption
<1>1. e \in Seq(A!Entries) /\ Len(e) \in Nat /\ Len(e) >= 1
  BY DEF InOrder
<1>2. Recent(e, 2, ticks - Window) = 2 .. Len(e)
  <2>1. \A i \in 2 .. Len(e) : i \in 1 .. Len(e)
    OBVIOUS
  <2> QED BY <2>1 DEF Recent, Windowed
<1>3. Cardinality(2 .. Len(e)) = Len(e) - 1
  <2>0. 2 \in Int /\ Len(e) \in Int
    BY <1>1
  <2>1. Cardinality(2 .. Len(e)) = IF 2 > Len(e) THEN 0 ELSE Len(e) - 2 + 1
    BY <2>0, FS_Interval
  <2> QED BY <1>1, <2>1
<1>4. A!ChangesSince(since, ticks - Window) = Cardinality(Shifts(since, ticks - Window))
  BY DEF A!ChangesSince, Shifts, A!Cardinality, Cardinality
<1> QED BY <1>0, <1>1, <1>2, <1>3, <1>4 DEF Matched

LEMMA AnnouncedStep ==
  ASSUME ArpInv, NEW mac \in Macs, A!ProcessPacket(mac) PROVE ArpInv'
<1>0. ticks \in 0 .. MaxTicks /\ ticks \in Int /\ ticks' = ticks
      /\ Window \in Nat /\ MaxChanges \in Nat
  BY SensorAssumption DEF A!ArpAssumption, ArpInv, A!ProcessPacket
<1>1. PICK p : p = [at |-> ticks, mac |-> mac]
  OBVIOUS
<1>2. p \in A!Entries /\ p.at = ticks /\ p.mac = mac
  BY <1>0, <1>1 DEF A!Entries
<1>3. PICK e : e = Extended(Held(history), p)
  OBVIOUS
<1>4. PICK since : since = Append(announced, p)
  OBVIOUS
<1>5. A!With(A!Unexpired(history), mac) = e
  BY <1>1, <1>2, <1>3 DEF A!With, A!Unexpired, A!Last, Extended, Held
<1>6. history \in Seq(A!Entries) /\ InOrder(history, announced) /\ Matched(history, announced)
  BY DEF ArpInv, InOrder
<1>7. InOrder(e, since) /\ Matched(e, since) /\ Windowed(e) /\ e # <<>> /\ since[Len(since)] = p
  BY <1>0, <1>2, <1>3, <1>4, <1>6, PacketMatched
<1>8. IF Len(e) - 1 > MaxChanges
      THEN /\ flapping' = [changes |-> Len(e) - 1, since |-> since]
           /\ history' = <<>> /\ announced' = <<>>
      ELSE flapping' = None /\ history' = e /\ announced' = since
  BY <1>1, <1>4, <1>5 DEF A!ProcessPacket, A!Report
<1>9. CASE Len(e) - 1 > MaxChanges
  <2>1. /\ flapping' = [changes |-> Len(e) - 1, since |-> since]
        /\ history' = <<>> /\ announced' = <<>>
    BY <1>8, <1>9
  <2>2. InOrder(<<>>, <<>>) /\ Matched(<<>>, <<>>)
    BY <1>0, ArpEmpty
  <2>3. InOrder(history, announced)' /\ Matched(history, announced)'
    BY <1>0, <2>1, <2>2 DEF InOrder, Matched, Recent, Shifts, A!Entries
  <2>4. Len(e) - 1 \in Nat /\ Len(e) - 1 <= A!ChangesSince(since, ticks - Window)
    BY <1>0, <1>7, ReportedFlap
  <2>5. since \in Seq(A!Entries)
    BY <1>7 DEF InOrder
  <2>6. flapping' \in [changes : Nat, since : Seq(A!Entries)]
    BY <2>1, <2>4, <2>5
  <2>7. A!ReportsAreFlaps'
    <3>1. A!Last(since) = p
      BY <1>7 DEF A!Last
    <3>2. /\ flapping'.changes > MaxChanges
          /\ flapping'.changes <=
               A!ChangesSince(flapping'.since, A!Last(flapping'.since).at - Window)
      BY <1>2, <1>9, <2>1, <2>4, <3>1
    <3> QED BY <3>2 DEF A!ReportsAreFlaps, A!ChangesSince
  <2>8. Len(history') <= MaxChanges + 1
    BY <1>0, <2>1
  <2> QED BY <1>0, <2>3, <2>6, <2>7, <2>8 DEF ArpInv, A!Entries
<1>10. CASE ~(Len(e) - 1 > MaxChanges)
  <2>1. flapping' = None /\ history' = e /\ announced' = since
    BY <1>8, <1>10
  <2>2. InOrder(history, announced)' /\ Matched(history, announced)'
    BY <1>0, <1>7, <2>1 DEF InOrder, Matched, Recent, Shifts, A!Entries
  <2>3. Len(e) \in Nat
    BY <1>7 DEF InOrder
  <2>4. Len(history') <= MaxChanges + 1
    BY <1>0, <1>10, <2>1, <2>3
  <2> QED BY <1>0, <2>1, <2>2, <2>4 DEF ArpInv, A!Entries, A!ReportsAreFlaps
<1> QED BY <1>9, <1>10

LEMMA AnnouncedTick ==
  ASSUME ArpInv, ticks' \in 0 .. MaxTicks, ticks' >= ticks, UNCHANGED arp PROVE ArpInv'
<1>0. /\ ticks \in Int /\ ticks' \in Int /\ ticks' >= ticks /\ Window \in Nat
      /\ history' = history /\ announced' = announced /\ flapping' = flapping
  BY SensorAssumption DEF A!ArpAssumption, ArpInv, arp
<1>1. InOrder(history, announced) /\ Matched(history, announced)
  BY DEF ArpInv
<1>2. InOrder(history, announced)'
  <2>1. \A i \in 1 .. Len(history) : history[i].at \in Int
    <3>1. \A x \in A!Entries : x.at \in Int
      BY DEF A!Entries
    <3> QED BY <1>1, <3>1 DEF InOrder
  <2>2. \A i \in 1 .. Len(history) : history[i].at <= ticks'
    BY <1>0, <1>1, <2>1 DEF InOrder
  <2> QED BY <1>0, <1>1, <2>2 DEF InOrder, A!Entries
<1>3. Matched(history, announced)'
  <2>1. \A x, y \in Int : \A t, w \in Int : x >= y /\ t >= x - w => t >= y - w
    OBVIOUS
  <2>2. Window \in Int
    BY <1>0
  <2>3. \A t \in Int : t >= ticks' - Window => t >= ticks - Window
    BY <1>0, <2>1, <2>2, Zenon
  <2> QED BY <1>0, <1>1, <2>3 DEF Matched, Recent, Shifts
<1>4. A!ReportsAreFlaps'
  BY <1>0 DEF ArpInv, A!ReportsAreFlaps, A!ChangesSince
<1> QED BY <1>0, <1>2, <1>3, <1>4 DEF ArpInv, A!Entries

LEMMA ArpHolds == ArpInv => FlapsAreReported
<1> SUFFICES ASSUME ArpInv PROVE FlapsAreReported
  OBVIOUS
<1>0. ticks \in 0 .. MaxTicks /\ ticks - Window \in Int /\ MaxChanges \in Nat /\ Window \in Nat
  BY SensorAssumption DEF A!ArpAssumption, ArpInv
<1>1. InOrder(history, announced) /\ Matched(history, announced) /\ Len(history) <= MaxChanges + 1
  BY DEF ArpInv
<1>2. history \in Seq(A!Entries) /\ announced \in Seq(A!Entries) /\ Len(history) \in Nat
  BY <1>1 DEF InOrder
<1>3. A!TypeOK
  <2>1. \A i \in 2 .. Len(history) :
          history[i - 1].at <= history[i].at /\ history[i - 1].mac # history[i].mac
    <3> SUFFICES ASSUME NEW i \in 2 .. Len(history)
                 PROVE  history[i - 1].at <= history[i].at /\ history[i - 1].mac # history[i].mac
      OBVIOUS
    <3>1. i \in 1 .. Len(history) /\ i - 1 \in 1 .. i
      OBVIOUS
    <3> QED BY <1>1, <3>1 DEF InOrder
  <2>2. history # <<>> => A!Last(history).mac = A!Last(announced).mac
    BY <1>1 DEF InOrder, A!Last
  <2>3. history # <<>> <=> announced # <<>>
    BY <1>1 DEF InOrder
  <2>4. flapping \in {None} \cup [changes : Nat, since : Seq(A!Entries)]
    BY DEF ArpInv
  <2> QED BY <1>0, <1>2, <2>1, <2>2, <2>3, <2>4 DEF A!TypeOK
<1>4. A!OneChangeEscapes
  <2>1. A!ChangesSince(announced, ticks - Window) = Cardinality(Shifts(announced, ticks - Window))
    BY DEF A!ChangesSince, Shifts, A!Cardinality, Cardinality
  <2>2. Cardinality(Shifts(announced, ticks - Window)) <= Cardinality(Recent(history, 1, ticks - Window))
    BY <1>0, <1>1 DEF Matched
  <2>3. IsFiniteSet(1 .. Len(history)) /\ Cardinality(1 .. Len(history)) = Len(history)
    <3>0. 1 \in Int /\ Len(history) \in Int
      BY <1>2
    <3>1. IsFiniteSet(1 .. Len(history))
          /\ Cardinality(1 .. Len(history)) = IF 1 > Len(history) THEN 0 ELSE Len(history) - 1 + 1
      BY <3>0, FS_Interval
    <3> QED BY <1>2, <3>1
  <2>4. Recent(history, 1, ticks - Window) \subseteq 1 .. Len(history)
    BY DEF Recent
  <2>5. Cardinality(Recent(history, 1, ticks - Window)) <= Len(history)
    BY <2>3, <2>4, FS_Subset
  <2>6. /\ Cardinality(Recent(history, 1, ticks - Window)) \in Nat
        /\ Cardinality(Shifts(announced, ticks - Window)) \in Nat
    BY <1>0, <1>2, RecentFinite
  <2>7. Cardinality(Shifts(announced, ticks - Window)) <= MaxChanges + 1
    BY <1>0, <1>1, <1>2, <2>2, <2>5, <2>6
  <2> QED BY <2>1, <2>7 DEF A!OneChangeEscapes
<1> QED BY <1>3, <1>4 DEF FlapsAreReported, ArpInv

(* The ARP detector reports changes that were seen, and all but one of a   *)
(* window (ArpDetector.tla): its history, which counts from the second     *)
(* entry on, has every change of a window but the one that its first entry *)
(* may be.                                                                 *)
THEOREM FlapsAreTold == MCSpec => []FlapsAreReported
<1>1. MCInit => ArpInv
  <2> SUFFICES ASSUME MCInit PROVE ArpInv
    OBVIOUS
  <2>1. ticks = 0 /\ history = <<>> /\ flapping = None /\ announced = <<>>
    BY DEF MCInit, A!Init
  <2>2. Window \in Nat /\ MaxTicks \in Nat /\ MaxChanges \in Nat
    BY SensorAssumption DEF A!ArpAssumption
  <2>3. Len(history) <= MaxChanges + 1
    BY <2>1, <2>2
  <2> QED BY <2>1, <2>2, <2>3, ArpEmpty DEF ArpInv, A!ReportsAreFlaps
<1>2. ArpInv /\ [MCNext]_<<part, vars, sensor, ticks, scans, arp, names>> => ArpInv'
  <2> SUFFICES ASSUME ArpInv, [MCNext]_<<part, vars, sensor, ticks, scans, arp, names>>
               PROVE  ArpInv'
    OBVIOUS
  <2>1. ticks \in 0 .. MaxTicks /\ MaxTicks \in Nat
    BY SensorAssumption DEF A!ArpAssumption, ArpInv
  <2>2. CASE UNCHANGED <<ticks, arp>>
    <3>1. ticks' \in 0 .. MaxTicks /\ ticks' >= ticks
      BY <2>1, <2>2
    <3> QED BY <2>2, <3>1, AnnouncedTick
  <2>3. CASE ticks < MaxTicks /\ ticks' = ticks + 1 /\ UNCHANGED arp
    <3>1. ticks' \in 0 .. MaxTicks /\ ticks' >= ticks
      BY <2>1, <2>3
    <3> QED BY <2>3, <3>1, AnnouncedTick
  <2>4. CASE Scanned
    <3>1. UNCHANGED arp /\ N!Next
      BY <2>4 DEF Scanned
    <3>2. N!Tick \/ UNCHANGED ticks
      BY <3>1 DEF N!Next, N!ProcessPacket
    <3> QED BY <2>2, <2>3, <3>1, <3>2 DEF N!Tick
  <2>5. CASE Announced
    <3>1. A!Next
      BY <2>5 DEF Announced
    <3>2. CASE A!Tick
      BY <2>3, <3>2 DEF A!Tick, arp
    <3>3. CASE \E mac \in Macs : A!ProcessPacket(mac)
      BY <3>3, AnnouncedStep
    <3> QED BY <3>1, <3>2, <3>3 DEF A!Next
  <2>6. CASE Cached \/ Sensed \/ Named
    BY <2>2, <2>6 DEF Cached, Sensed, Named
  <2>7. CASE UNCHANGED <<part, vars, sensor, ticks, scans, arp, names>>
    BY <2>2, <2>7
  <2> QED BY <2>4, <2>5, <2>6, <2>7 DEF MCNext
<1> QED BY <1>1, <1>2, ArpHolds, PTL DEF MCSpec

-----------------------------------------------------------------------------
(* The watchlist of names: what a process knows of the pairs it was asked. *)

(* The pairs it reported are those it was asked for.  Each was alerted     *)
(* once at most, and one that is in hand was not yet.                      *)
PairsReported ==
  \A p \in Processes :
    /\ W!Pairs(asked[p]) = reported[p]
    /\ W!Pairs(W!Range(alerted[p])) \subseteq reported[p]
    /\ W!Alone(p)
    /\ held[p] # None =>
         /\ held[p] \in asked[p] /\ held[p].ts <= days
         /\ W!Pair(held[p]) \notin W!Pairs(W!Range(alerted[p]))

(* What its deduplicator remembers it has alerted, before what is in hand. *)
SightingsAlerted ==
  \A p \in Processes : \A e \in known[p] :
    /\ \E a \in W!Range(alerted[p]) : a.host = e.fp /\ a.ts = e.ts
    /\ e.ts <= days
    /\ held[p] # None => e.ts <= held[p].ts

Evidenced(p, q) ==
  \E a \in W!Range(alerted[p]) :
    W!Pair(a) = W!Pair(q) \/ (a.host = q.host /\ a.ts <= q.ts /\ q.ts - a.ts < ListWindow[p])
AskedEvidenced ==
  \A p \in Processes : intel[p] # None =>
    \A q \in asked[p] : q = held[p] \/ Evidenced(p, q)

WatchInv == W!TypeOK /\ PairsReported /\ SightingsAlerted /\ AskedEvidenced

USE SensorAssumption DEF W!DnsAssumption, W!NoneAssumption, W!Times, W!Queries

LEMMA EvictedIsPart ==
  ASSUME NEW old, NEW ts, NEW window, NEW left \in W!Evict(old, ts, window)
  PROVE  left \subseteq old
BY DEF W!Evict, W!YoungerHalves, W!Unexpired

LEMMA RangeOfAppend ==
  ASSUME NEW Set, NEW q \in Seq(Set), NEW a \in Set
  PROVE  /\ Append(q, a) \in Seq(Set) /\ Len(Append(q, a)) = Len(q) + 1
         /\ W!Range(Append(q, a)) = W!Range(q) \cup {a}
         /\ DOMAIN q = 1 .. Len(q) /\ Len(q) \in Nat
         /\ \A i \in DOMAIN q : Append(q, a)[i] = q[i]
         /\ Append(q, a)[Len(q) + 1] = a
         /\ DOMAIN Append(q, a) = DOMAIN q \cup {Len(q) + 1}
<1>1. /\ Append(q, a) \in Seq(Set) /\ Len(Append(q, a)) = Len(q) + 1 /\ Len(q) \in Nat
      /\ DOMAIN q = 1 .. Len(q) /\ DOMAIN Append(q, a) = 1 .. Len(q) + 1
      /\ \A i \in 1 .. Len(q) : Append(q, a)[i] = q[i]
      /\ Append(q, a)[Len(q) + 1] = a
  OBVIOUS
<1>2. 1 .. Len(q) + 1 = 1 .. Len(q) \cup {Len(q) + 1}
  BY <1>1
<1>3. \A x : x \in W!Range(Append(q, a)) <=> x \in W!Range(q) \/ x = a
  BY <1>1, <1>2 DEF W!Range
<1> QED BY <1>1, <1>3

LEMMA PairsOfMore ==
  ASSUME NEW queries, NEW a
  PROVE  W!Pairs(queries \cup {a}) = W!Pairs(queries) \cup {W!Pair(a)}
BY DEF W!Pairs

LEMMA NothingAlerted ==
  W!Pairs({}) = {} /\ W!Range(<<>>) = {} /\ DOMAIN <<>> = {}
BY DEF W!Pairs, W!Range

(* What a run alerted is what it was, if its alerts are.                   *)
LEMMA AloneStays ==
  ASSUME NEW p \in Processes, alerted'[p] = alerted[p]
  PROVE  W!Alone(p)' = W!Alone(p)
BY DEF W!Alone

(* Time passes, the list is edited, a process stops: a run learns nothing. *)
LEMMA ElsewhereStep ==
  ASSUME WatchInv,
         \/ W!Tick
         \/ \E l \in SUBSET Domains : W!Edit(l)
         \/ \E p \in Processes : W!Stop(p)
  PROVE  WatchInv'
<1>1. /\ UNCHANGED <<reported, known, alerted, asked>>
      /\ days \in Nat /\ days' \in Nat /\ days <= days' /\ days' \in W!Times
      /\ \A p \in Processes : held'[p] = held[p] \/ held'[p] = None
      /\ \A p \in Processes : intel'[p] # None => intel'[p] = intel[p] /\ held'[p] = held[p]
  BY DEF WatchInv, W!TypeOK, W!Tick, W!Edit, W!Stop, W!run
<1>2. W!TypeOK'
  BY <1>1 DEF WatchInv, W!TypeOK, W!Tick, W!Edit, W!Stop, W!run
<1>3. PairsReported'
  BY <1>1 DEF WatchInv, W!TypeOK, PairsReported, W!Alone
<1>4. SightingsAlerted'
  BY <1>1 DEF WatchInv, SightingsAlerted, W!TypeOK
<1>5. AskedEvidenced'
  BY <1>1 DEF WatchInv, AskedEvidenced, Evidenced
<1> QED BY <1>2, <1>3, <1>4, <1>5 DEF WatchInv

LEMMA StartStep ==
  ASSUME WatchInv, NEW p \in Processes, W!Start(p)
  PROVE  WatchInv'
<1>1. /\ UNCHANGED <<days, list, held>> /\ held[p] = None
      /\ intel' = [intel EXCEPT ![p] = list]
      /\ reported'[p] = {} /\ known'[p] = {} /\ alerted'[p] = <<>> /\ asked'[p] = {}
      /\ \A o \in Processes : o # p =>
           /\ intel'[o] = intel[o] /\ reported'[o] = reported[o] /\ known'[o] = known[o]
           /\ alerted'[o] = alerted[o] /\ asked'[o] = asked[o]
  BY DEF WatchInv, W!TypeOK, W!Start
<1>2. W!TypeOK'
  <2>1. <<>> \in Seq(W!Queries)
    OBVIOUS
  <2> QED BY <1>1, <2>1 DEF WatchInv, W!TypeOK, W!Start
<1>4. PairsReported'
  <2>1. W!Alone(p)'
    BY <1>1, NothingAlerted DEF W!Alone
  <2>2. \A o \in Processes : o # p => W!Alone(o)' = W!Alone(o)
    BY <1>1, AloneStays
  <2>3. /\ W!Pairs(asked'[p]) = {} /\ W!Pairs(W!Range(alerted'[p])) = {}
    BY <1>1, NothingAlerted
  <2> QED BY <1>1, <2>1, <2>2, <2>3 DEF WatchInv, PairsReported
<1>5. SightingsAlerted'
  BY <1>1 DEF WatchInv, SightingsAlerted
<1>6. AskedEvidenced'
  BY <1>1 DEF WatchInv, AskedEvidenced, Evidenced
<1> QED BY <1>2, <1>4, <1>5, <1>6 DEF WatchInv

(* A pair that is asked for again changes nothing; a new one is in hand.   *)
LEMMA QueryStep ==
  ASSUME WatchInv, NEW p \in Processes, NEW q \in W!Queries, W!Query(p, q)
  PROVE  WatchInv'
<1>1. /\ UNCHANGED <<days, list, intel, known, alerted>>
      /\ intel[p] # None /\ held[p] = None /\ q.ts = days
      /\ \A o \in Processes : o # p =>
           asked'[o] = asked[o] /\ reported'[o] = reported[o] /\ held'[o] = held[o]
      /\ asked' \in [Processes -> SUBSET W!Queries]
      /\ held' \in [Processes -> W!Queries \cup {None}]
      /\ reported' \in [Processes -> SUBSET (Hosts \X Domains)]
  BY DEF WatchInv, W!TypeOK, W!Query, W!Pair
<1>2. CASE W!Pair(q) \in reported[p]
  <2>1. W!Pair(q) \in W!Pairs(asked[p])
    BY <1>2 DEF WatchInv, PairsReported
  <2>2. asked'[p] = asked[p] /\ reported'[p] = reported[p] /\ held'[p] = None
    BY <1>2, <2>1 DEF WatchInv, W!TypeOK, W!Query, W!Known
  <2>3. \A o \in Processes : asked'[o] = asked[o] /\ reported'[o] = reported[o] /\ held'[o] = held[o]
    BY <1>1, <2>2
  <2>4. W!TypeOK'
    BY <1>1, <2>3 DEF WatchInv, W!TypeOK
  <2>5. PairsReported'
    BY <1>1, <2>3, AloneStays DEF WatchInv, PairsReported
  <2>6. SightingsAlerted' /\ AskedEvidenced'
    BY <1>1, <2>3 DEF WatchInv, SightingsAlerted, AskedEvidenced, Evidenced
  <2> QED BY <2>4, <2>5, <2>6 DEF WatchInv
<1>3. CASE W!Pair(q) \notin reported[p]
  <2>1. W!Pair(q) \notin W!Pairs(asked[p])
    BY <1>3 DEF WatchInv, PairsReported
  <2>2. /\ asked'[p] = asked[p] \cup {q} /\ reported'[p] = reported[p] \cup {W!Pair(q)}
        /\ held'[p] = q
    BY <1>3, <2>1 DEF WatchInv, W!TypeOK, W!Query, W!Known
  <2>3. W!TypeOK'
    BY <1>1 DEF WatchInv, W!TypeOK
  <2>4. W!Pairs(asked'[p]) = reported'[p]
    BY <2>2, PairsOfMore DEF WatchInv, PairsReported
  <2>5. PairsReported'
    <3>1. W!Pair(q) \notin W!Pairs(W!Range(alerted[p])) /\ q.ts <= days
      BY <1>1, <1>3 DEF WatchInv, PairsReported, W!TypeOK
    <3>2. \A o \in Processes : W!Alone(o)' = W!Alone(o)
      BY <1>1, AloneStays
    <3> QED BY <1>1, <2>2, <2>4, <3>1, <3>2 DEF WatchInv, PairsReported
  <2>6. SightingsAlerted'
    BY <1>1, <2>2 DEF WatchInv, SightingsAlerted
  <2>7. AskedEvidenced'
    BY <1>1, <2>2 DEF WatchInv, AskedEvidenced, Evidenced
  <2> QED BY <2>3, <2>5, <2>6, <2>7 DEF WatchInv
<1> QED BY <1>2, <1>3

(* What is suppressed has the alert of what it repeats, which was sent     *)
(* before it was asked; what is not has its own.                           *)
LEMMA DispatchStep ==
  ASSUME WatchInv, NEW p \in Processes, W!Dispatch(p)
  PROVE  WatchInv'
<1> DEFINE q == held[p]
           a == [q EXCEPT !.ts = days]
<1>1. PICK left \in W!Evict(known[p], days, ListWindow[p]) :
        W!Suppress(p, left) \/ W!Persist(p, left)
  BY DEF W!Dispatch
<1>2. /\ UNCHANGED <<days, list, intel, reported, asked>>
      /\ held' = [held EXCEPT ![p] = None] /\ q \in W!Queries /\ q # None
      /\ left \subseteq known[p]
  BY EvictedIsPart DEF WatchInv, W!TypeOK, W!Dispatch
<1>3. /\ held'[p] = None
      /\ \A o \in Processes : o # p => held'[o] = held[o]
      /\ \A o \in Processes : o # p => known'[o] = known[o] /\ alerted'[o] = alerted[o]
  BY <1>1, <1>2 DEF WatchInv, W!TypeOK, W!Suppress, W!Persist
<1>4. CASE W!Suppress(p, left)
  <2>1. UNCHANGED alerted /\ known' = [known EXCEPT ![p] = left]
    BY <1>4 DEF W!Suppress
  <2>2. W!TypeOK'
    BY <1>2, <1>3, <2>1 DEF WatchInv, W!TypeOK
  <2>3. PairsReported'
    BY <1>2, <1>3, <2>1, AloneStays DEF WatchInv, PairsReported
  <2>4. SightingsAlerted'
    BY <1>2, <1>3, <2>1 DEF WatchInv, SightingsAlerted, W!TypeOK
  <2>5. Evidenced(p, q)
    <3>1. PICK e \in known[p] : e.fp = q.host /\ days - e.ts < ListWindow[p]
      BY <1>2, <1>4 DEF W!Suppress, W!Suppressed, W!Repeats, W!Sighting
    <3>2. /\ e.ts \in Nat /\ days \in Nat /\ q.ts \in Nat /\ ListWindow[p] \in Nat
          /\ q.ts <= days /\ e.ts <= q.ts
      BY <1>2 DEF WatchInv, W!TypeOK, SightingsAlerted, PairsReported
    <3>3. q.ts - e.ts < ListWindow[p]
      BY <3>1, <3>2
    <3> QED BY <3>1, <3>2, <3>3 DEF WatchInv, SightingsAlerted, Evidenced
  <2>6. AskedEvidenced'
    BY <1>2, <1>3, <2>1, <2>5 DEF WatchInv, AskedEvidenced, Evidenced
  <2> QED BY <2>2, <2>3, <2>4, <2>6 DEF WatchInv
<1>5. CASE W!Persist(p, left)
  <2>1. /\ a \in W!Queries /\ a.host = q.host /\ a.ts = days /\ W!Pair(a) = W!Pair(q)
        /\ alerted[p] \in Seq(W!Queries)
    BY <1>2 DEF WatchInv, W!TypeOK, W!Pair
  <2>2. /\ alerted'[p] = Append(alerted[p], a)
        /\ known'[p] \subseteq known[p] \cup {[fp |-> q.host, ts |-> days]}
    BY <1>2, <1>5 DEF WatchInv, W!TypeOK, W!Persist, W!Registered, W!Sighting
  <2> HIDE DEF a, q, W!Queries
  <2>3. /\ alerted'[p] \in Seq(W!Queries) /\ Len(alerted'[p]) = Len(alerted[p]) + 1
        /\ W!Range(alerted'[p]) = W!Range(alerted[p]) \cup {a}
    BY <2>1, <2>2, RangeOfAppend
  <2>4. W!Pairs(W!Range(alerted'[p])) = W!Pairs(W!Range(alerted[p])) \cup {W!Pair(q)}
    BY <2>1, <2>3, PairsOfMore
  <2>5. W!TypeOK'
    <3>1. alerted' \in [Processes -> Seq(W!Queries)]
      BY <1>5, <2>2, <2>3 DEF WatchInv, W!TypeOK, W!Persist
    <3>2. [fp |-> q.host, ts |-> days] \in [fp : Hosts, ts : W!Times]
      BY <2>1 DEF W!Queries, WatchInv, W!TypeOK
    <3>3. known' \in [Processes -> SUBSET [fp : Hosts, ts : W!Times]]
      BY <1>5, <2>2, <3>2 DEF WatchInv, W!TypeOK, W!Persist
    <3> QED BY <1>2, <1>3, <3>1, <3>3 DEF WatchInv, W!TypeOK
  <2>6. PairsReported'
    <3> DEFINE before == W!Pairs(W!Range(alerted[p]))
    <3>1. /\ W!Pair(q) \notin before /\ W!Pair(q) \in reported[p] /\ before \subseteq reported[p]
          /\ W!Alone(p)
      <4>1. q \in asked[p] /\ W!Pair(q) \notin before
        BY <1>2 DEF WatchInv, PairsReported, q
      <4>2. W!Pair(q) \in W!Pairs(asked[p])
        BY <4>1 DEF W!Pairs
      <4> QED BY <4>1, <4>2 DEF WatchInv, PairsReported
    <3>2. \A i \in DOMAIN alerted[p] : W!Pair(alerted[p][i]) # W!Pair(a)
      BY <2>1, <3>1 DEF W!Pairs, W!Range
    <3> HIDE DEF before
    <3>3. W!Pairs(W!Range(alerted'[p])) \subseteq reported'[p]
      BY <1>2, <2>4, <3>1 DEF before
    <3>4. W!Alone(p)'
      BY <2>1, <2>2, <3>1, <3>2, RangeOfAppend DEF W!Alone
    <3>5. \A o \in Processes : o # p => W!Alone(o)' = W!Alone(o)
      BY <1>3, AloneStays
    <3> QED BY <1>2, <1>3, <3>3, <3>4, <3>5 DEF WatchInv, PairsReported
  <2>7. SightingsAlerted'
    <3>1. \A e \in known'[p] : e \in known[p] \/ (e.fp = a.host /\ e.ts = a.ts)
      BY <2>1, <2>2
    <3>2. a.ts <= days
      BY <2>1 DEF WatchInv, W!TypeOK
    <3> SUFFICES ASSUME NEW o \in Processes, NEW e \in known'[o]
                 PROVE  /\ \E b \in W!Range(alerted'[o]) : b.host = e.fp /\ b.ts = e.ts
                        /\ e.ts <= days
                        /\ held'[o] # None => e.ts <= held'[o].ts
      BY <1>2 DEF SightingsAlerted
    <3>3. CASE o # p
      BY <1>3, <3>3 DEF WatchInv, SightingsAlerted
    <3>4. CASE o = p
      <4>1. \E b \in W!Range(alerted'[p]) : b.host = e.fp /\ b.ts = e.ts
        BY <2>3, <3>1, <3>4 DEF WatchInv, SightingsAlerted
      <4>2. e.ts <= days
        BY <2>1, <3>1, <3>2, <3>4 DEF WatchInv, SightingsAlerted
      <4> QED BY <1>3, <3>4, <4>1, <4>2
    <3> QED BY <3>3, <3>4
  <2>8. AskedEvidenced'
    BY <1>2, <1>3, <2>1, <2>3 DEF WatchInv, AskedEvidenced, Evidenced, q
  <2> QED BY <2>5, <2>6, <2>7, <2>8 DEF WatchInv
<1> QED BY <1>1, <1>4, <1>5

(* However the list is edited and the processes are stopped and started:   *)
(* no pair is alerted twice in a run, none that was not asked for, and who *)
(* asks for a listed name has the evidence of one (DnsDetector.process_    *)
(* packet behind the dispatchers of network/sensor.py and replay.py).      *)
THEOREM AskersAreAlerted == MCSpec => []ListedHostsAreAlerted
<1>1. MCInit => WatchInv
  <2> SUFFICES ASSUME W!Init PROVE WatchInv
    BY DEF MCInit
  <2>2. W!TypeOK
    BY DEF W!Init, W!TypeOK
  <2>3. PairsReported /\ SightingsAlerted /\ AskedEvidenced
    BY NothingAlerted DEF W!Init, PairsReported, W!Alone, SightingsAlerted, AskedEvidenced
  <2> QED BY <2>2, <2>3 DEF WatchInv
<1>2. WatchInv /\ W!Next => WatchInv'
  BY ElsewhereStep, StartStep, QueryStep, DispatchStep DEF W!Next
<1>3. WatchInv /\ UNCHANGED names => WatchInv'
  <2> SUFFICES ASSUME WatchInv, UNCHANGED names PROVE WatchInv'
    OBVIOUS
  <2>1. UNCHANGED <<days, list, intel, reported, known, held, alerted, asked>>
    BY DEF names
  <2>2. W!TypeOK'
    BY <2>1 DEF WatchInv, W!TypeOK
  <2>3. PairsReported'
    BY <2>1, AloneStays DEF WatchInv, PairsReported
  <2>4. SightingsAlerted' /\ AskedEvidenced'
    BY <2>1 DEF WatchInv, SightingsAlerted, AskedEvidenced, Evidenced
  <2> QED BY <2>2, <2>3, <2>4 DEF WatchInv
<1>4. WatchInv /\ [MCNext]_<<part, vars, sensor, ticks, scans, arp, names>> => WatchInv'
  BY <1>2, <1>3 DEF MCNext, Cached, Sensed, Scanned, Announced, Named
<1>5. WatchInv => ListedHostsAreAlerted
  <2>1. WatchInv => W!ListedHostsAreAlerted
    <3> SUFFICES ASSUME WatchInv, NEW p \in Processes, held[p] = None, intel[p] # None
                 PROVE  /\ W!Alone(p) /\ W!Pairs(W!Range(alerted[p])) \subseteq W!Pairs(asked[p])
                        /\ \A q \in asked[p] : Evidenced(p, q)
      BY DEF W!ListedHostsAreAlerted, Evidenced
    <3>1. \A q \in asked[p] : q # None
      BY DEF WatchInv, W!TypeOK
    <3> QED BY <3>1 DEF WatchInv, PairsReported, AskedEvidenced
  <2> QED BY <2>1 DEF WatchInv, ListedHostsAreAlerted
<1> QED BY <1>1, <1>4, <1>5, PTL DEF MCSpec

-----------------------------------------------------------------------------
(* The sensor: what its tables stand for, and its callback's progress.     *)

EventsLogged ==
  /\ at \in {"throttle", "send"} => event \in S!Evidence
  /\ mailbox \subseteq S!Evidence

(* A sighting in the deduplicator is of an event with evidence, or of the  *)
(* one that is about to be logged.                                         *)
FreshFor(e) ==
  \E f \in fresh :
    /\ <<f[1].detector, f[1].entity>> = e.fp /\ f[2] = e.ts
    /\ f[1] \in S!Evidence \/ (at = "log" /\ f[1] = event)
SightingsFresh == \A e \in dedup : e.ts <= clock /\ FreshFor(e)

EvidenceInv == S!TypeOK /\ EventsLogged /\ SightingsFresh /\ S!EvidenceFirst

(* The events that may still be registered with the throttle.              *)
Pending == IF at \in {"dedup", "log", "throttle"} THEN 1 ELSE 0
ThrottleBounded == IsFiniteSet(throttle) /\ Cardinality(throttle) + Pending <= raised

AlertOf(e) == <<e.detector, e.entity, e.detail>>
(* What a roomy throttle let pass, it remembers, or one that came later.   *)
PagesRemembered ==
  /\ \A p \in paged : p[2] <= clock
  /\ MaxEvents < AlertEntries /\ AlertWindow > 0 =>
       \A p \in paged : \E e \in throttle : e.fp = AlertOf(p[1]) /\ p[2] <= e.ts

StormInv == S!TypeOK /\ ThrottleBounded /\ PagesRemembered /\ S!StormsAreStopped

USE DEF S!SensorAssumption, S!NoneAssumption, S!Times

LEMMA SensorEvicts ==
  ASSUME NEW old, NEW ts, NEW window, NEW left \in S!Evict(old, ts, window)
  PROVE  /\ left \subseteq old
         /\ Cardinality(old) < AlertEntries => left = old
<1>1. left \subseteq old
  BY DEF S!Evict, S!YoungerHalves, S!Unexpired
<1>2. S!Cardinality(old) = Cardinality(old)
  BY DEF S!Cardinality, Cardinality
<1>3. Cardinality(old) < AlertEntries => left = old
  BY <1>2 DEF S!Evict
<1> QED BY <1>1, <1>3

LEMMA MoreEvidence ==
  ASSUME S!TypeOK, NEW store \in S!Stores, S!Log(store)
  PROVE  S!Evidence' = S!Evidence \cup {event}
<1>1. /\ stores' = [stores EXCEPT ![store] = @ \cup {event}]
      /\ stores \in [S!Stores -> SUBSET S!Events]
  BY DEF S!Log, S!TypeOK
<1>2. \A x : x \in S!Evidence' <=> \E s \in S!Stores : x \in stores'[s]
  BY DEF S!Evidence
<1>3. \A x : x \in S!Evidence <=> \E s \in S!Stores : x \in stores[s]
  BY DEF S!Evidence
<1>4. \A x : x \in S!Evidence' <=> x \in S!Evidence \/ x = event
  BY <1>1, <1>2, <1>3
<1> QED BY <1>4

LEMMA SensorTypes == S!TypeOK /\ S!Next => S!TypeOK'
<1> SUFFICES ASSUME S!TypeOK, S!Next PROVE S!TypeOK'
  OBVIOUS
<1>c. S!Continue => /\ detector' \in 1 .. Detectors /\ (at' = "idle" => detector' = 1)
                    /\ event' = None /\ at' \in {"idle", "detect"}
  BY DEF S!TypeOK, S!Continue
<1>e. \A e \in S!Events : /\ S!Sighting(e) \in [fp : (1 .. Detectors) \X Entities, ts : S!Times]
                         /\ S!AlertSighting(e) \in
                              [fp : (1 .. Detectors) \X Entities \X Details, ts : S!Times]
                         /\ <<e, clock>> \in S!Events \X S!Times
  BY DEF S!TypeOK, S!Events, S!Sighting, S!AlertSighting
<1>1. CASE S!Tick
  BY <1>1 DEF S!TypeOK, S!Tick, S!process, S!outside, S!history
<1>2. CASE S!Sniff
  BY <1>2 DEF S!TypeOK, S!Sniff, S!outside, S!history
<1>3. CASE S!NothingDetected
  BY <1>3, <1>c DEF S!TypeOK, S!NothingDetected, S!outside, S!history
<1>4. CASE S!Send
  BY <1>4, <1>c DEF S!TypeOK, S!Send, S!history
<1>5. CASE S!SendFails
  BY <1>5, <1>c DEF S!TypeOK, S!SendFails, S!outside, S!history
<1>6. CASE S!Restart
  BY <1>6 DEF S!TypeOK, S!Restart, S!outside
<1>7. ASSUME NEW entity \in Entities, NEW detail \in Details, S!Detect(entity, detail)
      PROVE  S!TypeOK'
  <2>1. raised + 1 \in 1 .. MaxEvents /\ raised' = raised + 1
    BY <1>7 DEF S!TypeOK, S!Detect
  <2>2. event' \in S!Events
    BY <1>7, <2>1 DEF S!TypeOK, S!Detect, S!Events
  <2> QED BY <1>7, <2>1, <2>2 DEF S!TypeOK, S!Detect, S!history
<1>8. ASSUME NEW left \in S!Evict(dedup, clock, DedupWindow), S!Duplicate(left)
      PROVE  S!TypeOK'
  BY <1>8, <1>c, <1>e, SensorEvicts DEF S!TypeOK, S!Duplicate, S!outside
<1>9. ASSUME NEW left \in S!Evict(dedup, clock, DedupWindow), S!NotDuplicate(left)
      PROVE  S!TypeOK'
  <2>1. /\ at = "dedup" /\ at' = "log" /\ event \in S!Events /\ left \subseteq dedup
        /\ dedup' \subseteq left \cup {S!Sighting(event)} /\ fresh' = fresh \cup {<<event, clock>>}
        /\ UNCHANGED <<clock, detector, event, throttle, raised, stores, mailbox, silenced, paged>>
    BY <1>9, SensorEvicts DEF S!TypeOK, S!NotDuplicate, S!Registered, S!outside
  <2>2. dedup' \subseteq [fp : (1 .. Detectors) \X Entities, ts : S!Times]
    BY <1>e, <2>1 DEF S!TypeOK
  <2> QED BY <1>e, <2>1, <2>2 DEF S!TypeOK
<1>10. ASSUME NEW store \in S!Stores, S!Log(store)
       PROVE  S!TypeOK'
  BY <1>10 DEF S!TypeOK, S!Log, S!history
<1>11. ASSUME NEW left \in S!Evict(throttle, clock, AlertWindow), S!Throttled(left)
       PROVE  S!TypeOK'
  BY <1>11, <1>c, SensorEvicts DEF S!TypeOK, S!Throttled, S!outside, S!history
<1>12. ASSUME NEW left \in S!Evict(throttle, clock, AlertWindow), S!NotThrottled(left)
       PROVE  S!TypeOK'
  <2>1. /\ at = "throttle" /\ at' = "send" /\ event \in S!Events /\ left \subseteq throttle
        /\ throttle' \subseteq throttle \cup {S!AlertSighting(event)}
        /\ paged' = paged \cup {<<event, clock>>}
        /\ UNCHANGED <<clock, detector, event, dedup, raised, stores, mailbox, fresh, silenced>>
    BY <1>12, SensorEvicts DEF S!TypeOK, S!NotThrottled, S!Registered, S!outside
  <2>2. throttle' \subseteq [fp : (1 .. Detectors) \X Entities \X Details, ts : S!Times]
    BY <1>e, <2>1 DEF S!TypeOK
  <2> QED BY <1>e, <2>1, <2>2 DEF S!TypeOK
<1> QED BY <1>1, <1>2, <1>3, <1>4, <1>5, <1>6, <1>7, <1>8, <1>9, <1>10, <1>11, <1>12 DEF S!Next

(* A step that logs nothing and touches no sighting: evidence stays.       *)
LEMMA QuietStep ==
  ASSUME EvidenceInv, S!TypeOK', UNCHANGED <<stores, fresh, silenced>>,
         dedup' = dedup \/ dedup' = {}, clock <= clock', clock' \in Nat,
         at # "log" \/ dedup' = {},
         \/ at' \notin {"throttle", "send"} \/ (at' = "send" /\ at = "throttle" /\ event' = event),
         mailbox' = mailbox \/ (at = "send" /\ mailbox' = mailbox \cup {event})
  PROVE  EvidenceInv'
<1>1. S!Evidence' = S!Evidence
  BY DEF S!Evidence
<1>2. EventsLogged'
  BY <1>1 DEF EvidenceInv, EventsLogged
<1>3. SightingsFresh'
  BY <1>1 DEF EvidenceInv, SightingsFresh, FreshFor, S!TypeOK
<1>4. S!EvidenceFirst'
  BY <1>1, <1>2 DEF EvidenceInv, S!EvidenceFirst, EventsLogged
<1> QED BY <1>2, <1>3, <1>4 DEF EvidenceInv

LEMMA EvidenceStep == EvidenceInv /\ S!Next => EvidenceInv'
<1> SUFFICES ASSUME EvidenceInv, S!Next PROVE EvidenceInv'
  OBVIOUS
<1>t. S!TypeOK' /\ clock \in Nat /\ clock <= clock
  BY SensorTypes DEF EvidenceInv, S!TypeOK
<1>1. CASE S!Tick
  <2>1. clock <= clock' /\ clock' \in Nat /\ UNCHANGED <<at, event, dedup, stores, fresh, silenced, mailbox>>
    BY <1>t, <1>1 DEF S!Tick, S!process, S!outside, S!history
  <2>2. S!Evidence' = S!Evidence
    BY <2>1 DEF S!Evidence
  <2>3. EventsLogged' /\ S!EvidenceFirst'
    BY <2>1, <2>2 DEF EvidenceInv, EventsLogged, S!EvidenceFirst
  <2>4. SightingsFresh'
    BY <1>t, <2>1, <2>2 DEF EvidenceInv, SightingsFresh, FreshFor, S!TypeOK
  <2> QED BY <1>t, <2>3, <2>4 DEF EvidenceInv
<1>2. CASE S!Sniff
  BY <1>t, <1>2, QuietStep DEF S!Sniff, S!outside, S!history
<1>3. CASE S!NothingDetected
  BY <1>t, <1>3, QuietStep DEF S!NothingDetected, S!Continue, S!outside, S!history
<1>4. CASE S!Send
  BY <1>t, <1>4, QuietStep DEF S!Send, S!Continue, S!history
<1>5. CASE S!SendFails
  BY <1>t, <1>5, QuietStep DEF S!SendFails, S!Continue, S!outside, S!history
<1>6. CASE S!Restart
  BY <1>t, <1>6, QuietStep DEF S!Restart, S!outside
<1>7. ASSUME NEW entity \in Entities, NEW detail \in Details, S!Detect(entity, detail)
      PROVE  EvidenceInv'
  <2>1. at' \notin {"throttle", "send"} /\ at # "log"
    BY <1>7 DEF S!Detect
  <2> QED BY <1>t, <1>7, <2>1, QuietStep DEF S!Detect, S!history
<1>8. ASSUME NEW left \in S!Evict(dedup, clock, DedupWindow), S!Duplicate(left)
      PROVE  EvidenceInv'
  <2>1. /\ at = "dedup" /\ event \in S!Events /\ left \subseteq dedup
        /\ dedup' = left /\ silenced' = silenced \cup {<<event, clock>>}
        /\ UNCHANGED <<clock, stores, mailbox, fresh>> /\ at' \in {"idle", "detect"}
    BY <1>8, SensorEvicts DEF EvidenceInv, S!TypeOK, S!Duplicate, S!Continue, S!outside
  <2>2. S!Evidence' = S!Evidence
    BY <2>1 DEF S!Evidence
  <2>3. EventsLogged' /\ SightingsFresh'
    BY <2>1, <2>2 DEF EvidenceInv, EventsLogged, SightingsFresh, FreshFor
  <2>4. PICK e \in left : e.fp = <<event.detector, event.entity>> /\ clock - e.ts < DedupWindow
    BY <1>8 DEF S!Duplicate, S!Repeats, S!Sighting
  <2>5. PICK f \in fresh : <<f[1].detector, f[1].entity>> = e.fp /\ f[2] = e.ts /\ f[1] \in S!Evidence
    BY <2>1, <2>4 DEF EvidenceInv, SightingsFresh, FreshFor
  <2>6. /\ f[1].detector = event.detector /\ f[1].entity = event.entity
        /\ f[2] <= clock /\ clock - f[2] < DedupWindow
    BY <2>1, <2>4, <2>5 DEF EvidenceInv, SightingsFresh
  <2> DEFINE d == <<event, clock>>
  <2>7. d[1] = event /\ d[2] = clock
    OBVIOUS
  <2> HIDE DEF d
  <2>8. S!EvidenceFirst'
    BY <2>1, <2>2, <2>5, <2>6, <2>7 DEF EvidenceInv, S!EvidenceFirst, d
  <2> QED BY <1>t, <2>3, <2>8 DEF EvidenceInv
<1>9. ASSUME NEW left \in S!Evict(dedup, clock, DedupWindow), S!NotDuplicate(left)
      PROVE  EvidenceInv'
  <2> DEFINE s == [fp |-> <<event.detector, event.entity>>, ts |-> clock]
             f == <<event, clock>>
  <2>1. /\ at = "dedup" /\ at' = "log" /\ event' = event /\ left \subseteq dedup
        /\ dedup' \subseteq left \cup {s} /\ fresh' = fresh \cup {f}
        /\ UNCHANGED <<clock, stores, mailbox, silenced>>
    BY <1>9, SensorEvicts DEF S!NotDuplicate, S!Registered, S!Sighting, S!outside
  <2>2. /\ f[1] = event /\ f[2] = clock
        /\ s.fp = <<event.detector, event.entity>> /\ s.ts = clock
    OBVIOUS
  <2> HIDE DEF s, f
  <2>3. S!Evidence' = S!Evidence
    BY <2>1 DEF S!Evidence
  <2>4. EventsLogged' /\ S!EvidenceFirst'
    BY <2>1, <2>3 DEF EvidenceInv, EventsLogged, S!EvidenceFirst
  <2>5. SightingsFresh'
    BY <1>t, <2>1, <2>2, <2>3 DEF EvidenceInv, SightingsFresh, FreshFor
  <2> QED BY <1>t, <2>4, <2>5 DEF EvidenceInv
<1>10. ASSUME NEW store \in S!Stores, S!Log(store)
       PROVE  EvidenceInv'
  <2>1. /\ at = "log" /\ at' = "throttle"
        /\ UNCHANGED <<clock, event, dedup, mailbox, fresh, silenced>>
    BY <1>10 DEF S!Log, S!history
  <2>2. S!Evidence' = S!Evidence \cup {event}
    BY <1>10, MoreEvidence DEF EvidenceInv
  <2>3. EventsLogged' /\ SightingsFresh' /\ S!EvidenceFirst'
    BY <2>1, <2>2 DEF EvidenceInv, EventsLogged, SightingsFresh, FreshFor, S!EvidenceFirst
  <2> QED BY <1>t, <2>3 DEF EvidenceInv
<1>11. ASSUME NEW left \in S!Evict(throttle, clock, AlertWindow), S!Throttled(left)
       PROVE  EvidenceInv'
  BY <1>t, <1>11, QuietStep DEF S!Throttled, S!Continue, S!outside, S!history
<1>12. ASSUME NEW left \in S!Evict(throttle, clock, AlertWindow), S!NotThrottled(left)
       PROVE  EvidenceInv'
  BY <1>t, <1>12, QuietStep DEF S!NotThrottled, S!outside
<1> QED BY <1>1, <1>2, <1>3, <1>4, <1>5, <1>6, <1>7, <1>8, <1>9, <1>10, <1>11, <1>12 DEF S!Next

(* A step that lets no alert pass: the throttle does not grow.             *)
LEMMA NoPageStep ==
  ASSUME StormInv, S!TypeOK', clock <= clock', clock' \in Nat,
         \/ UNCHANGED <<throttle, paged>>
         \/ throttle' = {} /\ paged' = {}
         \/ \E left \in S!Evict(throttle, clock, AlertWindow) : throttle' = left /\ paged' = paged,
         raised' - Pending' >= raised - Pending, raised' \in Nat
  PROVE  StormInv'
<1>1. throttle' \subseteq throttle /\ paged' \subseteq paged
  BY SensorEvicts
<1>2. /\ IsFiniteSet(throttle') /\ Cardinality(throttle') <= Cardinality(throttle)
      /\ Cardinality(throttle) \in Nat /\ Cardinality(throttle') \in Nat
  BY <1>1, FS_Subset, FS_CardinalityType DEF StormInv, ThrottleBounded
<1>3. Pending \in {0, 1} /\ Pending' \in {0, 1} /\ raised \in 0 .. MaxEvents
  BY DEF Pending, StormInv, S!TypeOK
<1>4. ThrottleBounded'
  BY <1>2, <1>3 DEF StormInv, ThrottleBounded
<1>5. MaxEvents < AlertEntries => (throttle' = throttle \/ paged' = {})
  <2>1. Cardinality(throttle) <= MaxEvents
    BY <1>2, <1>3 DEF StormInv, ThrottleBounded
  <2> QED BY <1>2, <2>1, SensorEvicts
<1>6. \A p \in paged : p[2] \in Nat
  BY DEF StormInv, S!TypeOK
<1>7. PagesRemembered'
  BY <1>1, <1>5, <1>6 DEF StormInv, PagesRemembered, S!TypeOK
<1>8. S!StormsAreStopped'
  BY <1>1 DEF StormInv, S!StormsAreStopped, S!AlertSighting
<1> QED BY <1>4, <1>7, <1>8 DEF StormInv

LEMMA PageStep ==
  ASSUME StormInv, S!TypeOK',
         NEW left \in S!Evict(throttle, clock, AlertWindow), S!NotThrottled(left)
  PROVE  StormInv'
<1> DEFINE s == [fp |-> AlertOf(event), ts |-> clock]
           page0 == <<event, clock>>
           others == {e \in left : e.fp # s.fp}
<1>1. /\ at = "throttle" /\ at' = "send" /\ UNCHANGED <<clock, raised>>
      /\ paged' = paged \cup {page0} /\ left \subseteq throttle
      /\ AlertWindow = 0 => throttle' = throttle
      /\ AlertWindow > 0 => throttle' = others \cup {s}
                            /\ \A e \in left : e.fp = s.fp => ~(clock - e.ts < AlertWindow)
  BY SensorEvicts DEF S!NotThrottled, S!Registered, S!Repeats, S!AlertSighting, S!outside, AlertOf
<1>2. page0[1] = event /\ page0[2] = clock /\ s.fp = AlertOf(event) /\ s.ts = clock
  OBVIOUS
<1>3. others \subseteq throttle
  BY <1>1
<1>4. clock \in Nat /\ raised \in 0 .. MaxEvents /\ Pending = 1 /\ Pending' = 0
  BY <1>1 DEF Pending, StormInv, S!TypeOK
<1>5. \A p \in paged : p[2] \in Nat
  BY DEF StormInv, S!TypeOK
<1>6. \A e \in throttle : e.ts \in Nat
  BY DEF StormInv, S!TypeOK
<1>7. /\ IsFiniteSet(throttle) /\ Cardinality(throttle) \in Nat
      /\ IsFiniteSet(others) /\ Cardinality(others) <= Cardinality(throttle)
      /\ Cardinality(others) \in Nat
  BY <1>3, FS_Subset, FS_CardinalityType DEF StormInv, ThrottleBounded
<1> HIDE DEF s, page0, others
<1>8. /\ IsFiniteSet(others \cup {s}) /\ Cardinality(others \cup {s}) \in Nat
      /\ Cardinality(others \cup {s}) <= Cardinality(others) + 1
  <2>1. IsFiniteSet(others \cup {s})
    BY <1>7, FS_AddElement
  <2>2. Cardinality(others \cup {s}) \in Nat
    BY <2>1, FS_CardinalityType
  <2>3. Cardinality(others \cup {s}) = Cardinality(others)
        \/ Cardinality(others \cup {s}) = Cardinality(others) + 1
    BY <1>7, FS_AddElement
  <2> QED BY <1>7, <2>1, <2>2, <2>3
<1>9. ThrottleBounded'
  <2>1. throttle' = throttle \/ throttle' = others \cup {s}
    BY <1>1
  <2>2. IsFiniteSet(throttle') /\ Cardinality(throttle') <= Cardinality(throttle) + 1
        /\ Cardinality(throttle') \in Nat
    <3>1. CASE throttle' = throttle
      BY <1>7, <3>1
    <3>2. CASE throttle' = others \cup {s}
      <4>1. Cardinality(throttle') = Cardinality(others \cup {s})
        BY <3>2
      <4> QED BY <1>7, <1>8, <3>2, <4>1
    <3> QED BY <2>1, <3>1, <3>2
  <2> QED BY <1>1, <1>4, <1>7, <2>2 DEF StormInv, ThrottleBounded
<1>10. MaxEvents < AlertEntries => left = throttle
  <2>1. Cardinality(throttle) <= MaxEvents
    BY <1>4, <1>7 DEF StormInv, ThrottleBounded
  <2> QED BY <1>4, <1>7, <2>1, SensorEvicts
<1>11. ASSUME MaxEvents < AlertEntries, AlertWindow > 0, NEW p \in paged, AlertOf(p[1]) = AlertOf(event)
       PROVE  p[2] + AlertWindow <= clock
  <2>1. PICK e \in throttle : e.fp = AlertOf(p[1]) /\ p[2] <= e.ts
    BY <1>11 DEF StormInv, PagesRemembered
  <2>2. ~(clock - e.ts < AlertWindow)
    BY <1>1, <1>2, <1>10, <1>11, <2>1
  <2> QED BY <1>4, <1>5, <1>6, <2>1, <2>2
<1>12. PagesRemembered'
  <2>1. \A p \in paged' : p[2] <= clock
    BY <1>1, <1>2, <1>4 DEF StormInv, PagesRemembered
  <2>2. ASSUME MaxEvents < AlertEntries, AlertWindow > 0, NEW p \in paged'
        PROVE  \E e \in throttle' : e.fp = AlertOf(p[1]) /\ p[2] <= e.ts
    <3>1. CASE AlertOf(p[1]) = AlertOf(event)
      BY <1>1, <1>2, <2>1, <2>2, <3>1
    <3>2. CASE AlertOf(p[1]) # AlertOf(event)
      <4>1. p \in paged
        BY <1>1, <1>2, <3>2
      <4>2. PICK e \in throttle : e.fp = AlertOf(p[1]) /\ p[2] <= e.ts
        BY <2>2, <4>1 DEF StormInv, PagesRemembered
      <4>3. e \in throttle'
        BY <1>1, <1>2, <1>10, <2>2, <3>2, <4>2 DEF others
      <4> QED BY <4>2, <4>3
    <3> QED BY <3>1, <3>2
  <2> QED BY <1>1, <2>1, <2>2 DEF PagesRemembered
<1>13. S!StormsAreStopped'
  <2> SUFFICES ASSUME MaxEvents < AlertEntries, NEW p \in paged', NEW q \in paged',
                      AlertOf(p[1]) = AlertOf(q[1]), p[2] <= q[2]
               PROVE  p = q \/ AlertWindow <= q[2] - p[2]
    BY DEF S!StormsAreStopped, S!AlertSighting, AlertOf
  <2>1. CASE AlertWindow = 0
    BY <1>1, <1>2, <1>4, <1>5, <2>1
  <2>2. CASE AlertWindow > 0 /\ p \in paged /\ q \in paged
    BY <2>2 DEF StormInv, S!StormsAreStopped, S!AlertSighting, AlertOf
  <2>3. CASE AlertWindow > 0 /\ p \in paged /\ q = page0
    BY <1>2, <1>4, <1>5, <1>11, <2>3
  <2>4. CASE AlertWindow > 0 /\ p = page0 /\ q \in paged
    <3>1. q[2] + AlertWindow <= clock /\ clock <= q[2]
      BY <1>2, <1>11, <2>4
    <3> QED BY <1>4, <1>5, <2>4, <3>1
  <2> QED BY <1>1, <2>1, <2>2, <2>3, <2>4
<1> QED BY <1>9, <1>12, <1>13 DEF StormInv

LEMMA StormStep == StormInv /\ S!Next => StormInv'
<1> SUFFICES ASSUME StormInv, S!Next PROVE StormInv'
  OBVIOUS
<1>t. /\ S!TypeOK' /\ clock \in Nat /\ clock <= clock /\ raised \in Nat /\ raised' \in Nat
      /\ Pending \in {0, 1} /\ Pending' \in {0, 1}
  BY SensorTypes DEF StormInv, S!TypeOK, Pending
<1>1. CASE S!Tick
  BY <1>t, <1>1, NoPageStep DEF S!Tick, S!process, S!outside, S!history, Pending
<1>2. CASE S!Sniff
  BY <1>t, <1>2, NoPageStep DEF S!Sniff, S!outside, S!history, Pending
<1>3. CASE S!NothingDetected
  BY <1>t, <1>3, NoPageStep DEF S!NothingDetected, S!Continue, S!outside, S!history, Pending
<1>4. CASE S!Send
  BY <1>t, <1>4, NoPageStep DEF S!Send, S!Continue, S!history, Pending
<1>5. CASE S!SendFails
  BY <1>t, <1>5, NoPageStep DEF S!SendFails, S!Continue, S!outside, S!history, Pending
<1>6. CASE S!Restart
  BY <1>t, <1>6, NoPageStep DEF S!Restart, S!outside, Pending
<1>7. ASSUME NEW entity \in Entities, NEW detail \in Details, S!Detect(entity, detail)
      PROVE  StormInv'
  <2>1. Pending = 0 /\ raised' = raised + 1
    BY <1>7 DEF S!Detect, Pending
  <2>2. raised' - Pending' >= raised - Pending
    BY <1>t, <2>1 DEF Pending
  <2>3. UNCHANGED <<clock, throttle, paged>>
    BY <1>7 DEF S!Detect, S!history
  <2> QED BY <1>t, <2>2, <2>3, NoPageStep
<1>8. ASSUME NEW left \in S!Evict(dedup, clock, DedupWindow), S!Duplicate(left)
      PROVE  StormInv'
  BY <1>t, <1>8, NoPageStep DEF S!Duplicate, S!Continue, S!outside, Pending
<1>9. ASSUME NEW left \in S!Evict(dedup, clock, DedupWindow), S!NotDuplicate(left)
      PROVE  StormInv'
  BY <1>t, <1>9, NoPageStep DEF S!NotDuplicate, S!outside, Pending
<1>10. ASSUME NEW store \in S!Stores, S!Log(store)
       PROVE  StormInv'
  BY <1>t, <1>10, NoPageStep DEF S!Log, S!history, Pending
<1>11. ASSUME NEW left \in S!Evict(throttle, clock, AlertWindow), S!Throttled(left)
       PROVE  StormInv'
  BY <1>t, <1>11, NoPageStep DEF S!Throttled, S!Continue, S!outside, S!history, Pending
<1>12. ASSUME NEW left \in S!Evict(throttle, clock, AlertWindow), S!NotThrottled(left)
       PROVE  StormInv'
  BY <1>t, <1>12, PageStep
<1> QED BY <1>1, <1>2, <1>3, <1>4, <1>5, <1>6, <1>7, <1>8, <1>9, <1>10, <1>11, <1>12 DEF S!Next

(* Wherever the sniffer is killed: what it mailed has its evidence, what   *)
(* it dropped as a duplicate has that of what it repeats, and alerts that  *)
(* say the same are a window apart (network/sensor.py, network/dispatch.py,*)
(* alerts/email_alert.py).                                                 *)
THEOREM EvidenceComesFirst == MCSpec => []EvidenceFirst
<1>1. MCInit => EvidenceInv /\ StormInv
  <2> SUFFICES ASSUME S!Init PROVE EvidenceInv /\ StormInv
    BY DEF MCInit
  <2>1. S!TypeOK
    BY DEF S!Init, S!TypeOK
  <2>2. EventsLogged /\ SightingsFresh /\ S!EvidenceFirst
    BY DEF S!Init, EventsLogged, SightingsFresh, S!EvidenceFirst
  <2>3. ThrottleBounded
    BY FS_EmptySet DEF S!Init, ThrottleBounded, Pending
  <2>4. PagesRemembered /\ S!StormsAreStopped
    BY DEF S!Init, PagesRemembered, S!StormsAreStopped
  <2> QED BY <2>1, <2>2, <2>3, <2>4 DEF EvidenceInv, StormInv
<1>2. EvidenceInv /\ StormInv /\ S!Next => (EvidenceInv /\ StormInv)'
  BY EvidenceStep, StormStep
<1>3. EvidenceInv /\ StormInv /\ UNCHANGED sensor => (EvidenceInv /\ StormInv)'
  <2> SUFFICES ASSUME EvidenceInv, StormInv, UNCHANGED sensor PROVE EvidenceInv' /\ StormInv'
    OBVIOUS
  <2>1. UNCHANGED <<clock, at, detector, event, dedup, throttle, raised, stores, mailbox, fresh,
                    silenced, paged>>
    BY DEF sensor
  <2>2. S!TypeOK'
    BY <2>1 DEF EvidenceInv, S!TypeOK
  <2>3. EventsLogged' /\ SightingsFresh' /\ S!EvidenceFirst'
    BY <2>1 DEF EvidenceInv, EventsLogged, SightingsFresh, FreshFor, S!EvidenceFirst, S!Evidence
  <2>4. ThrottleBounded' /\ PagesRemembered' /\ S!StormsAreStopped'
    BY <2>1 DEF StormInv, ThrottleBounded, Pending, PagesRemembered, S!StormsAreStopped,
       S!AlertSighting
  <2> QED BY <2>2, <2>3, <2>4 DEF EvidenceInv, StormInv
<1>4. EvidenceInv /\ StormInv /\ [MCNext]_<<part, vars, sensor, ticks, scans, arp, names>> =>
        (EvidenceInv /\ StormInv)'
  BY <1>2, <1>3 DEF MCNext, Cached, Sensed, Scanned, Announced, Named
<1>5. EvidenceInv /\ StormInv => EvidenceFirst
  BY DEF EvidenceInv, StormInv, EvidenceFirst
<1> QED BY <1>1, <1>4, <1>5, PTL DEF MCSpec
=============================================================================
