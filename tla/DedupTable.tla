----------------------------- MODULE DedupTable -----------------------------
(***************************************************************************)
(* The table of an EventDeduplicator (detection/dedup.py): the last        *)
(* sighting that passed of each fingerprint, a set of records [fp, ts].    *)
(***************************************************************************)
EXTENDS Integers, FiniteSets

CONSTANT MaxEntries   (* max_entries, 4096 wherever one is built           *)

ASSUME EntriesAssumption == MaxEntries \in Nat /\ MaxEntries >= 2

Repeats(table, s, window) == \E e \in table : e.fp = s.fp /\ s.ts - e.ts < window
Registered(table, s) == {e \in table : e.fp # s.fp} \cup {s}

(* MUTANT: what is nearly as old as the window goes too. *)
UnexpiredStrict(table, ts, window) == {e \in table : e.ts > ts - window + 1}
Unexpired(table, ts, window) == {e \in table : e.ts >= ts - window}

(* What is left when the older half of a table is dropped; which of the    *)
(* entries with one timestamp go is left open.                             *)
YoungerHalves(table) ==
  {kept \in SUBSET table :
     /\ Cardinality(kept) = Cardinality(table) - Cardinality(table) \div 2
     /\ \A k \in kept, d \in table \ kept : d.ts <= k.ts}

(* MUTANT: expired entries are all that is dropped. *)
EvictExpired(table, ts, window) ==
  {IF Cardinality(table) < MaxEntries THEN table ELSE Unexpired(table, ts, window)}
(* The tables _evict may leave: at the limit what has expired goes and, if *)
(* that is not enough, the older half.                                     *)
Evict(table, ts, window) ==
  LET unexpired == Unexpired(table, ts, window)
  IN  IF Cardinality(table) < MaxEntries THEN {table}
      ELSE IF Cardinality(unexpired) < MaxEntries THEN {unexpired}
      ELSE YoungerHalves(unexpired)
=============================================================================
