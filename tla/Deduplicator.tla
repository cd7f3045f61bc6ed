----------------------------- MODULE Deduplicator -----------------------------
(***************************************************************************)
(* EventDeduplicator (detection/dedup.py): callers on several threads ask  *)
(* is_duplicate(fingerprint), reading the clock before they take the lock. *)
(***************************************************************************)
EXTENDS DedupTable

CONSTANTS
  Callers,       (* threads                                                *)
  Fingerprints,
  Window,        (* window_seconds                                         *)
  None,          (* no call                                                *)
  MaxTime        (* bound on the clock                                     *)

ASSUME WindowAssumption == Window \in Nat \ {0}
ASSUME ClockAssumption == MaxTime \in Nat /\ None \notin [fp : Fingerprints, ts : 0 .. MaxTime]

VARIABLES
  now,     (* time.monotonic()                                             *)
  seen,    (* the table: records [fp, ts], one for a fingerprint           *)
  pc,      (* "idle" or "called": the clock is read, the lock is not held  *)
  call,    (* the caller's argument and the ts it read                     *)
  passed,  (* history: every sighting answered False                       *)
  strained (* history: whether the table was ever full of entries inside   *)
           (* the window, or dropped one a slower caller was still inside  *)

vars == <<now, seen, pc, call, passed, strained>>

Times == 0 .. MaxTime
Sightings == [fp : Fingerprints, ts : Times]

Init ==
  /\ now = 0
  /\ seen = {} /\ passed = {} /\ strained = FALSE
  /\ pc = [c \in Callers |-> "idle"]
  /\ call = [c \in Callers |-> None]

Tick ==
  /\ now < MaxTime
  /\ now' = now + 1
  /\ UNCHANGED <<seen, pc, call, passed, strained>>

Call(c, f) ==
  /\ pc[c] = "idle"
  /\ pc' = [pc EXCEPT ![c] = "called"]
  /\ call' = [call EXCEPT ![c] = [fp |-> f, ts |-> now]]
  /\ UNCHANGED <<now, seen, passed, strained>>

(* Not every entry can be kept; or a caller d with an older reading of the *)
(* clock is still in the window of one that goes.                          *)
Full(ts) == Cardinality({e \in seen : ts - e.ts <= Window}) >= MaxEntries
Overtakes(ts, table) ==
  \E e \in seen \ table, d \in Callers :
    pc[d] = "called" /\ call[d].ts - e.ts < Window /\ Window < ts - e.ts

Return(c, table) ==
  /\ pc[c] = "called"
  /\ pc' = [pc EXCEPT ![c] = "idle"]
  /\ call' = [call EXCEPT ![c] = None]
  /\ strained' = (strained \/ Full(call[c].ts) \/ Overtakes(call[c].ts, table))
  /\ UNCHANGED now

(* MUTANT: a repetition is registered too. *)
SuppressSliding(c, table) ==
  /\ Return(c, table)
  /\ Repeats(table, call[c], Window)
  /\ seen' = Registered(table, call[c])
  /\ UNCHANGED passed

(* is_duplicate answers True. *)
Suppress(c, table) ==
  /\ Return(c, table)
  /\ Repeats(table, call[c], Window)
  /\ seen' = table
  /\ UNCHANGED passed

(* is_duplicate answers False. *)
Register(c, table) ==
  /\ Return(c, table)
  /\ ~Repeats(table, call[c], Window)
  /\ seen' = Registered(table, call[c])
  /\ passed' = passed \cup {call[c]}

Next ==
  \/ Tick
  \/ \E c \in Callers :
       \/ \E f \in Fingerprints : Call(c, f)
       \/ /\ pc[c] = "called"
          /\ \E table \in Evict(seen, call[c].ts, Window) : Suppress(c, table) \/ Register(c, table)

Spec == Init /\ [][Next]_vars

-----------------------------------------------------------------------------
(* Every variable has its type, and the table is a dictionary: one entry   *)
(* for a fingerprint.                                                      *)
TypeOK ==
  /\ now \in Times
  /\ seen \subseteq Sightings /\ passed \subseteq Sightings
  /\ \A e, f \in seen : e.fp = f.fp => e = f
  /\ pc \in [Callers -> {"idle", "called"}]
  /\ call \in [Callers -> Sightings \cup {None}]
  /\ \A c \in Callers : pc[c] = "called" => call[c] \in Sightings
  /\ strained \in BOOLEAN

(* "bounds memory under sustained unique floods" (dedup.py:45).            *)
Bounded == TypeOK /\ Cardinality(seen) <= MaxEntries

(* Two sightings of one event that pass are a window apart, by the clock   *)
(* their callers read, whatever order they take the lock in - unless the   *)
(* table was full of younger entries, or a caller was held up so long that *)
(* an entry expired for another before it came.                            *)
NoRepeatPasses ==
  ~strained =>
    \A p, q \in passed : p.fp = q.fp /\ p.ts <= q.ts => p = q \/ Window <= q.ts - p.ts

(* A repetition does not prolong the silence: what is suppressed lies less *)
(* than a window after a sighting that passed, so an event that goes on is *)
(* let through again.                                                      *)
SuppressedAfterPassing ==
  [][\A c \in Callers : pc[c] = "called" /\ pc'[c] = "idle" /\ passed' = passed =>
       \E p \in passed : p.fp = call[c].fp /\ call[c].ts - p.ts < Window]_vars

(* Suppression is right both ways: events that pass are a window apart,    *)
(* and those that do not lie within a window of one that passed; and it is *)
(* so in a bounded table.                                                  *)
SuppressionIsHonest == [](Bounded /\ NoRepeatPasses) /\ SuppressedAfterPassing
=============================================================================
