------------------------------- MODULE ReadViews -------------------------------
(***************************************************************************)
(* What the dashboard reads from the store (dashboard/queries.py) for its  *)
(* home page, the metrics and the list of incidents (dashboard/routes.py). *)
(* A page is a series of queries, each on a connection of its own, between *)
(* which modules log and detect and retention deletes.  A query that fails *)
(* is logged - into the table the next one reads - and answers 0; while no *)
(* module has made its table it always fails.                              *)
(***************************************************************************)
EXTENDS Integers, Sequences, FiniteSets, FiniteSetsExt, SequencesExt

CONSTANTS
  Readers,   (* the requests that are served at once                       *)
  Locks,     (* whether a query may fail though its table is there         *)
  MaxRows,   (* bound on the rows ever logged                              *)
  MaxCount,  (* bound on the FIM events and the incidents                  *)
  MaxTime    (* bound on the clock                                         *)

ViewsAssumption == Locks \in BOOLEAN /\ MaxRows \in Nat /\ MaxCount \in Nat /\ MaxTime \in Nat

Modules == {"network_sensor", "auth_core"}

(* The queries of a page, in order. *)
Pages ==
  [home |-> <<"recent", "fim", "users", "network events", "network">>,
   metrics |-> <<"ready", "levels", "fim", "network", "users", "open", "latest">>,
   incidents |-> <<"incidents">>]
(* What the metrics call a counter. *)
Counters == {"levels", "fim", "network"}

VARIABLES
  now,
  audit_events,  (* the rows: [id, timestamp, module_source]               *)
  logged,        (* how many ids were given                                *)
  counts,        (* the rows of the other tables; -1 for no table          *)
  page,          (* of each reader, the queries it still has to make       *)
  latest,        (* the last ids_last_event_timestamp_seconds it exported  *)
  heard,         (* history: when a module last logged                     *)
  shown,         (* what each counter was last exported as                 *)
  counted,       (* history: what a query that did not fail counted last,  *)
                 (* 0 after a deletion                                     *)
  down,          (* history: the counters whose last query failed          *)
  failed         (* history: whether a query of some page has failed       *)

store == <<audit_events, logged, counts>>
history == <<heard, shown, counted, down, failed>>
vars == <<now, store, page, latest, history>>

Init ==
  /\ now = 0 /\ audit_events = {} /\ logged = 0
  /\ counts \in [{"fim", "open"} -> {-1, 0}]
  /\ page = [r \in Readers |-> <<>>] /\ latest = [r \in Readers |-> 0]
  /\ heard = 0 /\ shown = [q \in Counters |-> 0]
  /\ counted = shown /\ down = {} /\ failed = FALSE

Tick == now < MaxTime /\ now' = now + 1 /\ UNCHANGED <<store, page, latest, history>>

Logged(module) ==
  /\ logged < MaxRows /\ logged' = logged + 1
  /\ audit_events' = audit_events \cup
       {[id |-> logged', timestamp |-> now, module_source |-> module]}

Log(module) ==
  /\ Logged(module)
  /\ heard' = now
  /\ UNCHANGED <<now, counts, page, latest, shown, counted, down, failed>>

(* A module makes its table, or adds to it; an incident is closed.         *)
Count(t, n) ==
  /\ n > counts[t] \/ (t = "open" /\ n >= 0)
  /\ counts' = [counts EXCEPT ![t] = n]
  /\ UNCHANGED <<now, audit_events, logged, page, latest, history>>

Purge(rows, n) ==
  /\ audit_events' = audit_events \ rows
  /\ counts' = [counts EXCEPT !["fim"] = IF n < @ THEN n ELSE @]
  /\ counted' = [q \in Counters |-> 0]
  /\ UNCHANGED <<now, logged, page, latest, heard, shown, down, failed>>

Request(r, p) ==
  /\ page[r] = <<>> /\ page' = [page EXCEPT ![r] = Pages[p]]
  /\ UNCHANGED <<now, store, latest, history>>

Missing(q) == (q = "fim" /\ counts["fim"] = -1) \/ (q \in {"open", "incidents"} /\ counts["open"] = -1)

(* MUTANT: the newest rows are counted by level. *)
ValueOfRecent(q) ==
  CASE q = "levels" -> Cardinality({e \in audit_events : e.timestamp = now})
    [] q = "network" -> Cardinality({e \in audit_events : e.module_source = "network_sensor"})
    [] q = "fim" -> counts["fim"]
(* What a counter is: a count of rows, here of any level. *)
Value(q) ==
  CASE q = "levels" -> Cardinality(audit_events)
    [] q = "network" -> Cardinality({e \in audit_events : e.module_source = "network_sensor"})
    [] q = "fim" -> counts["fim"]
(* MAX(timestamp), 0.0 of no row. *)
LatestTimestamp == Max({0} \cup {e.timestamp : e \in audit_events})

Read(r) ==
  LET q == Head(page[r]) IN
  /\ page[r] # <<>> /\ ~Missing(q)
  /\ page' = [page EXCEPT ![r] = Tail(@)]
  /\ latest' = [latest EXCEPT ![r] = IF q = "latest" THEN LatestTimestamp ELSE @]
  /\ shown' = [c \in Counters |-> IF c = q THEN Value(c) ELSE shown[c]]
  /\ counted' = [c \in Counters |-> IF c = q THEN Value(c) ELSE counted[c]]
  /\ down' = down \ {q}
  /\ UNCHANGED <<now, store, heard, failed>>

(* sqlite3.Error, logged but by the probe; and the log may have to go to   *)
(* the fail-safe file.  A count that fails is exported as 0; of the levels *)
(* no line is exported at all.                                             *)
Fails(r) ==
  LET q == Head(page[r])
      zero == {q} \cap {"fim", "network"}
  IN
  /\ page[r] # <<>> /\ (Locks \/ Missing(q))
  /\ page' = [page EXCEPT ![r] = Tail(@)]
  /\ \/ q # "ready" /\ Logged("dashboard_queries")
     \/ UNCHANGED <<audit_events, logged>>
  /\ latest' = [latest EXCEPT ![r] = IF q = "latest" THEN 0 ELSE @]
  /\ shown' = [c \in Counters |-> IF c \in zero THEN 0 ELSE shown[c]]
  /\ down' = down \cup zero
  /\ failed' = TRUE
  /\ UNCHANGED <<now, counts, heard, counted>>

Next ==
  \/ Tick \/ \E module \in Modules : Log(module)
  \/ \E t \in {"fim", "open"}, n \in 0 .. MaxCount : Count(t, n)
  \/ \E rows \in SUBSET audit_events, n \in 0 .. MaxCount : Purge(rows, n)
  \/ \E r \in Readers :
       Read(r) \/ Fails(r) \/ \E p \in DOMAIN Pages : Request(r, p)

Spec == Init /\ [][Next]_vars

--------------------------------------------------------------------------------
TypeOK ==
  /\ now \in 0 .. MaxTime /\ logged \in 0 .. MaxRows /\ heard \in 0 .. now
  /\ audit_events \subseteq [id : 1 .. logged, timestamp : 0 .. now,
                            module_source : Modules \cup {"dashboard_queries"}]
  /\ counts \in [{"fim", "open"} -> -1 .. MaxCount]
  /\ \A r \in Readers : \E p \in DOMAIN Pages : IsSuffix(page[r], Pages[p])
  /\ latest \in [Readers -> 0 .. now]

(* "A stalling value is the clearest 'a sensor stopped feeding the IDS'    *)
(* signal" (dashboard/queries.py:197): the timestamp that is exported is   *)
(* never later than the last time a module logged.                         *)
SilenceShows == \A r \in Readers : latest[r] <= heard

(* A counter shows no less than any query before it has counted since      *)
(* retention last deleted rows, or 0 because its last query failed: a      *)
(* scrape that fails is a dip from which the next one comes back, whoever  *)
(* logged or read in between.                                              *)
Counts(q) == counted[q] <= shown'[q] \/ (q \in down' /\ shown'[q] = 0)

(* A silence does show while no query of the dashboard fails, whoever      *)
(* reads at the same time; and the counters count.                         *)
MetricsAreTrue ==
  /\ [](TypeOK /\ (~failed => SilenceShows))
  /\ [][page' # page => \A q \in Counters : Counts(q)]_vars
================================================================================
