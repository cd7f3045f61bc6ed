----------------------------- MODULE DnsWatchlist -----------------------------
(***************************************************************************)
(* The DNS watchlist detector (network/detectors/dns_detector.py) in the   *)
(* two processes that run it: the live sensor, behind its deduplicator     *)
(* (network/sensor.py), and the replay of a capture, which has none        *)
(* (network/replay.py).  Each loads the operator's list when it builds its *)
(* detectors and remembers, until it ends, the pairs of source and domain  *)
(* it has reported.                                                        *)
(***************************************************************************)
EXTENDS DedupTable, Sequences, Functions

CONSTANTS
  Processes,
  Window,    (* of each process: EVENT_DEDUP_WINDOW_SECONDS, or 0 for none *)
  Hosts,     (* the sources of the queries                                 *)
  Domains,
  Above,     (* of each domain, itself and the domains it is a part of     *)
  None,
  MaxTime    (* bound on the clock                                         *)

DnsAssumption ==
  /\ Window \in [Processes -> Nat] /\ MaxTime \in Nat
  /\ Above \in [Domains -> SUBSET Domains] /\ \A d \in Domains : d \in Above[d]

Times == 0 .. MaxTime
Queries == [host : Hosts, domain : Domains, ts : Times]
NoneAssumption == None \notin Queries

VARIABLES
  now,
  file,      (* the domains in the file of IOC_DOMAIN_LIST_PATH            *)
  intel,     (* of each process, those it loaded; None while it is down    *)
  reported,  (* _reported: the pairs <<source, domain>> of this run        *)
  dedup,     (* the table of the sensor's deduplicator                     *)
  held,      (* the detected query that is being dispatched, or None       *)
  alerted,   (* the evidence of this run, by the time it was dispatched      *)
  asked      (* history: the first queries of each listed pair in this run *)

run == <<intel, reported, dedup, held, alerted, asked>>
vars == <<now, file, run>>

(* match_domain: the domain itself or a parent is listed. *)
Listed(domain, list) == Above[domain] \cap list # {}
Pair(q) == <<q.host, q.domain>>
Pairs(queries) == {Pair(q) : q \in queries}

Init ==
  /\ now = 0 /\ file \in SUBSET Domains
  /\ intel = [p \in Processes |-> None] /\ held = [p \in Processes |-> None]
  /\ reported = [p \in Processes |-> {}] /\ dedup = [p \in Processes |-> {}]
  /\ alerted = [p \in Processes |-> <<>>] /\ asked = [p \in Processes |-> {}]

Tick == now < MaxTime /\ now' = now + 1 /\ UNCHANGED <<file, run>>

(* The operator writes another list. *)
Edit(list) == file' = list /\ UNCHANGED <<now, run>>

(* build_default_detectors: what the run before knew is gone. *)
Start(p) ==
  /\ intel[p] = None
  /\ intel' = [intel EXCEPT ![p] = file]
  /\ reported' = [reported EXCEPT ![p] = {}] /\ dedup' = [dedup EXCEPT ![p] = {}]
  /\ alerted' = [alerted EXCEPT ![p] = <<>>] /\ asked' = [asked EXCEPT ![p] = {}]
  /\ UNCHANGED <<now, file, held>>

(* The capture is over, or the process is killed. *)
Stop(p) ==
  /\ intel[p] # None
  /\ intel' = [intel EXCEPT ![p] = None] /\ held' = [held EXCEPT ![p] = None]
  /\ UNCHANGED <<now, file, reported, dedup, alerted, asked>>

(* MUTANT: a source is reported once. *)
KnownSource(p, q) == q.host \in {r[1] : r \in reported[p]}
Known(p, q) == Pair(q) \in reported[p]

(* process_packet on a query for a listed domain; any other packet, and a  *)
(* pair that is known, leaves the detector as it is.                       *)
Query(p, q) ==
  /\ intel[p] # None /\ held[p] = None
  /\ q.ts = now /\ Listed(q.domain, intel[p])
  /\ asked' = [asked EXCEPT ![p] = IF Pair(q) \in Pairs(@) THEN @ ELSE @ \cup {q}]
  /\ reported' = [reported EXCEPT ![p] = @ \cup {Pair(q)}]
  /\ held' = [held EXCEPT ![p] = IF Known(p, q) THEN None ELSE q]
  /\ UNCHANGED <<now, file, intel, dedup, alerted>>

(* What the deduplicator sees of an event: detector, source and level.     *)
Sighting(q) == [fp |-> q.host, ts |-> now]
Suppressed(p, table) == Window[p] > 0 /\ Repeats(table, Sighting(held[p]), Window[p])

Suppress(p, table) ==
  /\ Suppressed(p, table)
  /\ dedup' = [dedup EXCEPT ![p] = table]
  /\ UNCHANGED alerted

Persist(p, table) ==
  /\ ~Suppressed(p, table)
  /\ dedup' = [dedup EXCEPT ![p] = IF Window[p] > 0 THEN Registered(table, Sighting(held[p])) ELSE @]
  /\ alerted' = [alerted EXCEPT ![p] = Append(@, [held[p] EXCEPT !.ts = now])]

(* The rest of the callback, or of the replay's loop. *)
Dispatch(p) ==
  /\ held[p] # None
  /\ \E table \in Evict(dedup[p], now, Window[p]) : Suppress(p, table) \/ Persist(p, table)
  /\ held' = [held EXCEPT ![p] = None]
  /\ UNCHANGED <<now, file, intel, reported, asked>>

Next ==
  \/ Tick \/ \E list \in SUBSET Domains : Edit(list)
  \/ \E p \in Processes :
       Start(p) \/ Stop(p) \/ Dispatch(p) \/ \E q \in Queries : Query(p, q)

Spec == Init /\ [][Next]_vars

-------------------------------------------------------------------------------
TypeOK ==
  /\ now \in Times /\ file \in SUBSET Domains
  /\ intel \in [Processes -> (SUBSET Domains) \cup {None}]
  /\ reported \in [Processes -> SUBSET (Hosts \X Domains)]
  /\ held \in [Processes -> Queries \cup {None}]
  /\ asked \in [Processes -> SUBSET Queries]
  /\ dedup \in [Processes -> SUBSET [fp : Hosts, ts : Times]]
  /\ alerted \in [Processes -> Seq(Queries)]
  /\ \A p \in Processes : intel[p] = None => held[p] = None

Alone(p) ==
  \A i, j \in DOMAIN alerted[p] : Pair(alerted[p][i]) = Pair(alerted[p][j]) => i = j

(* No pair is alerted twice in a run, none that is not listed, and a host  *)
(* that asked for a listed domain has the evidence of one less than the    *)
(* deduplicator's window before - of this very domain where there is no    *)
(* deduplicator, as in a replay.                                           *)
ListedHostsAreAlerted ==
  \A p \in Processes : held[p] = None /\ intel[p] # None =>
    /\ Alone(p) /\ Pairs(Range(alerted[p])) \subseteq Pairs(asked[p])
    /\ \A q \in asked[p] : \E a \in Range(alerted[p]) :
         Pair(a) = Pair(q) \/ (a.host = q.host /\ a.ts <= q.ts /\ q.ts - a.ts < Window[p])

(* "One alert per (source, domain) per process run" (dns_detector.py:24).  *)
OneAlertPerDomain ==
  \A p \in Processes : held[p] = None /\ intel[p] # None =>
    Alone(p) /\ Pairs(Range(alerted[p])) = Pairs(asked[p])
===============================================================================
