----------------------------- MODULE Correlation -----------------------------
(***************************************************************************)
(* The correlation engine (detection/correlation.py): a daemon and CLI     *)
(* sweeps each load the recent audit rows on one connection, run the seven *)
(* rules on that snapshot, and insert the incidents that are new on        *)
(* another, while modules keep logging, analysts close incidents and       *)
(* retention purges both tables.                                           *)
(*                                                                         *)
(* audit_events holds the rows a rule can read; every other row, the       *)
(* summary a sweep logs included, only takes an id.  Rows of equal         *)
(* timestamp are read in id order.                                         *)
(***************************************************************************)
EXTENDS Integers, FiniteSets

CONSTANTS
  Daemons,            (* correlator services                               *)
  Manual,             (* sweeps started by hand                            *)
  Shapes,             (* what can be logged: name, category, critical,     *)
                      (* entity, source, host                              *)
  None,               (* a field a row does not have                       *)
  Indicators,         (* entities on the threat-intel watchlist            *)
  Fallible,           (* rules that may raise                              *)
  BruteForceThreshold, BruteForceWindow,
  SprayThreshold, SprayWindow,
  SuccessThreshold, SuccessWindow,
  ChainWindow,
  Lookback,           (* lookback_seconds, in ticks                        *)
  Interval,           (* interval_seconds of the daemon                    *)
  Retention,          (* retention_days of the purge                       *)
  MaxLag,             (* ticks between a row's timestamp and its commit    *)
  MaxPause,           (* ticks between a sweep's read and its write        *)
  MaxSkips,           (* sweeps of a daemon that may fail in a row         *)
  MaxTime, MaxEvents  (* bounds on the clock and on the rows logged        *)

Rules == {"brute_force_burst", "password_spray", "auth_success_after_failures",
          "replay_attack", "recon_then_auth", "network_then_fim", "ioc_match"}

ASSUME WindowAssumption ==
  /\ BruteForceThreshold \in Nat \ {0} /\ SprayThreshold \in Nat \ {0}
  /\ SuccessThreshold \in Nat \ {0}
  /\ BruteForceWindow \in Nat /\ SprayWindow \in Nat
  /\ SuccessWindow \in Nat /\ ChainWindow \in Nat
  /\ Lookback \in Nat /\ Retention \in Nat /\ Interval \in Nat \ {0}
  /\ MaxLag \in Nat /\ MaxPause \in Nat /\ MaxSkips \in Nat
  /\ MaxTime \in Nat /\ MaxEvents \in Nat
ASSUME RuleAssumption == Fallible \subseteq Rules
(* An hour of lookback outlasts a chain, the late commits and a failed     *)
(* sweep or two; a day of retention outlasts the lookback and a slow sweep. *)
ASSUME CadenceAssumption ==
  ChainWindow + MaxLag + (MaxSkips + 1) * (Interval + MaxPause) <= Lookback
ASSUME RetentionAssumption == Lookback + MaxPause <= Retention

Sweepers == Daemons \cup Manual
Times == 0 .. MaxTime
Ids == 1 .. MaxEvents

VARIABLES
  now,
  audit_events,  (* rows: a shape, its id, and its timestamp ts            *)
  logged,        (* history: every row ever committed                      *)
  incidents,     (* rows: dedupe key, the ids of its events, created, open *)
  opened,        (* history: every insertion into incidents                *)
  pc,            (* "idle" or "swept": the rules ran, nothing is written   *)
  loaded_at,     (* when the sweep read audit_events                       *)
  candidates,    (* what its rules found                                   *)
  due,           (* when a daemon's wait ends                              *)
  skipped        (* sweeps a daemon failed in a row                        *)

vars == <<now, audit_events, logged, incidents, opened, pc, loaded_at,
          candidates, due, skipped>>
tables == <<audit_events, logged, incidents, opened>>
sweeps == <<pc, loaded_at, candidates, due, skipped>>

-----------------------------------------------------------------------------
(* The rules, over a set E of rows.                                        *)

Precedes(e, f) == e.ts < f.ts \/ (e.ts = f.ts /\ e.id < f.id)
Earliest(S) == CHOOSE e \in S : \A f \in S : ~Precedes(f, e)
Within(e, f, window) == 0 <= f.ts - e.ts /\ f.ts - e.ts <= window

EntitiesOf(S) == {e.entity : e \in S} \ {None}
dedupe_key(rule, entities, first) == <<rule, entities, first.id>>
(* found: the row that puts the candidate where it is in its rule's list. *)
Candidate(rule, first, found, S, extra) ==
  [key |-> dedupe_key(rule, EntitiesOf(S) \cup extra, first),
   events |-> {e.id : e \in S},
   found |-> found]

Failures(E) ==
  {e \in E : e.name \in {"AUTH_FAILURE", "RATE_LIMITED"} /\ e.entity # None}
FailuresOf(E, user) == {e \in Failures(E) : e.entity = user}
(* MUTANT: the window's last instant left out. *)
ClusterStrict(F, anchor, window) ==
  {e \in F : ~Precedes(e, anchor) /\ e.ts - anchor.ts < window}
(* The rows from the anchor on that fit the window it opens. *)
Cluster(F, anchor, window) ==
  {e \in F : ~Precedes(e, anchor) /\ e.ts - anchor.ts <= window}

(* One incident per user, at the first anchor whose cluster is a burst. *)
Bursts(F) ==
  {a \in F : Cardinality(Cluster(F, a, BruteForceWindow)) >= BruteForceThreshold}
rule_brute_force(E) ==
  LET Found(user) ==
        LET F == FailuresOf(E, user)
            first == Earliest(Bursts(F))
        IN  Candidate("brute_force_burst", first, first, Cluster(F, first, BruteForceWindow), {})
  IN  {Found(user) : user \in {u \in EntitiesOf(Failures(E)) : Bursts(FailuresOf(E, u)) # {}}}

(* MUTANT: failures counted instead of distinct users. *)
SpraysByCount(F) ==
  {a \in F : Cardinality(Cluster(F, a, SprayWindow)) >= SprayThreshold}
Sprays(F) ==
  {a \in F : Cardinality(EntitiesOf(Cluster(F, a, SprayWindow))) >= SprayThreshold}
rule_password_spray(E) ==
  LET F == Failures(E)
      first == Earliest(Sprays(F))
  IN  IF Sprays(F) = {} THEN {}
      ELSE {Candidate("password_spray", first, first, Cluster(F, first, SprayWindow), {})}

rule_auth_success_after_failures(E) ==
  LET Prior(s) == {f \in FailuresOf(E, s.entity) : Within(f, s, SuccessWindow)}
      Successes == {s \in E : s.name = "AUTH_SUCCESS" /\ s.entity # None}
  IN  {Candidate("auth_success_after_failures", Earliest(Prior(s)), s, Prior(s) \cup {s}, {}) :
         s \in {x \in Successes : Cardinality(Prior(x)) >= SuccessThreshold}}

rule_replay_attack(E) ==
  {Candidate("replay_attack", e, e, {e}, {}) : e \in {x \in E : x.name = "REPLAY_ATTACK"}}

SameHost(e, f) == e.host # None /\ e.host = f.host
(* An incident for each head of a link, with all who follow it. *)
Chains(rule, links) ==
  {Candidate(rule, h, h, {h} \cup {l[2] : l \in {x \in links : x[1] = h}}, {}) :
     h \in {l[1] : l \in links}}

rule_recon_then_auth(E) ==
  LET Recon == {e \in E : e.name \in {"syn_scan", "arp_spoofing", "icmp_sweep"}}
      Follows(r, a) == /\ a.name = "AUTH_FAILURE" /\ Within(r, a, ChainWindow)
                       /\ SameHost(r, a) /\ r.source # None /\ r.source = a.source
  IN  Chains("recon_then_auth", {l \in Recon \X E : Follows(l[1], l[2])})

rule_network_then_fim(E) ==
  LET Critical == {e \in E : e.category = "network" /\ e.critical}
      Follows(n, f) == f.category = "fim" /\ Within(n, f, ChainWindow) /\ SameHost(n, f)
  IN  Chains("network_then_fim", {l \in Critical \X E : Follows(l[1], l[2])})

(* One incident per listed entity, over every row that names it. *)
rule_ioc_match(E) ==
  LET Naming(i) == {e \in E : i \in {e.entity, e.source}}
  IN  {Candidate("ioc_match", Earliest(Naming(i)), Earliest(Naming(i)), Naming(i), {i}) :
         i \in {x \in Indicators \ {None} : Naming(x) # {}}}

RunRule(rule, E) ==
  CASE rule = "brute_force_burst" -> rule_brute_force(E)
    [] rule = "password_spray" -> rule_password_spray(E)
    [] rule = "auth_success_after_failures" -> rule_auth_success_after_failures(E)
    [] rule = "replay_attack" -> rule_replay_attack(E)
    [] rule = "recon_then_auth" -> rule_recon_then_auth(E)
    [] rule = "network_then_fim" -> rule_network_then_fim(E)
    [] rule = "ioc_match" -> rule_ioc_match(E)

-----------------------------------------------------------------------------
Init ==
  /\ now = 0
  /\ audit_events = {} /\ logged = {} /\ incidents = {} /\ opened = {}
  /\ pc = [s \in Sweepers |-> "idle"]
  /\ loaded_at = [s \in Sweepers |-> 0]
  /\ candidates = [s \in Sweepers |-> {}]
  /\ due = [s \in Sweepers |-> 0]
  /\ skipped = [s \in Sweepers |-> 0]

(* The clock: a daemon starts its sweep when its wait is over, and a sweep *)
(* that has read the table ends within MaxPause.                           *)
Tick ==
  /\ now < MaxTime
  /\ \A d \in Daemons : pc[d] = "idle" => now < due[d]
  /\ \A s \in Sweepers : pc[s] = "swept" => now < loaded_at[s] + MaxPause
  /\ now' = now + 1
  /\ UNCHANGED <<tables, sweeps>>

(* A module logs: the record was created lag ticks before its commit. *)
Log(shape, lag) ==
  /\ Cardinality(logged) < MaxEvents
  /\ lag <= now
  /\ LET row == [id |-> Cardinality(logged) + 1, ts |-> now - lag, name |-> shape.name,
                 category |-> shape.category, critical |-> shape.critical,
                 entity |-> shape.entity, source |-> shape.source, host |-> shape.host]
     IN  audit_events' = audit_events \cup {row} /\ logged' = logged \cup {row}
  /\ UNCHANGED <<now, incidents, opened, sweeps>>

(* MUTANT: only what came since the last sweep. *)
RecentSinceLast == {e \in audit_events : e.ts >= now - Interval}
Recent == {e \in audit_events : e.ts >= now - Lookback}

(* MUTANT: one try around all the rules. *)
LoadTogether(s, failing) ==
  /\ pc[s] = "idle"
  /\ s \in Daemons => due[s] <= now
  /\ candidates' = [candidates EXCEPT ![s] =
       IF failing # {} THEN {} ELSE UNION {RunRule(rule, Recent) : rule \in Rules}]
  /\ loaded_at' = [loaded_at EXCEPT ![s] = now]
  /\ pc' = [pc EXCEPT ![s] = "swept"]
  /\ UNCHANGED <<now, tables, due, skipped>>

(* load_events, then every rule, each in its own try. *)
Load(s, failing) ==
  /\ pc[s] = "idle"
  /\ s \in Daemons => due[s] <= now
  /\ candidates' = [candidates EXCEPT ![s] =
       UNION {RunRule(rule, Recent) : rule \in Rules \ failing}]
  /\ loaded_at' = [loaded_at EXCEPT ![s] = now]
  /\ pc' = [pc EXCEPT ![s] = "swept"]
  /\ UNCHANGED <<now, tables, due, skipped>>

(* The sweep is over; a daemon waits for its interval. *)
Rest(s) ==
  /\ pc' = [pc EXCEPT ![s] = "idle"]
  /\ candidates' = [candidates EXCEPT ![s] = {}]
  /\ due' = [due EXCEPT ![s] = IF s \in Daemons THEN now + Interval ELSE 0]
  /\ loaded_at' = [loaded_at EXCEPT ![s] = 0]

(* MUTANT: only open incidents hold their key. *)
FreshUnlessOpen(s) == {c \in candidates[s] : \A i \in incidents : i.open => i.key # c.key}

(* INSERT OR IGNORE: of the candidates with one key the first is inserted, *)
(* if the table has none with it.                                          *)
Fresh(s) == {c \in candidates[s] : \A i \in incidents : i.key # c.key}
New(s) ==
  LET First(k) == CHOOSE c \in Fresh(s) :
        c.key = k /\ \A d \in Fresh(s) : d.key = k => ~Precedes(d.found, c.found)
  IN  {[key |-> k, events |-> First(k).events, created |-> now] : k \in {c.key : c \in Fresh(s)}}

(* Every candidate is inserted in one transaction. *)
Insert(s) ==
  /\ pc[s] = "swept"
  /\ incidents' = incidents \cup
       {[key |-> i.key, events |-> i.events, created |-> now, open |-> TRUE] : i \in New(s)}
  /\ opened' = opened \cup New(s)
  /\ skipped' = [skipped EXCEPT ![s] = 0]
  /\ Rest(s)
  /\ UNCHANGED <<now, audit_events, logged>>

(* The database is locked: nothing is inserted and a daemon goes on. *)
SweepFails(s) ==
  /\ pc[s] = "swept"
  /\ skipped[s] < MaxSkips
  /\ skipped' = [skipped EXCEPT ![s] = IF s \in Daemons THEN @ + 1 ELSE 0]
  /\ Rest(s)
  /\ UNCHANGED <<now, tables>>

(* An analyst's UPDATE incidents SET status. *)
Close(i) ==
  /\ i.open
  /\ incidents' = (incidents \ {i}) \cup {[i EXCEPT !.open = FALSE]}
  /\ UNCHANGED <<now, audit_events, logged, opened, sweeps>>

(* purge_old_events on the two tables, its horizon taken at t. *)
Purge(t) ==
  /\ audit_events' = {e \in audit_events : ~(e.ts < t - Retention)}
  /\ incidents' = {i \in incidents : i.open \/ ~(i.created < t - Retention)}
  /\ UNCHANGED <<now, logged, opened, sweeps>>

Next ==
  \/ Tick
  \/ \E shape \in Shapes, lag \in 0 .. MaxLag : Log(shape, lag)
  \/ \E s \in Sweepers :
       \/ \E failing \in SUBSET Fallible : Load(s, failing)
       \/ Insert(s) \/ SweepFails(s)
  \/ \E i \in incidents : Close(i)
  \/ \E t \in 0 .. now : Purge(t)

Spec == Init /\ [][Next]_vars
=============================================================================
