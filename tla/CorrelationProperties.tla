------------------------ MODULE CorrelationProperties ------------------------
(***************************************************************************)
(* What the engine promises of the incidents it reports.                   *)
(***************************************************************************)
EXTENDS Correlation

(* The most ticks between the reads of two sweeps of one daemon that write *)
(* what they found.                                                        *)
Gap == (MaxSkips + 1) * (Interval + MaxPause)
(* Five minutes of a burst are longer than a daemon's minute and a few     *)
(* failed sweeps, and both fit the lookback; the rules that report attacks *)
(* do not raise.                                                           *)
ASSUME BurstAssumption ==
  Gap <= BruteForceWindow + 1 /\ BruteForceWindow + MaxLag + Gap <= Lookback
ASSUME DaemonAssumption ==
  /\ Daemons # {}
  /\ Fallible \cap {"replay_attack", "network_then_fim", "brute_force_burst"} = {}
ASSUME ShapesAssumption == \A x \in Shapes : x.critical \in BOOLEAN

Rows == [id : Ids, ts : Times, name : {x.name : x \in Shapes},
         category : {x.category : x \in Shapes}, critical : BOOLEAN,
         entity : {x.entity : x \in Shapes}, source : {x.source : x \in Shapes},
         host : {x.host : x \in Shapes}]
Named == ({x.entity : x \in Shapes} \cup Indicators) \ {None}
Keys == Rules \X (SUBSET Named) \X Ids

(* The two tables and every sweep keep their shape. *)
TypeOK ==
  /\ now \in Times
  /\ audit_events \subseteq logged /\ logged \subseteq Rows
  /\ incidents \subseteq [key : Keys, events : SUBSET Ids, created : Times, open : BOOLEAN]
  /\ opened \subseteq [key : Keys, events : SUBSET Ids, created : Times]
  /\ pc \in [Sweepers -> {"idle", "swept"}]
  /\ loaded_at \in [Sweepers -> Times]
  /\ \A s \in Sweepers : candidates[s] \subseteq
       [key : Keys, events : (SUBSET Ids) \ {{}}, found : logged]
  /\ due \in [Sweepers -> 0 .. MaxTime + Interval]
  /\ skipped \in [Sweepers -> 0 .. MaxSkips]

(* "Re-running never duplicates incidents" (docs/OPERATIONS.md:94): a      *)
(* dedupe key is inserted once ever, though sweeps overlap, an analyst     *)
(* closes the incident and retention removes it.                           *)
ReportedOnce ==
  /\ TypeOK
  /\ \A i, j \in opened : i.key = j.key => i = j

(* A row nobody will load again. *)
AgedOut(e) == e.ts + Lookback + MaxPause < now
Reported(rule, id) == \E i \in opened : i.key[1] = rule /\ id \in i.events

(* No replay leaves the lookback unreported, whatever another rule raises, *)
(* whichever sweep fails and however late the row was committed.           *)
NoReplayAgesOut ==
  \A e \in logged :
    e.name = "REPLAY_ATTACK" /\ AgedOut(e) => Reported("replay_attack", e.id)

(* Nor does a network attack that was followed by file tampering, as long  *)
(* as the chain window and the engine's cadence fit the lookback.          *)
NoIntrusionAgesOut ==
  \A n, f \in logged :
    /\ n.category = "network" /\ n.critical /\ f.category = "fim"
    /\ SameHost(n, f) /\ Within(n, f, ChainWindow) /\ AgedOut(n)
    => Reported("network_then_fim", n.id)

(* No burst of failures of one user leaves the lookback unless a failure   *)
(* of theirs, no more than a window away, is in a reported burst: reporting *)
(* one burst per user and sweep (correlation.py:139) and never updating an *)
(* incident hides no attack while the daemon sweeps within the window.     *)
NoBurstAgesOut ==
  \A a \in logged :
    LET F == FailuresOf(logged, a.entity)
    IN  a \in Bursts(F) /\ AgedOut(a) =>
          \E e \in F : /\ Within(a, e, BruteForceWindow) \/ Within(e, a, BruteForceWindow)
                       /\ Reported("brute_force_burst", e.id)

(* No attack, of whatever rule, leaves the lookback unreported.            *)
NoAttackAgesOut == NoReplayAgesOut /\ NoIntrusionAgesOut /\ NoBurstAgesOut

(* A user is reported exactly when some stretch of BruteForceWindow ticks, *)
(* wherever it starts, holds the threshold of its failures, and what is    *)
(* reported fits one stretch and starts no later than any other burst.     *)
BruteForceIsExact ==
  LET Found == rule_brute_force(audit_events) IN
  \A user \in Named :
    LET F == FailuresOf(audit_events, user)
        Stretch(t) == {e \in F : t <= e.ts /\ e.ts <= t + BruteForceWindow}
        Starts == {t \in Times : Cardinality(Stretch(t)) >= BruteForceThreshold}
        Hits == {c \in Found : c.key[2] = {user}}
    IN  /\ (Hits # {}) <=> (Starts # {})
        /\ \A c \in Hits : \E t \in Times :
             /\ Cardinality(c.events) >= BruteForceThreshold
             /\ c.events \subseteq {e.id : e \in Stretch(t)}
             /\ \A x \in Starts : x < t => Stretch(x) \subseteq Stretch(t)

(* A spray is reported exactly when some stretch of SprayWindow ticks      *)
(* holds failures of the threshold of distinct users.                      *)
SprayIsExact ==
  LET F == Failures(audit_events)
      Found == rule_password_spray(audit_events)
      Stretch(t) == {e \in F : t <= e.ts /\ e.ts <= t + SprayWindow}
      Victims(t) == {e.entity : e \in Stretch(t)}
  IN  /\ (Found # {}) <=> \E t \in Times : Cardinality(Victims(t)) >= SprayThreshold
      /\ \A c \in Found :
           \E t \in Times : c.key[2] = Victims(t) /\ c.events = {e.id : e \in Stretch(t)}

(* Both sliding windows find what their definitions say, whichever rows    *)
(* are in the table when a rule is run.                                    *)
WindowsAreExact == BruteForceIsExact /\ SprayIsExact

(* The dedupe key is "Stable across overlapping sweeps: anchored to the    *)
(* first event" (correlation.py:103): no event is in two incidents of one  *)
(* rule.                                                                   *)
KeyIsStable ==
  \A i, j \in opened :
    i.key[1] = j.key[1] /\ i.events \cap j.events # {} => i.key = j.key
=============================================================================
