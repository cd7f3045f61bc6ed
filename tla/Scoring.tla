------------------------------- MODULE Scoring -------------------------------
(***************************************************************************)
(* The risk model (detection/scoring.py): the score of an event, and that  *)
(* of an incident its events join one by one.                              *)
(***************************************************************************)
EXTENDS Integers

CONSTANTS
  Names,       (* canonical event names                                    *)
  Attack,      (* those EVENT_TECHNIQUE_MAP (detection/mitre.py) knows     *)
  HighImpact,  (* HIGH_IMPACT_EVENTS                                       *)
  PortCounts,  (* the values of a port_count                               *)
  MacCounts,   (* the lengths of a mac_history                             *)
  MaxEvents    (* bound on the events of an incident                       *)

ASSUME NamesAssumption == Attack \subseteq Names /\ HighImpact \subseteq Names
ASSUME CountsAssumption == PortCounts \subseteq Nat /\ MacCounts \subseteq Nat
ASSUME BoundAssumption == MaxEvents \in Nat

SEVERITY_BASE ==
  [DEBUG |-> 0, INFO |-> 10, WARNING |-> 40, ERROR |-> 55, CRITICAL |-> 75]
Severities == {"DEBUG", "INFO", "WARNING", "ERROR", "CRITICAL"}

Capped(n, cap) == IF n > cap THEN cap ELSE n
Bonus(condition, points) == IF condition THEN points ELSE 0

(* MUTANT: the bonuses are not bounded together. *)
UnboundedAmplifier(c) ==
  Capped(c.ports \div 10, 10) + Bonus(c.macs > 2, 5) + Bonus(c.exceeded, 10)
ContextAmplifier(c) ==
  Capped(Capped(c.ports \div 10, 10) + Bonus(c.macs > 2, 5) + Bonus(c.exceeded, 10), 15)

(* The components explain() returns, but for the total.                    *)
Explained(e) ==
  SEVERITY_BASE[e.severity] + Bonus(e.name \in Attack, 5)
    + Bonus(e.name \in HighImpact, 5) + ContextAmplifier(e.context)
risk_score(e) == Capped(Explained(e), 100)

(* MUTANT: the mean of the events, not the worst of them, is the anchor. *)
mean_incident_score(worst, n, categories) ==
  Capped(worst \div n + Capped((n - 1) * 2, 10) + (categories - 1) * 5, 100)
(* Of n events in so many categories, the worst of which scores top.       *)
incident_score(worst, n, categories) ==
  Capped(worst + Capped((n - 1) * 2, 10) + (categories - 1) * 5, 100)

Contexts == [ports : PortCounts, macs : MacCounts, exceeded : BOOLEAN]
Events == [severity : Severities, name : Names, context : Contexts]

VARIABLES
  event,  (* the last event that joined                                    *)
  top,    (* the highest score of an event                                 *)
  size,   (* how many events there are                                     *)
  spread, (* how many categories they are of                               *)
  score   (* the incident's                                                *)

vars == <<event, top, size, spread, score>>

First(e) ==
  /\ event = e
  /\ top = risk_score(e) /\ size = 1 /\ spread = 1
  /\ score = incident_score(risk_score(e), 1, 1)

Init == \E e \in Events : First(e)

(* One more event, of a category that is new to the incident or not. *)
Join(e, categories) ==
  LET worst == IF risk_score(e) > top THEN risk_score(e) ELSE top
  IN  /\ size < MaxEvents
      /\ event' = e
      /\ top' = worst /\ size' = size + 1 /\ spread' = spread + categories
      /\ score' = incident_score(worst, size + 1, spread + categories)

Next == \E e \in Events, new \in {0, 1} : Join(e, new)

Spec == Init /\ [][Next]_vars

-----------------------------------------------------------------------------
(* Every variable has its type: scores are from 0 to 100.                  *)
TypeOK ==
  /\ event \in Events
  /\ top \in 0 .. 100 /\ score \in 0 .. 100
  /\ size \in Nat /\ size >= 1 /\ spread \in 1 .. size

(* "every component is visible in explain()" (scoring.py:8): the total     *)
(* explain() shows is the sum of the components it shows, for the bounds   *)
(* on them leave nothing for the bound on the total to cut off.            *)
ComponentsAddUp == risk_score(event) = Explained(event)

(* An incident scores no less than any of its events, the next to join     *)
(* included.                                                               *)
AtLeastTheWorst == top <= score /\ risk_score(event) <= score

(* "corroborating events and cross-category correlation push it higher"    *)
(* (scoring.py:75-76): an event never lowers the score of the incident it  *)
(* joins.                                                                  *)
NeverLowered == [][score <= score']_vars

(* Corroboration raises: an incident never falls below its worst event     *)
(* and never loses what it has.                                            *)
CorroborationRaises == [](TypeOK /\ AtLeastTheWorst) /\ NeverLowered
=============================================================================
