----------------------------- MODULE ScanDetector -----------------------------
(***************************************************************************)
(* SynDetector and IcmpSweepDetector (network/detectors): one algorithm,   *)
(* with ports for targets in the one and hosts in the other.  Packets      *)
(* carry the time of their capture, which in a replayed file need not be   *)
(* in order: each lies at most Skew behind the latest.                     *)
(***************************************************************************)
EXTENDS Integers, Sequences, FiniteSets

CONSTANTS
  Sources,
  Targets,
  Threshold,   (* SYN_SCAN_THRESHOLD, ICMP_SWEEP_THRESHOLD                 *)
  Window,      (* SYN_SCAN_WINDOW_SECONDS, ICMP_SWEEP_WINDOW_SECONDS       *)
  Skew,        (* how far out of order packets are                         *)
  None,        (* no event                                                 *)
  MaxPackets,  (* bound on the packets of a source since its last report   *)
  MaxTime      (* bound on the clock                                       *)

ScanAssumption ==
  /\ Threshold \in Nat /\ Window \in Nat /\ Skew \in 0 .. Window
  /\ MaxPackets \in Nat /\ MaxTime \in Nat

VARIABLES
  now,        (* the latest time of a packet                               *)
  deque,      (* per source: the packets still counted, as they came       *)
  counts,     (* per source: how often each target is in the deque         *)
  event,      (* what the last packet raised                               *)
  unreported  (* history, per source: its packets since its last event     *)

vars == <<now, deque, counts, event, unreported>>

Packets == [at : 0 .. MaxTime, target : Targets]

Init ==
  /\ now = 0
  /\ deque = [s \in Sources |-> <<>>]
  /\ counts = [s \in Sources |-> [t \in Targets |-> 0]]
  /\ event = None
  /\ unreported = [s \in Sources |-> {}]

Tick ==
  /\ now < MaxTime
  /\ now' = now + 1
  /\ UNCHANGED <<deque, counts, event, unreported>>

(* MUTANT: what is just a window old goes too. *)
ExpiredEarly(packets, at) ==
  Cardinality({i \in DOMAIN packets : \A j \in 1 .. i : at - packets[j].at >= Window})
(* How many packets leave the head of a deque.                             *)
Expired(packets, at) ==
  Cardinality({i \in DOMAIN packets : \A j \in 1 .. i : at - packets[j].at > Window})

(* MUTANT: the counter keeps what the deque drops. *)
CountedForever(packets, count, n) == count
CountedWithout(packets, count, n) ==
  [t \in Targets |-> count[t] - Cardinality({i \in 1 .. n : packets[i].target = t})]

Active(count) == {t \in Targets : count[t] > 0}

Report(s, e) ==
  /\ event' = e
  /\ deque' = [deque EXCEPT ![s] = <<>>]
  /\ counts' = [counts EXCEPT ![s] = [t \in Targets |-> 0]]
  /\ unreported' = [unreported EXCEPT ![s] = {}]

(* process_packet: a bare SYN, or an echo request.                         *)
ProcessPacket(s, p) ==
  LET n == Expired(deque[s], p.at)
      count == [CountedWithout(deque[s], counts[s], n) EXCEPT ![p.target] = @ + 1]
      since == unreported[s] \cup {p}
  IN  /\ UNCHANGED now
      /\ IF Cardinality(Active(count)) > Threshold
         THEN Report(s, [targets |-> Active(count), since |-> since])
         ELSE /\ event' = None
              /\ deque' = [deque EXCEPT ![s] = Append(SubSeq(@, n + 1, Len(@)), p)]
              /\ counts' = [counts EXCEPT ![s] = count]
              /\ unreported' = [unreported EXCEPT ![s] = since]

Next ==
  \/ Tick
  \/ \E s \in Sources, t \in Targets, at \in 0 .. now :
       /\ now - at <= Skew
       /\ Cardinality(unreported[s]) < MaxPackets /\ Len(deque[s]) < MaxPackets
       /\ ProcessPacket(s, [at |-> at, target |-> t])

Spec == Init /\ [][Next]_vars

-----------------------------------------------------------------------------
TargetsOf(packets) == {p.target : p \in packets}
Within(packets, span) == \A p, q \in packets : q.at - p.at <= span

(* Every variable has its type; the counter counts what is in the deque,   *)
(* all of it unreported.                                                   *)
TypeOK ==
  /\ now \in 0 .. MaxTime
  /\ event \in {None} \cup [targets : SUBSET Targets, since : SUBSET Packets]
  /\ \A s \in Sources :
       /\ unreported[s] \subseteq Packets
       /\ \A i \in DOMAIN deque[s] : deque[s][i] \in unreported[s]
       /\ \A t \in Targets :
            counts[s][t] = Cardinality({i \in DOMAIN deque[s] : deque[s][i].target = t})

(* An event is a scan: its targets are more than the threshold and got     *)
(* their packets within one window, since the last event of the source -   *)
(* up to twice the disorder of the capture, for a late packet at the head  *)
(* keeps older ones behind it.                                             *)
ReportsAreScans ==
  event # None =>
    /\ Cardinality(event.targets) > Threshold
    /\ \E scan \in SUBSET event.since :
         TargetsOf(scan) = event.targets /\ Within(scan, Window + 2 * Skew)

(* No scan is missed: packets of one source within a window, less the      *)
(* disorder of the capture, never have more targets than the threshold     *)
(* unless an event came between them.                                      *)
NoScanMissed ==
  \A s \in Sources : \A scan \in SUBSET unreported[s] :
    Within(scan, Window - Skew) => Cardinality(TargetsOf(scan)) <= Threshold
=============================================================================
