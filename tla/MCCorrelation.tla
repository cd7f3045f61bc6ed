---------------------------- MODULE MCCorrelation ----------------------------
(* Correlation for TLC: a few shapes of rows on one or two hosts. *)
EXTENDS CorrelationProperties, TLC

CONSTANTS u1, u2, ip1, path1, h1

Shape(name, category, critical, entity, source) ==
  [name |-> name, category |-> category, critical |-> critical,
   entity |-> entity, source |-> source, host |-> h1]
Failure(u) == Shape("AUTH_FAILURE", "auth", FALSE, u, ip1)
Success(u) == Shape("AUTH_SUCCESS", "auth", FALSE, u, ip1)
Replay(u) == Shape("REPLAY_ATTACK", "auth", TRUE, u, ip1)
Scan == Shape("syn_scan", "network", TRUE, ip1, ip1)
Tampering == Shape("FIM_MODIFIED", "fim", TRUE, path1, None)

MCShapes == {Failure(u1), Failure(u2), Success(u1), Replay(u1), Scan, Tampering}
MCIndicators == {path1}

MCBurst == {Failure(u1)}
MCNoIndicators == {}

(* What is logged is of one kind; the sweeps by hand, and the clock of the *)
(* sprays, stop where the kind shows nothing new.                          *)
Logged(shapes, n) ==
  /\ Cardinality(logged) <= n
  /\ \A x \in logged : \E s \in shapes : x.name = s.name /\ x.entity = s.entity
Alone == \A m \in Manual : pc[m] = "idle"
Explored ==
  \/ Logged({Failure(u1), Success(u1), Replay(u1)}, 2) /\ (Alone \/ now <= 3)
  \/ Logged({Scan, Tampering}, 2) /\ Alone
  \/ Logged({Failure(u1)}, 4) /\ Alone
  \/ Logged({Failure(u1), Failure(u2)}, 3) /\ Alone /\ now <= 3
=============================================================================
