-------------------------- MODULE EventStreamProofs --------------------------
(***************************************************************************)
(* Proofs about EventStream, for any number of connections, any page size, *)
(* lifetimes and poll interval: its types, that a stream sends every row   *)
(* once whatever is logged and purged between its pages, and that at most  *)
(* the page in hand is sent after the session is lost; and about           *)
(* Supervisor, that it returns by itself only when all have stopped; and   *)
(* about LiveFeed, that no row that was sent is missing from the page.     *)
(***************************************************************************)
EXTENDS MCServices, Sequences, FiniteSetTheorems, WellFoundedInduction, TLAPS

-----------------------------------------------------------------------------
(* The inductive invariant.                                                *)

(* A page in hand is new to the stream, and leaves out no row of the table *)
(* up to its last.                                                         *)
PageInHand ==
  \A s \in Streams : pc[s] = "send" =>
    /\ \A id \in rows[s] : last_id[s] < id
    /\ \A id \in audit_events : \A last \in rows[s] : last_id[s] < id /\ id <= last => id \in rows[s]

(* What was sent is not above last_id. *)
SentInOrder == \A s \in Streams : \A id \in delivered[s] : id <= last_id[s]

Lost(s) == ~is_active \/ Expired(s)

(* Only a page that was read before the session was lost is overdue: once  *)
(* it is sent the stream is at its recheck, or over.                       *)
OnceOverdue ==
  \A s \in Streams :
    /\ overdue[s] <= 1
    /\ overdue[s] = 1 /\ pc[s] # "closed" => pc[s] = "loop" /\ Lost(s)

IInv == TypeOK /\ PageInHand /\ SentInOrder /\ NoRowSkipped /\ OnceOverdue

-----------------------------------------------------------------------------
(* The rows a page has.                                                    *)

(* A page ends: among its rows there is a last. *)
LEMMA NewestIsLast ==
  ASSUME NEW n \in Nat, NEW last \in 0 .. n, NEW sheet \in SUBSET (1 .. n)
  PROVE  Newest(last, sheet) \in sheet \cup {last} /\ \A x \in sheet \cup {last} : x <= Newest(last, sheet)
<1> DEFINE S == sheet \cup {last}
           T == {n - x : x \in S}
           Less == {ss \in Nat \X Nat : ss[1] < ss[2]}
<1>1. Less = OpToRel(<, Nat)
  BY Zenon DEF OpToRel
<1>2. T \in SUBSET Nat /\ T # {}
  <2>1. \A x \in S : n - x \in Nat
    OBVIOUS
  <2>2. n - last \in T
    OBVIOUS
  <2> QED BY <2>1, <2>2
<1>3. PICK t \in T : \A u \in T : ~(<<u, t>> \in OpToRel(<, Nat))
  BY <1>2, WFMin, NatLessThanWellFounded
<1>4. PICK x \in S : t = n - x
  OBVIOUS
<1>5. \A y \in S : y <= x
  <2> TAKE y \in S
  <2>1. n - y \in T /\ n - y \in Nat /\ t \in Nat
    BY <1>2
  <2>2. ~(<<n - y, t>> \in Less)
    BY <1>1, <1>3, <2>1, Zenon
  <2>3. ~(n - y < t)
    BY <2>1, <2>2
  <2> QED BY <1>4, <2>3
<1> QED BY <1>5 DEF Newest

(* The page that is read has every row of the table between last and any   *)
(* of its own: the LIMIT cuts it at one end only.                          *)
LEMMA PagesAreWhole ==
  ASSUME TypeOK, NEW last \in Nat,
         NEW id \in audit_events, NEW end \in get_audit_events_since(last),
         last < id, id <= end
  PROVE  id \in get_audit_events_since(last)
<1> DEFINE Between(n) == {x \in audit_events : last < x /\ x < n}
<1> logged \in Int /\ audit_events \subseteq 1 .. logged
  BY TypeOK, StreamAssumption DEF TypeOK
<1> end \in audit_events
  BY DEF get_audit_events_since
<1>1. /\ IsFiniteSet(1 .. logged)
      /\ Between(end) \subseteq 1 .. logged
  <2>1. IsFiniteSet(1 .. logged)
    BY FS_Interval
  <2>2. Between(end) \subseteq 1 .. logged
    OBVIOUS
  <2> QED BY <2>1, <2>2
<1>2. IsFiniteSet(Between(end))
  BY <1>1, FS_Subset, Zenon
<1>3. Between(id) \subseteq Between(end)
  <2>1. \A x \in audit_events : x < id => x < end
    BY id <= end
  <2> QED BY <2>1
<1>4. /\ IsFiniteSet(Between(id)) /\ Cardinality(Between(id)) <= Cardinality(Between(end))
  BY <1>2, <1>3, FS_Subset
<1>5. Cardinality(Between(id)) \in Nat /\ Cardinality(Between(end)) \in Nat
  BY <1>2, <1>4, FS_CardinalityType
<1>6. Cardinality(Between(end)) < PageSize
  BY DEF get_audit_events_since
<1>7. Cardinality(Between(id)) < PageSize
  BY <1>4, <1>5, <1>6, StreamAssumption
<1> QED BY <1>7, last < id DEF get_audit_events_since

-----------------------------------------------------------------------------
USE StreamAssumption DEF Times

(* Every step keeps the types. *)
LEMMA TypeInductive ==
  ASSUME TypeOK, [Next]_vars
  PROVE  TypeOK'
<1>1. ASSUME Tick
      PROVE  TypeOK'
  BY <1>1, TypeOK DEF TypeOK, Tick, table, generator
<1>2. ASSUME Log
      PROVE  TypeOK'
  BY <1>2, TypeOK DEF TypeOK, Log, table, generator
<1>3. ASSUME Revoke
      PROVE  TypeOK'
  BY <1>3, TypeOK DEF TypeOK, Revoke, table, generator
<1>4. ASSUME NEW old \in SUBSET audit_events, Purge(old)
      PROVE  TypeOK'
  BY <1>4, TypeOK DEF TypeOK, Purge, table, generator
<1>5. ASSUME NEW s \in Streams, NEW t \in 0 .. now, Open(s, t)
      PROVE  TypeOK'
  BY <1>5, TypeOK DEF TypeOK, Open, table, generator
<1>6. ASSUME NEW s \in Streams, Recheck(s)
      PROVE  TypeOK'
  BY <1>6, TypeOK DEF TypeOK, Recheck, table, generator
<1>7. ASSUME NEW s \in Streams, Return(s)
      PROVE  TypeOK'
  BY <1>7, TypeOK DEF TypeOK, Return, Close, table, generator
<1>8. ASSUME NEW s \in Streams, RecheckFails(s)
      PROVE  TypeOK'
  BY <1>8, TypeOK DEF TypeOK, RecheckFails, Close, table, generator
<1>9. ASSUME NEW s \in Streams, Query(s)
      PROVE  TypeOK'
  <2>1. get_audit_events_since(last_id[s]) \subseteq 1 .. logged
    BY TypeOK DEF TypeOK, get_audit_events_since
  <2> QED BY <1>9, <2>1, TypeOK DEF TypeOK, Query, table
<1>10. ASSUME NEW s \in Streams, QueryFails(s)
      PROVE  TypeOK'
  BY <1>10, TypeOK DEF TypeOK, QueryFails, table, generator
<1>11. ASSUME NEW s \in Streams, Send(s)
      PROVE  TypeOK'
  <2>1. /\ last_id[s] \in 0 .. logged /\ rows[s] \in SUBSET (1 .. logged)
        /\ logged \in Nat
    BY TypeOK DEF TypeOK
  <2>2. Newest(last_id[s], rows[s]) \in 0 .. logged
    BY <2>1, NewestIsLast
  <2> QED BY <1>11, <2>1, <2>2, TypeOK DEF TypeOK, Send, table
<1>12. ASSUME NEW s \in Streams, Disconnect(s)
      PROVE  TypeOK'
  BY <1>12, TypeOK DEF TypeOK, Disconnect, Close, table, generator
<1>13. CASE UNCHANGED vars
  BY <1>13, TypeOK DEF TypeOK, vars, table, generator
<1> QED BY <1>1, <1>2, <1>3, <1>4, <1>5, <1>6, <1>7,
           <1>8, <1>9, <1>10, <1>11, <1>12, <1>13
       DEF Next, Generate

(* Rows that are logged or purged while a page is in hand leave it whole:
   they are above it, or gone. *)
LEMMA PageInductive ==
  ASSUME TypeOK, PageInHand, [Next]_vars
  PROVE  PageInHand'
<1>1. ASSUME Tick
      PROVE  PageInHand'
  BY <1>1, TypeOK, PageInHand DEF TypeOK, PageInHand, Tick, table, generator
<1>2. ASSUME Log
      PROVE  PageInHand'
  BY <1>2, TypeOK, PageInHand DEF TypeOK, PageInHand, Log, table, generator
<1>3. ASSUME Revoke
      PROVE  PageInHand'
  BY <1>3, TypeOK, PageInHand DEF TypeOK, PageInHand, Revoke, table, generator
<1>4. ASSUME NEW old \in SUBSET audit_events, Purge(old)
      PROVE  PageInHand'
  BY <1>4, TypeOK, PageInHand DEF TypeOK, PageInHand, Purge, table, generator
<1>5. ASSUME NEW s \in Streams, NEW t \in 0 .. now, Open(s, t)
      PROVE  PageInHand'
  BY <1>5, TypeOK, PageInHand DEF TypeOK, PageInHand, Open, table, generator
<1>6. ASSUME NEW s \in Streams, Recheck(s)
      PROVE  PageInHand'
  BY <1>6, TypeOK, PageInHand DEF TypeOK, PageInHand, Recheck, table, generator
<1>7. ASSUME NEW s \in Streams, Return(s)
      PROVE  PageInHand'
  BY <1>7, TypeOK, PageInHand DEF TypeOK, PageInHand, Return, Close, table, generator
<1>8. ASSUME NEW s \in Streams, RecheckFails(s)
      PROVE  PageInHand'
  BY <1>8, TypeOK, PageInHand DEF TypeOK, PageInHand, RecheckFails, Close, table, generator
<1>9. ASSUME NEW s \in Streams, Query(s)
      PROVE  PageInHand'
  <2>1. \A id \in get_audit_events_since(last_id[s]) : last_id[s] < id
    BY DEF get_audit_events_since
  <2>2. last_id[s] \in Nat
    BY TypeOK DEF TypeOK
  <2>3. \A id \in audit_events : \A end \in get_audit_events_since(last_id[s]) :
          last_id[s] < id /\ id <= end => id \in get_audit_events_since(last_id[s])
    BY <2>2, TypeOK, PagesAreWhole
  <2> QED BY <1>9, <2>1, <2>3, TypeOK, PageInHand DEF TypeOK, PageInHand, Query, table
<1>10. ASSUME NEW s \in Streams, QueryFails(s)
      PROVE  PageInHand'
  BY <1>10, TypeOK, PageInHand DEF TypeOK, PageInHand, QueryFails, table, generator
<1>11. ASSUME NEW s \in Streams, Send(s)
      PROVE  PageInHand'
  BY <1>11, TypeOK, PageInHand DEF TypeOK, PageInHand, Send, table, generator
<1>12. ASSUME NEW s \in Streams, Disconnect(s)
      PROVE  PageInHand'
  BY <1>12, TypeOK, PageInHand DEF TypeOK, PageInHand, Disconnect, Close, table, generator
<1>13. CASE UNCHANGED vars
  BY <1>13, TypeOK, PageInHand DEF TypeOK, PageInHand, vars, table, generator
<1> QED BY <1>1, <1>2, <1>3, <1>4, <1>5, <1>6, <1>7,
           <1>8, <1>9, <1>10, <1>11, <1>12, <1>13
       DEF Next, Generate

(* What is sent is not above the new last_id. *)
LEMMA OrderInductive ==
  ASSUME TypeOK, SentInOrder, [Next]_vars
  PROVE  SentInOrder'
<1>1. ASSUME Tick
      PROVE  SentInOrder'
  BY <1>1, TypeOK, SentInOrder DEF TypeOK, SentInOrder, Tick, table, generator
<1>2. ASSUME Log
      PROVE  SentInOrder'
  BY <1>2, TypeOK, SentInOrder DEF TypeOK, SentInOrder, Log, table, generator
<1>3. ASSUME Revoke
      PROVE  SentInOrder'
  BY <1>3, TypeOK, SentInOrder DEF TypeOK, SentInOrder, Revoke, table, generator
<1>4. ASSUME NEW old \in SUBSET audit_events, Purge(old)
      PROVE  SentInOrder'
  BY <1>4, TypeOK, SentInOrder DEF TypeOK, SentInOrder, Purge, table, generator
<1>5. ASSUME NEW s \in Streams, NEW t \in 0 .. now, Open(s, t)
      PROVE  SentInOrder'
  BY <1>5, TypeOK, SentInOrder DEF TypeOK, SentInOrder, Open, table, generator
<1>6. ASSUME NEW s \in Streams, Recheck(s)
      PROVE  SentInOrder'
  BY <1>6, TypeOK, SentInOrder DEF TypeOK, SentInOrder, Recheck, table, generator
<1>7. ASSUME NEW s \in Streams, Return(s)
      PROVE  SentInOrder'
  BY <1>7, TypeOK, SentInOrder DEF TypeOK, SentInOrder, Return, Close, table, generator
<1>8. ASSUME NEW s \in Streams, RecheckFails(s)
      PROVE  SentInOrder'
  BY <1>8, TypeOK, SentInOrder DEF TypeOK, SentInOrder, RecheckFails, Close, table, generator
<1>9. ASSUME NEW s \in Streams, Query(s)
      PROVE  SentInOrder'
  BY <1>9, TypeOK, SentInOrder DEF TypeOK, SentInOrder, Query, table, generator
<1>10. ASSUME NEW s \in Streams, QueryFails(s)
      PROVE  SentInOrder'
  BY <1>10, TypeOK, SentInOrder DEF TypeOK, SentInOrder, QueryFails, table, generator
<1>11. ASSUME NEW s \in Streams, Send(s)
      PROVE  SentInOrder'
  <2>1. /\ last_id[s] \in 0 .. logged /\ rows[s] \in SUBSET (1 .. logged)
        /\ logged \in Nat
    BY TypeOK DEF TypeOK
  <2> DEFINE last == Newest(last_id[s], rows[s])
  <2>2. last \in rows[s] \cup {last_id[s]} /\ \A x \in rows[s] \cup {last_id[s]} : x <= last
    BY <2>1, NewestIsLast
  <2>3. last \in 0 .. logged
    BY <2>1, <2>2
  <2>4. last_id' = [last_id EXCEPT ![s] = last] /\ delivered' = [delivered EXCEPT ![s] = delivered[s] \cup rows[s]]
    BY <1>11 DEF Send
  <2>5. delivered[s] \in SUBSET (1 .. logged)
    BY TypeOK DEF TypeOK
  <2> HIDE DEF last
  <2>6. \A id \in delivered[s] \cup rows[s] : id <= last
    BY <2>1, <2>2, <2>3, <2>5, SentInOrder DEF SentInOrder
  <2> QED BY <2>4, <2>6, TypeOK, SentInOrder DEF TypeOK, SentInOrder
<1>12. ASSUME NEW s \in Streams, Disconnect(s)
      PROVE  SentInOrder'
  BY <1>12, TypeOK, SentInOrder DEF TypeOK, SentInOrder, Disconnect, Close, table, generator
<1>13. CASE UNCHANGED vars
  BY <1>13, TypeOK, SentInOrder DEF TypeOK, SentInOrder, vars, table, generator
<1> QED BY <1>1, <1>2, <1>3, <1>4, <1>5, <1>6, <1>7,
           <1>8, <1>9, <1>10, <1>11, <1>12, <1>13
       DEF Next, Generate

(* What is up to the new last_id was sent before or is in the page. *)
LEMMA SkippedInductive ==
  ASSUME TypeOK, PageInHand, NoRowSkipped, [Next]_vars
  PROVE  NoRowSkipped'
<1>1. ASSUME Tick
      PROVE  NoRowSkipped'
  BY <1>1, TypeOK, PageInHand, NoRowSkipped DEF TypeOK, NoRowSkipped, Tick, table, generator
<1>2. ASSUME Log
      PROVE  NoRowSkipped'
  BY <1>2, TypeOK, PageInHand, NoRowSkipped DEF TypeOK, NoRowSkipped, Log, table, generator
<1>3. ASSUME Revoke
      PROVE  NoRowSkipped'
  BY <1>3, TypeOK, PageInHand, NoRowSkipped DEF TypeOK, NoRowSkipped, Revoke, table, generator
<1>4. ASSUME NEW old \in SUBSET audit_events, Purge(old)
      PROVE  NoRowSkipped'
  BY <1>4, TypeOK, PageInHand, NoRowSkipped DEF TypeOK, NoRowSkipped, Purge, table, generator
<1>5. ASSUME NEW s \in Streams, NEW t \in 0 .. now, Open(s, t)
      PROVE  NoRowSkipped'
  BY <1>5, TypeOK, PageInHand, NoRowSkipped DEF TypeOK, NoRowSkipped, Open, table, generator
<1>6. ASSUME NEW s \in Streams, Recheck(s)
      PROVE  NoRowSkipped'
  BY <1>6, TypeOK, PageInHand, NoRowSkipped DEF TypeOK, NoRowSkipped, Recheck, table, generator
<1>7. ASSUME NEW s \in Streams, Return(s)
      PROVE  NoRowSkipped'
  BY <1>7, TypeOK, PageInHand, NoRowSkipped DEF TypeOK, NoRowSkipped, Return, Close, table,
     generator
<1>8. ASSUME NEW s \in Streams, RecheckFails(s)
      PROVE  NoRowSkipped'
  BY <1>8, TypeOK, PageInHand, NoRowSkipped DEF TypeOK, NoRowSkipped, RecheckFails, Close, table,
     generator
<1>9. ASSUME NEW s \in Streams, Query(s)
      PROVE  NoRowSkipped'
  BY <1>9, TypeOK, PageInHand, NoRowSkipped DEF TypeOK, NoRowSkipped, Query, table, generator
<1>10. ASSUME NEW s \in Streams, QueryFails(s)
      PROVE  NoRowSkipped'
  BY <1>10, TypeOK, PageInHand, NoRowSkipped DEF TypeOK, NoRowSkipped, QueryFails, table, generator
<1>11. ASSUME NEW s \in Streams, Send(s)
      PROVE  NoRowSkipped'
  <2>1. /\ last_id[s] \in 0 .. logged /\ rows[s] \in SUBSET (1 .. logged)
        /\ logged \in Nat
    BY TypeOK DEF TypeOK
  <2> DEFINE last == Newest(last_id[s], rows[s])
  <2>2. last \in rows[s] \cup {last_id[s]} /\ \A x \in rows[s] \cup {last_id[s]} : x <= last
    BY <2>1, NewestIsLast
  <2>3. last \in 0 .. logged
    BY <2>1, <2>2
  <2>4. last_id' = [last_id EXCEPT ![s] = last] /\ delivered' = [delivered EXCEPT ![s] = delivered[s] \cup rows[s]]
    BY <1>11 DEF Send
  <2>5. delivered[s] \in SUBSET (1 .. logged)
    BY TypeOK DEF TypeOK
  <2> HIDE DEF last
  <2>6. pc[s] = "send" /\ audit_events' = audit_events /\ pc' = [pc EXCEPT ![s] = "loop"]
    BY <1>11 DEF Send, table
  <2>7. ASSUME NEW id \in audit_events, id <= last
        PROVE  id \in delivered[s] \cup rows[s]
    <3>1. id \in 1 .. logged
      BY TypeOK DEF TypeOK
    <3>2. CASE id <= last_id[s]
      BY <2>6, <3>2, NoRowSkipped DEF NoRowSkipped
    <3>3. CASE last_id[s] < id
      BY <2>1, <2>2, <2>6, <2>7, <3>1, <3>3, PageInHand DEF PageInHand
    <3> QED BY <2>1, <3>1, <3>2, <3>3
  <2> QED BY <2>4, <2>6, <2>7, TypeOK, NoRowSkipped DEF TypeOK, NoRowSkipped
<1>12. ASSUME NEW s \in Streams, Disconnect(s)
      PROVE  NoRowSkipped'
  BY <1>12, TypeOK, PageInHand, NoRowSkipped DEF TypeOK, NoRowSkipped, Disconnect, Close, table,
     generator
<1>13. CASE UNCHANGED vars
  BY <1>13, TypeOK, PageInHand, NoRowSkipped DEF TypeOK, NoRowSkipped, vars, table, generator
<1> QED BY <1>1, <1>2, <1>3, <1>4, <1>5, <1>6, <1>7,
           <1>8, <1>9, <1>10, <1>11, <1>12, <1>13
       DEF Next, Generate

(* A session that is lost stays lost, and the recheck ends its stream. *)
LEMMA OverdueInductive ==
  ASSUME TypeOK, OnceOverdue, [Next]_vars
  PROVE  OnceOverdue'
<1>1. ASSUME Tick
      PROVE  OnceOverdue'
  BY <1>1, TypeOK, OnceOverdue DEF TypeOK, OnceOverdue, Lost, Expired, Tick, table, generator
<1>2. ASSUME Log
      PROVE  OnceOverdue'
  BY <1>2, TypeOK, OnceOverdue DEF TypeOK, OnceOverdue, Lost, Expired, Log, table, generator
<1>3. ASSUME Revoke
      PROVE  OnceOverdue'
  BY <1>3, TypeOK, OnceOverdue DEF TypeOK, OnceOverdue, Lost, Expired, Revoke, table, generator
<1>4. ASSUME NEW old \in SUBSET audit_events, Purge(old)
      PROVE  OnceOverdue'
  BY <1>4, TypeOK, OnceOverdue DEF TypeOK, OnceOverdue, Lost, Expired, Purge, table, generator
<1>5. ASSUME NEW s \in Streams, NEW t \in 0 .. now, Open(s, t)
      PROVE  OnceOverdue'
  BY <1>5, TypeOK, OnceOverdue DEF TypeOK, OnceOverdue, Lost, Expired, Open, table, generator
<1>6. ASSUME NEW s \in Streams, Recheck(s)
      PROVE  OnceOverdue'
  BY <1>6, TypeOK, OnceOverdue DEF TypeOK, OnceOverdue, Lost, Expired, Recheck, table, generator
<1>7. ASSUME NEW s \in Streams, Return(s)
      PROVE  OnceOverdue'
  BY <1>7, TypeOK, OnceOverdue DEF TypeOK, OnceOverdue, Lost, Expired, Return, Close, table,
     generator
<1>8. ASSUME NEW s \in Streams, RecheckFails(s)
      PROVE  OnceOverdue'
  BY <1>8, TypeOK, OnceOverdue DEF TypeOK, OnceOverdue, Lost, Expired, RecheckFails, Close, table,
     generator
<1>9. ASSUME NEW s \in Streams, Query(s)
      PROVE  OnceOverdue'
  BY <1>9, TypeOK, OnceOverdue DEF TypeOK, OnceOverdue, Lost, Expired, Query, table, generator
<1>10. ASSUME NEW s \in Streams, QueryFails(s)
      PROVE  OnceOverdue'
  BY <1>10, TypeOK, OnceOverdue DEF TypeOK, OnceOverdue, Lost, Expired, QueryFails, table, generator
<1>11. ASSUME NEW s \in Streams, Send(s)
      PROVE  OnceOverdue'
  BY <1>11, TypeOK, OnceOverdue DEF TypeOK, OnceOverdue, Lost, Expired, Send, table, generator
<1>12. ASSUME NEW s \in Streams, Disconnect(s)
      PROVE  OnceOverdue'
  BY <1>12, TypeOK, OnceOverdue DEF TypeOK, OnceOverdue, Lost, Expired, Disconnect, Close, table,
     generator
<1>13. CASE UNCHANGED vars
  BY <1>13, TypeOK, OnceOverdue DEF TypeOK, OnceOverdue, Lost, Expired, vars, table, generator
<1> QED BY <1>1, <1>2, <1>3, <1>4, <1>5, <1>6, <1>7,
           <1>8, <1>9, <1>10, <1>11, <1>12, <1>13
       DEF Next, Generate

-----------------------------------------------------------------------------
(* The invariant holds in every reachable state.                           *)
THEOREM InvariantHolds == Spec => []IInv
<1>1. Init => IInv
  BY DEF Init, IInv, TypeOK, PageInHand, SentInOrder, NoRowSkipped, OnceOverdue
<1>2. IInv /\ [Next]_vars => IInv'
  BY TypeInductive, PageInductive, OrderInductive, SkippedInductive, OverdueInductive DEF IInv
<1> QED BY <1>1, <1>2, PTL DEF Spec

(* A stream sends every row up to its last_id, once (event_stream of       *)
(* dashboard/routes.py): none is skipped and none repeated.                *)
THEOREM EveryRowIsSentOnce == Spec => EveryRowOnce
<1>1. IInv => NoRowSkipped
  BY DEF IInv
<1>2. IInv /\ [Next]_vars =>
        [\A s \in Streams : pc[s] = "send" /\ pc'[s] = "loop" =>
           \A id \in rows[s], sent \in delivered[s] : sent < id]_vars
  <2> SUFFICES ASSUME IInv, NEW s \in Streams, pc[s] = "send",
                      NEW id \in rows[s], NEW sent \in delivered[s]
               PROVE  sent < id
    OBVIOUS
  <2>1. sent <= last_id[s] /\ last_id[s] < id
    BY DEF IInv, SentInOrder, PageInHand
  <2>2. sent \in Nat /\ id \in Nat /\ last_id[s] \in Nat
    BY DEF IInv, TypeOK
  <2> QED BY <2>1, <2>2
<1> QED BY <1>1, <1>2, InvariantHolds, PTL DEF Spec, EveryRowOnce, NoRowRepeated

(* Once the user is revoked or the session has expired at most the page in *)
(* hand is sent.                                                           *)
THEOREM AtMostOnePageOverdue == Spec => []OnePageOverdue
<1>1. IInv => OnePageOverdue
  BY DEF IInv, OnceOverdue, OnePageOverdue
<1> QED BY <1>1, InvariantHolds, PTL
-----------------------------------------------------------------------------
(* The supervisor (module Supervisor), for components in any order.  While *)
(* launch() runs, what is left differs from what was seen; in a poll,      *)
(* nothing runs but the threads that any() has yet to look at.             *)
Others ==
  /\ left \in Seq(R!Components) /\ launched \in Seq(R!Components)
  /\ \A i, j \in DOMAIN left : left[i] = left[j] => i = j
  /\ \A i, j \in DOMAIN launched : launched[i] = launched[j] => i = j
  /\ \A i \in DOMAIN left : left[i] \notin skipped /\ left[i] \notin R!ToSet(launched)
  /\ skipped \cap R!ToSet(launched) = {}
Threads ==
  /\ main \in {"launch", "look", "asleep", "stopping", "exiting"} \cup R!Ends
  /\ requested \in SUBSET R!Components /\ skipped \in SUBSET requested
  /\ R!ToSet(launched) \subseteq requested
  /\ alive \subseteq R!ToSet(launched)
  /\ sweeper \in {"none", "check", "sweep", "wait"}
  /\ (sweeper # "none") <=> (correlator \in alive)
  /\ stop_event => asked /\ correlator \in R!ToSet(launched)
  /\ main \in {"stopping", "exiting"} => asked
Tails(s, t) ==
  \E k \in 1 .. Len(t) : Len(s) = Len(t) + 1 - k /\ \A n \in 1 .. Len(s) : s[n] = t[k + n - 1]
Polls ==
  /\ looking \in Seq(R!Components)
  /\ main = "look" => Tails(looking, launched) /\ alive \subseteq R!ToSet(looking)
  /\ main = "asleep" => launched # <<>>
  /\ main = "stopped" /\ ~asked => alive = {}
SupInv == Others /\ Threads /\ Polls

LEMMA HeadsAndTails ==
  ASSUME NEW S, NEW s \in Seq(S), s # <<>>
  PROVE  /\ Head(s) \in S /\ Head(s) = s[1] /\ Tail(s) \in Seq(S) /\ Len(s) \in Nat /\ Len(s) >= 1
         /\ Len(Tail(s)) = Len(s) - 1 /\ DOMAIN s = 1 .. Len(s)
         /\ DOMAIN Tail(s) = 1 .. Len(s) - 1
         /\ \A n \in 1 .. Len(s) - 1 : Tail(s)[n] = s[n + 1]
  OBVIOUS

LEMMA OneMore ==
  ASSUME NEW S, NEW s \in Seq(S), NEW x \in S
  PROVE  /\ Append(s, x) \in Seq(S) /\ DOMAIN Append(s, x) = 1 .. Len(s) + 1 /\ Len(s) \in Nat
         /\ DOMAIN s = 1 .. Len(s)
         /\ \A n \in 1 .. Len(s) : Append(s, x)[n] = s[n]
         /\ Append(s, x)[Len(s) + 1] = x
         /\ R!ToSet(Append(s, x)) = R!ToSet(s) \cup {x}
  BY DEF R!ToSet

LEMMA OthersStay ==
  ASSUME Others, left' = left, launched' = launched, skipped' = skipped
  PROVE  Others' /\ R!ToSet(launched)' = R!ToSet(launched)
<1>1. R!ToSet(launched)' = R!ToSet(launched)
  BY DEF R!ToSet
<1> QED
  BY <1>1, Zenon DEF Others

LEMMA InitSup == R!Init => SupInv
<1> SUFFICES ASSUME R!Init PROVE SupInv
  OBVIOUS
<1>1. MCOrder \in Seq(R!Components) /\ \A i, j \in DOMAIN MCOrder : MCOrder[i] = MCOrder[j] => i = j
  BY PartsAssumption DEF R!OrderAssumption, R!IsInjective, R!Components
<1>2. R!ToSet(launched) = {} /\ launched \in Seq(R!Components) /\ looking \in Seq(R!Components)
      /\ DOMAIN launched = {}
  BY DEF R!Init, R!ToSet
<1>3. left = MCOrder
  BY DEF R!Init
<1> QED
  BY <1>1, <1>2, <1>3, Zenon DEF R!Init, R!Ends, SupInv, Others, Threads, Polls

LEMMA PassSup ==
  ASSUME SupInv, left # <<>>, left' = Tail(left), launched' = launched,
         skipped' = skipped \/ skipped' = skipped \cup {Head(left)}
  PROVE  Others'
<1>1. left \in Seq(R!Components) /\ launched \in Seq(R!Components)
  BY DEF SupInv, Others
<1>2. /\ Head(left) \in R!Components /\ Head(left) = left[1] /\ Tail(left) \in Seq(R!Components)
      /\ Len(left) \in Nat /\ Len(left) >= 1 /\ DOMAIN left = 1 .. Len(left)
      /\ DOMAIN Tail(left) = 1 .. Len(left) - 1
      /\ \A n \in 1 .. Len(left) - 1 : Tail(left)[n] = left[n + 1]
  BY <1>1, HeadsAndTails
<1>3. \A n \in DOMAIN Tail(left) : n + 1 \in DOMAIN left /\ 1 \in DOMAIN left /\ n + 1 # 1
  BY <1>2
<1>4. \A i, j \in DOMAIN Tail(left) : Tail(left)[i] = Tail(left)[j] => i = j
  <2> SUFFICES ASSUME NEW i \in DOMAIN Tail(left), NEW j \in DOMAIN Tail(left),
                      Tail(left)[i] = Tail(left)[j]
               PROVE  i = j
    OBVIOUS
  <2>1. left[i + 1] = left[j + 1]
    BY <1>2
  <2>2. i + 1 = j + 1
    BY <1>3, <2>1 DEF SupInv, Others
  <2> QED
    BY <1>2, <2>2
<1>5. \A i \in DOMAIN Tail(left) : /\ Tail(left)[i] \notin skipped /\ Tail(left)[i] # Head(left)
                                   /\ Tail(left)[i] \notin R!ToSet(launched)
  BY <1>2, <1>3 DEF SupInv, Others
<1>6. Head(left) \notin R!ToSet(launched)
  BY <1>2 DEF SupInv, Others
<1> QED
  BY <1>1, <1>2, <1>4, <1>5, <1>6 DEF SupInv, Others

LEMMA StartSup ==
  ASSUME SupInv, R!Start
  PROVE  SupInv'
<1>0. /\ left \in Seq(R!Components) /\ launched \in Seq(R!Components) /\ left # <<>>
      /\ Head(left) \in requested /\ main = "launch"
      /\ left' = Tail(left) /\ launched' = Append(launched, Head(left))
      /\ alive' = alive \cup {Head(left)}
      /\ sweeper' = IF Head(left) = correlator THEN "check" ELSE sweeper
      /\ UNCHANGED <<main, requested, skipped, looking, stop_event, asked>>
  BY DEF SupInv, Others, R!Start
<1>2. /\ Head(left) \in R!Components /\ Head(left) = left[1] /\ Tail(left) \in Seq(R!Components)
      /\ Len(left) \in Nat /\ Len(left) >= 1 /\ DOMAIN left = 1 .. Len(left)
      /\ DOMAIN Tail(left) = 1 .. Len(left) - 1
      /\ \A n \in 1 .. Len(left) - 1 : Tail(left)[n] = left[n + 1]
  BY <1>0, HeadsAndTails
<1>3. /\ launched' \in Seq(R!Components) /\ DOMAIN launched' = 1 .. Len(launched) + 1
      /\ Len(launched) \in Nat /\ DOMAIN launched = 1 .. Len(launched)
      /\ \A n \in 1 .. Len(launched) : launched'[n] = launched[n]
      /\ launched'[Len(launched) + 1] = Head(left)
      /\ R!ToSet(launched') = R!ToSet(launched) \cup {Head(left)}
  BY <1>0, <1>2, OneMore
<1>4. \A n \in DOMAIN Tail(left) : n + 1 \in DOMAIN left /\ 1 \in DOMAIN left /\ n + 1 # 1
  BY <1>2
<1>5. Others'
  <2>1. \A i, j \in DOMAIN left' : left'[i] = left'[j] => i = j
    <3> SUFFICES ASSUME NEW i \in DOMAIN Tail(left), NEW j \in DOMAIN Tail(left),
                        Tail(left)[i] = Tail(left)[j]
                 PROVE  i = j
      BY <1>0
    <3>1. left[i + 1] = left[j + 1]
      BY <1>2
    <3>2. i + 1 = j + 1
      BY <1>4, <3>1 DEF SupInv, Others
    <3> QED
      BY <1>2, <3>2
  <2>2. Head(left) \notin R!ToSet(launched) /\ Head(left) \notin skipped
    BY <1>2 DEF SupInv, Others
  <2>3. \A n \in DOMAIN launched : launched[n] # Head(left)
    BY <2>2 DEF R!ToSet
  <2>4. \A i, j \in DOMAIN launched' : launched'[i] = launched'[j] => i = j
    <3> SUFFICES ASSUME NEW i \in DOMAIN launched', NEW j \in DOMAIN launched',
                        launched'[i] = launched'[j]
                 PROVE  i = j
      OBVIOUS
    <3>1. (i \in DOMAIN launched \/ i = Len(launched) + 1) /\ (j \in DOMAIN launched \/ j = Len(launched) + 1)
      BY <1>3
    <3> QED
      BY <1>3, <2>3, <3>1 DEF SupInv, Others
  <2>5. \A i \in DOMAIN Tail(left) : /\ Tail(left)[i] \notin skipped /\ Tail(left)[i] # Head(left)
                                     /\ Tail(left)[i] \notin R!ToSet(launched)
    BY <1>2, <1>4 DEF SupInv, Others
  <2>6. skipped' \cap R!ToSet(launched') = {}
    BY <1>0, <1>3, <2>2 DEF SupInv, Others
  <2> QED
    BY <1>0, <1>2, <1>3, <2>1, <2>4, <2>5, <2>6 DEF Others
<1>6. R!ToSet(launched)' = R!ToSet(launched')
  OBVIOUS
<1>7. Threads'
  BY <1>0, <1>3 DEF SupInv, Threads, R!Ends, R!ToSet
<1>8. Polls'
  BY <1>0 DEF SupInv, Polls
<1> QED
  BY <1>5, <1>7, <1>8 DEF SupInv

LEMMA LaunchSup ==
  ASSUME SupInv, R!Launch
  PROVE  SupInv'
<1>1. CASE R!PassOver \/ R!Skip
  <2>1. Others'
    BY <1>1, PassSup DEF R!PassOver, R!Skip
  <2>2. /\ UNCHANGED <<main, requested, launched, looking, alive, stop_event, sweeper, asked>>
        /\ skipped' \in SUBSET requested
    BY <1>1 DEF R!PassOver, R!Skip, R!threads, SupInv, Threads
  <2> QED
    BY <2>1, <2>2 DEF SupInv, Threads, Polls, R!ToSet
<1>2. CASE R!Start
  BY <1>2, StartSup
<1>3. CASE R!StartRaises
  BY <1>3 DEF R!StartRaises, R!report, R!threads, R!Ends, SupInv, Others, Threads, Polls, R!ToSet
<1>4. CASE R!Launched
  <2>1. /\ UNCHANGED <<requested, left, launched, skipped, alive, stop_event, sweeper, asked>>
        /\ looking' = launched /\ main' = IF launched = <<>> THEN "nothing started" ELSE "look"
    BY <1>4 DEF R!Launched, R!report, R!threads
  <2>2. launched \in Seq(R!Components)
    BY DEF SupInv, Others
  <2>3. launched # <<>> => Tails(launched, launched)
    <3> SUFFICES ASSUME launched # <<>> PROVE Tails(launched, launched)
      OBVIOUS
    <3>1. Len(launched) \in Nat /\ Len(launched) >= 1
      BY <2>2, HeadsAndTails
    <3>2. 1 \in 1 .. Len(launched) /\ Len(launched) = Len(launched) + 1 - 1
          /\ \A n \in 1 .. Len(launched) : 1 + n - 1 = n
      BY <3>1
    <3> QED
      BY <3>2 DEF Tails
  <2>4. Polls'
    BY <2>1, <2>2, <2>3 DEF SupInv, Threads, Polls
  <2>5. Others' /\ Threads'
    <3>1. Others' /\ R!ToSet(launched)' = R!ToSet(launched)
      BY <2>1, OthersStay DEF SupInv
    <3> QED
      BY <2>1, <3>1 DEF SupInv, Threads, R!Ends
  <2> QED
    BY <2>4, <2>5 DEF SupInv
<1> QED
  BY <1>1, <1>2, <1>3, <1>4 DEF R!Launch

LEMMA PollSup ==
  ASSUME SupInv, R!Look \/ R!Wake
  PROVE  SupInv'
<1>0. looking \in Seq(R!Components) /\ launched \in Seq(R!Components)
  BY DEF SupInv, Polls, Others
<1>1. CASE R!Look
  <2>1. /\ UNCHANGED <<requested, left, launched, skipped, alive, stop_event, sweeper, asked>>
        /\ main = "look" /\ looking # <<>>
        /\ IF Head(looking) \in alive
             THEN main' = "asleep" /\ looking' = looking
             ELSE /\ looking' = Tail(looking)
                  /\ main' = IF Tail(looking) = <<>> THEN "stopped" ELSE "look"
    BY <1>1 DEF R!Look, R!report, R!threads
  <2>2. Others' /\ Threads'
    <3>1. Others' /\ R!ToSet(launched)' = R!ToSet(launched)
      BY <2>1, OthersStay DEF SupInv
    <3> QED
      BY <2>1, <3>1 DEF SupInv, Threads, R!Ends
  <2>3. Tails(looking, launched) /\ alive \subseteq R!ToSet(looking)
    BY <2>1 DEF SupInv, Polls
  <2>4. launched # <<>>
    <3>1. PICK k \in 1 .. Len(launched) : TRUE
      BY <2>3 DEF Tails
    <3> QED
      BY <1>0
  <2>5. CASE Head(looking) \in alive
    BY <1>0, <2>1, <2>4, <2>5 DEF SupInv, Polls, Others, Threads, R!ToSet, R!Ends
  <2>6. CASE Head(looking) \notin alive
    <3>1. /\ Head(looking) = looking[1] /\ Tail(looking) \in Seq(R!Components)
          /\ Len(looking) \in Nat /\ Len(looking) >= 1 /\ DOMAIN looking = 1 .. Len(looking)
          /\ Len(Tail(looking)) = Len(looking) - 1
          /\ DOMAIN Tail(looking) = 1 .. Len(looking) - 1
          /\ \A n \in 1 .. Len(looking) - 1 : Tail(looking)[n] = looking[n + 1]
      BY <1>0, <2>1, HeadsAndTails
    <3>2. alive \subseteq R!ToSet(Tail(looking))
      <4> SUFFICES ASSUME NEW c \in alive PROVE c \in R!ToSet(Tail(looking))
        OBVIOUS
      <4>1. PICK n \in DOMAIN looking : c = looking[n]
        BY <2>3 DEF R!ToSet
      <4>2. n # 1
        BY <2>6, <3>1, <4>1
      <4>3. n - 1 \in DOMAIN Tail(looking) /\ (n - 1) + 1 = n
        BY <3>1, <4>1, <4>2
      <4>4. Tail(looking)[n - 1] = c
        BY <3>1, <4>1, <4>3
      <4> QED
        BY <4>3, <4>4 DEF R!ToSet
    <3>3. Tail(looking) = <<>> => alive = {}
      <4> SUFFICES ASSUME Tail(looking) = <<>> PROVE R!ToSet(Tail(looking)) = {}
        BY <3>2
      <4> QED
        BY DEF R!ToSet
    <3>4. Tail(looking) # <<>> => Tails(Tail(looking), launched)
      <4> SUFFICES ASSUME Tail(looking) # <<>> PROVE Tails(Tail(looking), launched)
        OBVIOUS
      <4>0. Len(Tail(looking)) >= 1 /\ Len(launched) \in Nat
        BY <1>0, <3>1, HeadsAndTails
      <4>1. PICK k \in 1 .. Len(launched) :
              /\ Len(looking) = Len(launched) + 1 - k
              /\ \A n \in 1 .. Len(looking) : looking[n] = launched[k + n - 1]
        BY <2>3 DEF Tails
      <4>2. k + 1 \in 1 .. Len(launched) /\ Len(Tail(looking)) = Len(launched) + 1 - (k + 1)
        BY <3>1, <4>0, <4>1
      <4>3. ASSUME NEW n \in 1 .. Len(Tail(looking))
            PROVE  Tail(looking)[n] = launched[(k + 1) + n - 1]
        <5>1. n \in 1 .. Len(looking) - 1 /\ n + 1 \in 1 .. Len(looking)
              /\ k + (n + 1) - 1 = (k + 1) + n - 1
          BY <3>1, <4>0, <4>1
        <5> QED
          BY <3>1, <4>1, <5>1
      <4> QED
        BY <4>2, <4>3 DEF Tails
    <3> QED
      BY <2>1, <2>2, <2>6, <3>1, <3>2, <3>3, <3>4 DEF SupInv, Polls
  <2> QED
    BY <2>5, <2>6
<1>2. CASE R!Wake
  <2>1. /\ UNCHANGED <<requested, left, launched, skipped, alive, stop_event, sweeper, asked>>
        /\ looking' = launched /\ main' = "look" /\ main = "asleep"
    BY <1>2 DEF R!Wake, R!report, R!threads
  <2>2. Others' /\ Threads'
    <3>1. Others' /\ R!ToSet(launched)' = R!ToSet(launched)
      BY <2>1, OthersStay DEF SupInv
    <3> QED
      BY <2>1, <3>1 DEF SupInv, Threads, R!Ends
  <2>3. Tails(launched, launched)
    <3>0. launched # <<>>
      BY <2>1 DEF SupInv, Polls
    <3>1. Len(launched) \in Nat /\ Len(launched) >= 1
      BY <1>0, <3>0, HeadsAndTails
    <3>2. 1 \in 1 .. Len(launched) /\ Len(launched) = Len(launched) + 1 - 1
          /\ \A n \in 1 .. Len(launched) : 1 + n - 1 = n
      BY <3>1
    <3> QED
      BY <3>2 DEF Tails
  <2> QED
    BY <1>0, <2>1, <2>2, <2>3 DEF SupInv, Polls, Threads
<1> QED
  BY <1>1, <1>2

LEMMA RestSup ==
  ASSUME SupInv, \/ R!Interrupt \/ R!Stop \/ R!Exit \/ R!Loop
                 \/ \E c \in R!Components : R!ThreadEnds(c)
  PROVE  SupInv'
<1>0. Others' /\ UNCHANGED <<requested, left, launched, skipped, looking>>
      /\ R!ToSet(launched)' = R!ToSet(launched) /\ R!ToSet(looking)' = R!ToSet(looking)
  <2>1. UNCHANGED <<requested, left, launched, skipped, looking>>
    BY DEF R!Interrupt, R!Stop, R!Exit, R!Loop, R!CheckStop, R!SweepEnds, R!Waited, R!ThreadEnds,
           R!report
  <2>2. R!ToSet(looking)' = R!ToSet(looking)
    BY <2>1 DEF R!ToSet
  <2> QED
    BY <2>1, <2>2, OthersStay DEF SupInv
<1>p. Tails(looking, launched)' = Tails(looking, launched)
  BY <1>0, Zenon DEF Tails
<1>1. CASE R!Interrupt
  BY <1>0, <1>1, <1>p DEF R!Interrupt, R!threads, R!Running, R!Ends, SupInv, Threads, Polls
<1>2. CASE R!Stop
  BY <1>0, <1>2, <1>p DEF R!Stop, R!Ends, SupInv, Threads, Polls
<1>3. CASE R!Exit
  BY <1>0, <1>3, <1>p DEF R!Exit, R!threads, R!Ends, SupInv, Threads, Polls
<1>4. ASSUME NEW c, R!ThreadEnds(c) PROVE SupInv'
  <2>1. /\ UNCHANGED <<main, requested, left, launched, skipped, looking, stop_event, sweeper, asked>>
        /\ alive' = alive \ {c} /\ c # correlator
    BY <1>4 DEF R!ThreadEnds, R!report
  <2> QED
    BY <1>0, <1>p, <2>1 DEF SupInv, Threads, Polls, R!Ends
<1>5. CASE R!CheckStop
  <2>1. /\ UNCHANGED <<main, requested, left, launched, skipped, looking, stop_event, asked>>
        /\ \/ sweeper' = "none" /\ alive' = alive \ {correlator}
           \/ sweeper = "check" /\ sweeper' = "sweep" /\ alive' = alive
    BY <1>5 DEF R!CheckStop, R!report
  <2> QED
    BY <1>0, <1>p, <2>1 DEF SupInv, Threads, Polls, R!Ends
<1>6. CASE R!SweepEnds \/ R!Waited
  <2>1. /\ UNCHANGED <<main, requested, left, launched, skipped, looking, alive, stop_event, asked>>
        /\ sweeper \in {"sweep", "wait"} /\ sweeper' \in {"wait", "check"}
    BY <1>6 DEF R!SweepEnds, R!Waited, R!report
  <2> QED
    BY <1>0, <1>p, <2>1 DEF SupInv, Threads, Polls, R!Ends
<1> QED
  BY <1>1, <1>2, <1>3, <1>4, <1>5, <1>6 DEF R!Loop

LEMMA NextSup == SupInv /\ [MCNext]_all => SupInv'
<1> SUFFICES ASSUME SupInv, [MCNext]_all PROVE SupInv'
  OBVIOUS
<1>1. CASE UNCHANGED supervisor
  <2>1. UNCHANGED <<main, requested, left, launched, skipped, looking, alive, stop_event, sweeper, asked>>
    BY <1>1 DEF supervisor
  <2>2. Others' /\ R!ToSet(launched)' = R!ToSet(launched)
    BY <2>1, OthersStay DEF SupInv
  <2>3. Tails(looking, launched)' = Tails(looking, launched) /\ R!ToSet(looking)' = R!ToSet(looking)
    BY <2>1, Zenon DEF Tails, R!ToSet
  <2> QED
    BY <2>1, <2>2, <2>3 DEF SupInv, Threads, Polls, R!Ends
<1>2. UNCHANGED supervisor \/ R!Next
  BY DEF MCNext, Streaming, Supervising, Feeding, all
<1>3. CASE R!Next
  BY <1>3, LaunchSup, PollSup, RestSup DEF R!Next
<1> QED
  BY <1>1, <1>2, <1>3

(* The threads a poll has not looked at yet end the ones that were started. *)
LEMMA TailsAreSuffixes ==
  ASSUME NEW S, NEW s \in Seq(S), NEW t \in Seq(S), Tails(s, t)
  PROVE  s # <<>> /\ R!IsSuffix(s, t)
<1>1. PICK k \in 1 .. Len(t) :
        /\ Len(s) = Len(t) + 1 - k
        /\ \A n \in 1 .. Len(s) : s[n] = t[k + n - 1]
  BY DEF Tails
<1>2. Len(s) \in Nat /\ Len(t) \in Nat /\ Len(s) >= 1 /\ Len(s) <= Len(t)
  BY <1>1
<1>3. PICK u, v : u = R!Reverse(s) /\ v = R!Reverse(t)
  OBVIOUS
<1>4. /\ u \in Seq(S) /\ Len(u) = Len(s)
      /\ \A n \in 1 .. Len(s) : u[n] = s[Len(s) - n + 1]
  BY <1>2, <1>3 DEF R!Reverse
<1>5. /\ v \in Seq(S) /\ Len(v) = Len(t)
      /\ \A n \in 1 .. Len(t) : v[n] = t[Len(t) - n + 1]
  BY <1>2, <1>3 DEF R!Reverse
<1>6. ASSUME NEW n \in 1 .. Len(s) PROVE u[n] = v[n]
  <2>1. Len(s) - n + 1 \in 1 .. Len(s) /\ k + (Len(s) - n + 1) - 1 = Len(t) - n + 1 /\ n \in 1 .. Len(t)
    BY <1>1, <1>2
  <2>2. s[Len(s) - n + 1] = t[Len(t) - n + 1]
    BY <1>1, <2>1
  <2> QED
    BY <1>4, <1>5, <2>1, <2>2
<1>7. SubSeq(u, 1, Len(u)) = SubSeq(v, 1, Len(u))
  BY <1>2, <1>4, <1>5, <1>6
<1>8. R!IsPrefix(u, v)
  BY <1>2, <1>4, <1>5, <1>7 DEF R!IsPrefix
<1> QED
  BY <1>2, <1>3, <1>8 DEF R!IsSuffix

(* Nobody's Ctrl+C, nobody's exception: supervise() returns only when every *)
(* component has stopped, although it looks at them one by one while they   *)
(* run; and the correlator's thread, its loop and its event agree on how    *)
(* far it is (supervise() of ids/orchestrator.py, _loop of ids/services.py).*)
THEOREM ReturnsWhenStopped == MCSpec => [](R!TypeOK /\ R!ReturnsWhenAllStopped)
<1>1. MCInit => SupInv
  BY InitSup DEF MCInit
<1>2. SupInv => R!TypeOK /\ R!ReturnsWhenAllStopped
  <2> SUFFICES ASSUME SupInv PROVE R!TypeOK /\ R!ReturnsWhenAllStopped
    OBVIOUS
  <2>1. main = "look" => looking # <<>> /\ R!IsSuffix(looking, launched)
    BY TailsAreSuffixes DEF SupInv, Others, Polls
  <2>2. R!IsInjective(launched) /\ alive \subseteq R!ToSet(launched) \ skipped
    BY DEF SupInv, Others, Threads, R!IsInjective
  <2>3. R!TypeOK
    BY <2>1, <2>2 DEF SupInv, Threads, R!TypeOK
  <2> QED
    BY <2>3 DEF SupInv, Polls, R!ReturnsWhenAllStopped
<1> QED
  BY <1>1, <1>2, NextSup, PTL DEF MCSpec

-----------------------------------------------------------------------------
(* The feed (module LiveFeed): what is on the wire was sent by the         *)
(* generator, and where no connection is open none sends.                  *)
Sent == \A n \in DOMAIN wire : wire[n] <= sender.last_id
Quiet == source # "open" => sender.pages = 0 \/ ~sender.entitled
FeedInv == F!TypeOK /\ F!NoGap /\ Sent /\ Quiet

Ascends(s) == \A m, n \in DOMAIN s : m < n => s[m] < s[n]

(* A set of ids can be put in order, the last of them at the end.          *)
LEMMA OrdersExist ==
  ASSUME NEW top \in Nat
  PROVE  \A n \in Nat : \A S \in SUBSET (1 .. top) :
           Cardinality(S) = n => \E s \in [1 .. n -> S] : Ascends(s)
<1> DEFINE Ordered(n) == \A S \in SUBSET (1 .. top) :
                           Cardinality(S) = n => \E s \in [1 .. n -> S] : Ascends(s)
           Bad == {n \in Nat : ~Ordered(n)}
           Less == {ss \in Nat \X Nat : ss[1] < ss[2]}
<1>0. IsFiniteSet(1 .. top)
  BY FS_Interval
<1>1. Ordered(0)
  <2> SUFFICES ASSUME NEW S \in SUBSET (1 .. top) PROVE \E s \in [1 .. 0 -> S] : Ascends(s)
    OBVIOUS
  <2>1. 1 .. 0 = {}
    OBVIOUS
  <2>2. [x \in {} |-> 0] \in [{} -> S] /\ DOMAIN [x \in {} |-> 0] = {}
    OBVIOUS
  <2>3. Ascends([x \in {} |-> 0])
    BY <2>2 DEF Ascends
  <2> QED BY <2>1, <2>2, <2>3
<1>2. ASSUME NEW n \in Nat, n # 0, Ordered(n - 1) PROVE Ordered(n)
  <2> SUFFICES ASSUME NEW S \in SUBSET (1 .. top), Cardinality(S) = n
               PROVE  \E s \in [1 .. n -> S] : Ascends(s)
    OBVIOUS
  <2>1. IsFiniteSet(S)
    BY <1>0, FS_Subset
  <2>2. PICK x \in S : TRUE
    BY <1>2, <2>1, FS_EmptySet
  <2>3. PICK last \in S : \A y \in S : y <= last
    <3>1. x \in 0 .. top /\ S \cup {x} = S
      BY <2>2
    <3>2. Newest(x, S) \in S \cup {x} /\ \A y \in S \cup {x} : y <= Newest(x, S)
      BY <3>1, NewestIsLast
    <3> QED BY <3>1, <3>2
  <2>4. Cardinality(S \ {last}) = n - 1 /\ S \ {last} \in SUBSET (1 .. top)
    BY <2>1, <2>3, FS_RemoveElement
  <2>5. PICK t \in [1 .. n - 1 -> S \ {last}] : Ascends(t)
    BY <1>2, <2>4
  <2> DEFINE s == [m \in 1 .. n |-> IF m = n THEN last ELSE t[m]]
  <2>6. \A m \in 1 .. n : m # n => m \in 1 .. n - 1
    BY <1>2
  <2>7. s \in [1 .. n -> S]
    BY <2>3, <2>5, <2>6
  <2>8. ASSUME NEW a \in 1 .. n, NEW b \in 1 .. n, a < b PROVE s[a] < s[b]
    <3>1. a # n /\ a \in 1 .. n - 1
      BY <1>2, <2>8
    <3>2. s[a] = t[a] /\ t[a] \in S /\ t[a] # last
      BY <2>5, <3>1
    <3>3. CASE b = n
      <4>1. s[b] = last
        BY <3>3
      <4>2. \A y \in S : y \in Int
        OBVIOUS
      <4>3. t[a] \in Int /\ last \in Int /\ t[a] <= last
        BY <2>3, <3>2, <4>2
      <4> QED BY <3>2, <4>1, <4>3
    <3>4. CASE b # n
      <4>1. b \in DOMAIN t /\ a \in DOMAIN t /\ s[b] = t[b]
        BY <2>5, <2>6, <3>1, <3>4
      <4> QED BY <2>5, <2>8, <3>2, <4>1 DEF Ascends
    <3> QED BY <3>3, <3>4
  <2>9. Ascends(s)
    <3>1. DOMAIN s = 1 .. n
      OBVIOUS
    <3> HIDE DEF s
    <3> QED BY <2>8, <3>1 DEF Ascends
  <2> HIDE DEF s
  <2> QED BY <2>7, <2>9
<1> HIDE DEF Ordered
<1>3. Bad = {}
  <2> SUFFICES ASSUME Bad # {} PROVE FALSE
    OBVIOUS
  <2>1. Bad \in SUBSET Nat
    OBVIOUS
  <2>2. PICK n \in Bad : \A k \in Bad : ~(<<k, n>> \in OpToRel(<, Nat))
    <3> HIDE DEF Bad
    <3> QED BY <2>1, WFMin, NatLessThanWellFounded
  <2>3. n \in Nat /\ ~Ordered(n) /\ n # 0
    BY <1>1
  <2>4. n - 1 \in Nat /\ ~Ordered(n - 1)
    BY <1>2, <2>3
  <2>5. n - 1 \in Bad
    BY <2>4
  <2>6. ~(<<n - 1, n>> \in Less)
    <3>1. Less = OpToRel(<, Nat)
      BY Zenon DEF OpToRel
    <3> QED BY <2>2, <2>5, <3>1, Zenon
  <2> QED BY <2>3, <2>4, <2>6
<1>4. \A n \in Nat : Ordered(n)
  BY <1>3
<1> QED BY <1>4 DEF Ordered

LEMMA FeedCardinality == \A S : F!Cardinality(S) = Cardinality(S)
  BY DEF F!Cardinality, Cardinality

(* ORDER BY id: all of the rows, each once, in order.                      *)
LEMMA RowsById ==
  ASSUME NEW top \in Nat, NEW S \in SUBSET (1 .. top)
  PROVE  /\ F!ById(S) \in Seq(S) /\ Ascends(F!ById(S))
         /\ {F!ById(S)[n] : n \in DOMAIN F!ById(S)} = S
<1>1. IsFiniteSet(S) /\ Cardinality(S) \in Nat
  <2>1. IsFiniteSet(1 .. top)
    BY FS_Interval
  <2>2. IsFiniteSet(S)
    BY <2>1, FS_Subset
  <2> QED BY <2>2, FS_CardinalityType
<1>2. PICK n \in Nat : n = Cardinality(S)
  BY <1>1
<1>3. \E s \in [1 .. n -> S] : \A a, b \in DOMAIN s : a < b => s[a] < s[b]
  BY <1>2, OrdersExist DEF Ascends
<1>4. F!ById(S) = CHOOSE s \in [1 .. n -> S] : \A a, b \in DOMAIN s : a < b => s[a] < s[b]
  BY <1>2, FeedCardinality DEF F!ById
<1>5. PICK s : s = F!ById(S)
  OBVIOUS
<1>6. s \in [1 .. n -> S] /\ Ascends(s)
  BY <1>3, <1>4, <1>5 DEF Ascends
<1>7. s \in Injection(1 .. n, S)
  <2>1. ASSUME NEW a \in 1 .. n, NEW b \in 1 .. n, s[a] = s[b] PROVE a = b
    <3>1. \A y \in S : y \in Int
      OBVIOUS
    <3>0. s[a] \in S /\ s[b] \in S
      BY <1>6
    <3>2. s[a] \in Int /\ s[b] \in Int /\ ~(s[a] < s[b]) /\ ~(s[b] < s[a])
      <4>1. PICK u : u = s[a]
        OBVIOUS
      <4>2. u \in S /\ u = s[b]
        BY <2>1, <3>0, <4>1
      <4>3. u \in Int
        BY <3>1, <4>2
      <4>4. ~(u < u)
        BY <4>3
      <4> QED BY <4>1, <4>2, <4>3, <4>4
    <3>3. DOMAIN s = 1 .. n
      BY <1>6
    <3>4. ~(a < b) /\ ~(b < a)
      BY <1>6, <3>2, <3>3 DEF Ascends
    <3>5. a \in Int /\ b \in Int
      OBVIOUS
    <3> QED BY <3>4, <3>5
  <2> QED BY <1>6, <2>1 DEF Injection, IsInjective
<1>8. Cardinality(1 .. n) = n
  BY FS_Interval
<1>9. s \in Surjection(1 .. n, S)
  BY <1>1, <1>2, <1>7, <1>8, FS_Injection
<1>10. {s[m] : m \in DOMAIN s} = S
  BY <1>6, <1>9 DEF Surjection
<1>11. s \in Seq(S)
  BY <1>6
<1> QED BY <1>5, <1>6, <1>10, <1>11

(* The page that is read is new, and leaves out no row up to its last.     *)
LEMMA FeedPages ==
  ASSUME FeedInv
  PROVE  LET last == F!Max(F!Page \cup {sender.last_id})
         IN  /\ F!Page \in SUBSET (1 .. fed) /\ last \in 0 .. fed /\ last >= sender.last_id
             /\ \A id \in F!Page : sender.last_id < id /\ id <= last
             /\ \A id \in feed : sender.last_id < id /\ id <= last => id \in F!Page
<1> DEFINE low == sender.last_id
           Rows == F!Page
           last == F!Max(Rows \cup {low})
           Before(id) == {x \in feed : low < x /\ x < id}
<1>1. fed \in Nat /\ feed \in SUBSET (1 .. fed) /\ low \in 0 .. fed /\ low \in Nat
  BY PartsAssumption DEF FeedInv, F!TypeOK, F!FeedAssumption
<1>2. Rows = {id \in feed : id > low /\ Cardinality(Before(id)) < FeedPage}
  BY FeedCardinality DEF F!Page
<1>3. Rows \in SUBSET (1 .. fed) /\ \A id \in Rows : low < id
  BY <1>1, <1>2
<1> HIDE DEF low, Rows
<1>4. last \in Rows \cup {low} /\ \A x \in Rows \cup {low} : x <= last
  <2>0. /\ Newest(low, Rows) \in Rows \cup {low}
        /\ \A x \in Rows \cup {low} : x <= Newest(low, Rows)
    BY <1>1, <1>3, NewestIsLast
  <2>1. PICK m \in Rows \cup {low} : \A x \in Rows \cup {low} : x <= m
    BY <2>0
  <2>2. \A x \in Rows \cup {low} : m >= x
    <3>1. \A x \in Rows \cup {low} : x \in Int
      BY <1>1, <1>3
    <3> QED BY <2>1, <3>1
  <2>3. last \in Rows \cup {low} /\ \A x \in Rows \cup {low} : last >= x
    BY <2>2 DEF F!Max
  <2>4. \A x \in Rows \cup {low} : x \in Int
    BY <1>1, <1>3
  <2> HIDE DEF last
  <2> QED BY <2>3, <2>4
<1> HIDE DEF last
<1>5. last \in 0 .. fed /\ last >= low
  <2>1. \A x \in Rows : x \in 0 .. fed
    BY <1>1, <1>3
  <2> QED BY <1>1, <1>4, <2>1
<1>6. ASSUME NEW id \in feed, low < id, id <= last PROVE id \in Rows
  <2>1. last \in Rows
    BY <1>1, <1>4, <1>6
  <2>2. last \in feed /\ Cardinality(Before(last)) < FeedPage
    BY <1>2, <2>1
  <2>3. Before(last) \in SUBSET (1 .. fed)
    BY <1>1
  <2>4. Before(id) \in SUBSET Before(last)
    <3>1. \A x \in feed : x < id => x < last
      <4>1. id \in Int /\ last \in Int /\ \A x \in feed : x \in Int
        BY <1>1, <1>5
      <4> QED BY <1>6, <4>1
    <3> QED BY <3>1
  <2> HIDE DEF Before
  <2>5. IsFiniteSet(Before(last))
    <3>1. IsFiniteSet(1 .. fed)
      BY <1>1, FS_Interval
    <3> QED BY <2>3, <3>1, FS_Subset
  <2>6. /\ Cardinality(Before(id)) <= Cardinality(Before(last))
        /\ Cardinality(Before(id)) \in Nat /\ Cardinality(Before(last)) \in Nat
    BY <2>4, <2>5, FS_Subset, FS_CardinalityType
  <2>7. Cardinality(Before(id)) < FeedPage
    BY <2>2, <2>6, PartsAssumption DEF F!FeedAssumption
  <2>8. id > low
    BY <1>1, <1>6
  <2> QED BY <1>2, <2>7, <2>8
<1>7. \A id \in Rows : low < id /\ id <= last
  BY <1>3, <1>4
<1> QED BY <1>3, <1>5, <1>6, <1>7 DEF low, Rows, last

(* What a sequence, and what is after it, has.                             *)
LEMMA Joints ==
  ASSUME NEW S, NEW s \in Seq(S), NEW t \in Seq(S)
  PROVE  /\ s \o t \in Seq(S) /\ Len(s) \in Nat /\ Len(t) \in Nat
         /\ DOMAIN s = 1 .. Len(s) /\ DOMAIN t = 1 .. Len(t)
         /\ DOMAIN (s \o t) = 1 .. Len(s) + Len(t)
         /\ \A n \in 1 .. Len(s) : (s \o t)[n] = s[n]
         /\ \A n \in 1 .. Len(s) + Len(t) :
              n > Len(s) => (s \o t)[n] = t[n - Len(s)] /\ n - Len(s) \in 1 .. Len(t)
         /\ \A n \in 1 .. Len(t) : (s \o t)[Len(s) + n] = t[n] /\ Len(s) + n \in 1 .. Len(s) + Len(t)
<1>1. Len(s) \in Nat /\ Len(t) \in Nat
  OBVIOUS
<1>2. /\ \A n \in 1 .. Len(s) + Len(t) : n > Len(s) => n - Len(s) \in 1 .. Len(t)
      /\ \A n \in 1 .. Len(t) : /\ Len(s) + n \in 1 .. Len(s) + Len(t)
                                /\ Len(s) + n > Len(s) /\ Len(s) + n - Len(s) = n
  BY <1>1
<1>3. \A n \in 1 .. Len(s) + Len(t) :
        (s \o t)[n] = IF n <= Len(s) THEN s[n] ELSE t[n - Len(s)]
  OBVIOUS
<1>4. \A n \in 1 .. Len(s) : n \in 1 .. Len(s) + Len(t) /\ n <= Len(s)
  BY <1>1
<1> QED BY <1>1, <1>2, <1>3, <1>4

LEMMA MoreToDraw == ASSUME NEW S, NEW T, S \subseteq T, NEW s \in Seq(S) PROVE s \in Seq(T)
  OBVIOUS

(* A page that is sent goes behind what is on the wire.                    *)
LEMMA GenerateFeed ==
  ASSUME FeedInv, F!Generate
  PROVE  FeedInv'
<1> DEFINE Rows == F!Page
           low == sender.last_id
           last == F!Max(F!Page \cup {low})
<1>1. PICK sheet : sheet = F!ById(Rows)
  OBVIOUS
<1>2. /\ sender.entitled /\ sender.pages > 0 /\ wire' = wire \o sheet
      /\ sender' = [sender EXCEPT !.last_id = last, !.pages = @ - 1]
      /\ UNCHANGED <<feed, fed, signed_in, source, badge, shown, breaks>>
  BY <1>1 DEF F!Generate, F!table, F!browser
<1>3. /\ fed \in 0 .. FeedIds /\ fed \in Nat /\ feed \in SUBSET (1 .. fed) /\ wire \in Seq(1 .. fed)
      /\ sender \in [last_id : 0 .. fed, pages : 0 .. MaxPages, entitled : BOOLEAN]
      /\ MaxPages \in Nat
  BY PartsAssumption DEF FeedInv, F!TypeOK, F!FeedAssumption
<1>4. /\ Rows \in SUBSET (1 .. fed) /\ last \in 0 .. fed /\ last >= low
      /\ \A id \in Rows : low < id /\ id <= last
      /\ \A id \in feed : low < id /\ id <= last => id \in Rows
  BY FeedPages
<1> HIDE DEF last
<1>5. /\ sheet \in Seq(Rows) /\ Ascends(sheet)
      /\ {sheet[n] : n \in DOMAIN sheet} = Rows
  <2>1. fed \in Nat /\ Rows \in SUBSET (1 .. fed)
    BY <1>3, <1>4
  <2>2. /\ F!ById(Rows) \in Seq(Rows) /\ Ascends(F!ById(Rows))
        /\ {F!ById(Rows)[n] : n \in DOMAIN F!ById(Rows)} = Rows
    BY <2>1, RowsById
  <2> QED BY <1>1, <2>2, Zenon
<1>6. sheet \in Seq(1 .. fed)
  BY <1>4, <1>5, MoreToDraw
<1>7. /\ sender'.last_id = last /\ sender'.pages = sender.pages - 1 /\ sender'.entitled = sender.entitled
      /\ sender' \in [last_id : 0 .. fed, pages : 0 .. MaxPages, entitled : BOOLEAN]
  <2>1. sender.pages - 1 \in 0 .. MaxPages
    BY <1>2, <1>3
  <2> QED BY <1>2, <1>3, <1>4, <2>1
<1>8. /\ wire' \in Seq(1 .. fed) /\ Len(wire) \in Nat /\ Len(sheet) \in Nat
      /\ DOMAIN wire = 1 .. Len(wire) /\ DOMAIN sheet = 1 .. Len(sheet)
      /\ DOMAIN wire' = 1 .. Len(wire) + Len(sheet)
      /\ \A n \in 1 .. Len(wire) : wire'[n] = wire[n]
      /\ \A n \in 1 .. Len(wire) + Len(sheet) :
           n > Len(wire) => wire'[n] = sheet[n - Len(wire)] /\ n - Len(wire) \in 1 .. Len(sheet)
      /\ \A n \in 1 .. Len(sheet) :
           wire'[Len(wire) + n] = sheet[n] /\ Len(wire) + n \in 1 .. Len(wire) + Len(sheet)
  <2>1. wire' = wire \o sheet
    BY <1>2
  <2>2. wire \in Seq(1 .. fed)
    BY <1>3
  <2> HIDE DEF Rows
  <2> QED BY <1>6, <2>1, <2>2, Joints
<1>9. \A n \in 1 .. Len(wire) : wire[n] \in Int /\ wire[n] <= low
  <2>1. \A n \in 1 .. Len(wire) : wire[n] \in 1 .. fed
    BY <1>3, <1>8
  <2>2. \A n \in 1 .. Len(wire) : wire[n] <= low
    BY <1>8 DEF FeedInv, Sent
  <2> QED BY <2>1, <2>2
<1>10. \A n \in 1 .. Len(sheet) : sheet[n] \in Int /\ low < sheet[n] /\ sheet[n] <= last
  <2>1. \A n \in 1 .. Len(sheet) : sheet[n] \in Rows
    BY <1>5, <1>8
  <2>2. \A id \in Rows : id \in Int
    BY <1>4
  <2> QED BY <1>4, <2>1, <2>2
<1>11. low \in Int /\ last \in Int
  BY <1>3, <1>4
<1>12. ASSUME NEW n \in DOMAIN wire' PROVE wire'[n] <= last
  <2>1. CASE n <= Len(wire)
    BY <1>4, <1>8, <1>9, <1>11, <2>1
  <2>2. CASE n > Len(wire)
    BY <1>8, <1>10, <2>2
  <2> QED BY <1>8, <2>1, <2>2
<1>13. ASSUME NEW m \in DOMAIN wire', NEW n \in DOMAIN wire', m < n PROVE wire'[m] < wire'[n]
  <2>1. m \in Int /\ n \in Int /\ m \in 1 .. Len(wire) + Len(sheet) /\ n \in 1 .. Len(wire) + Len(sheet)
    BY <1>8
  <2>2. CASE n <= Len(wire)
    <3>1. m \in DOMAIN wire /\ n \in DOMAIN wire /\ wire'[m] = wire[m] /\ wire'[n] = wire[n]
      BY <1>8, <1>13, <2>1, <2>2
    <3> QED BY <1>13, <3>1 DEF FeedInv, F!NoGap
  <2>3. CASE n > Len(wire) /\ m <= Len(wire)
    <3>1. wire'[m] = wire[m] /\ wire[m] \in Int /\ wire[m] <= low
      BY <1>8, <1>9, <2>1, <2>3
    <3>2. PICK k \in 1 .. Len(sheet) : wire'[n] = sheet[k]
      BY <1>8, <2>1, <2>3
    <3>3. sheet[k] \in Int /\ low < sheet[k]
      BY <1>10
    <3> QED BY <1>11, <3>1, <3>2, <3>3
  <2>4. CASE m > Len(wire)
    <3>1. n > Len(wire)
      BY <1>8, <1>13, <2>1, <2>4
    <3>2. /\ wire'[m] = sheet[m - Len(wire)] /\ m - Len(wire) \in DOMAIN sheet
          /\ wire'[n] = sheet[n - Len(wire)] /\ n - Len(wire) \in DOMAIN sheet
      BY <1>8, <2>1, <2>4, <3>1
    <3>3. m - Len(wire) < n - Len(wire)
      BY <1>8, <1>13, <2>1
    <3> QED BY <1>5, <3>2, <3>3 DEF Ascends
  <2> QED BY <1>8, <2>1, <2>2, <2>3, <2>4
<1>14. ASSUME source' = "open", NEW id \in feed', id <= last PROVE id \in shown' \cup F!ToSet(wire')
  <2>1. id \in feed /\ id \in Int /\ source = "open" /\ shown' = shown
    BY <1>2, <1>3, <1>14
  <2>2. CASE id <= low
    <3>1. id \in shown \cup F!ToSet(wire)
      BY <2>1, <2>2 DEF FeedInv, F!NoGap
    <3>2. CASE id \in F!ToSet(wire)
      <4>1. PICK n \in DOMAIN wire : id = wire[n]
        BY <3>2 DEF F!ToSet
      <4>2. n \in DOMAIN wire' /\ wire'[n] = id
        BY <1>8, <4>1
      <4> QED BY <4>2 DEF F!ToSet
    <3> QED BY <2>1, <3>1, <3>2
  <2>3. CASE ~(id <= low)
    <3>1. id \in Rows
      BY <1>4, <1>11, <1>14, <2>1, <2>3
    <3>2. PICK n \in DOMAIN sheet : id = sheet[n]
      BY <1>5, <3>1
    <3>3. Len(wire) + n \in DOMAIN wire' /\ wire'[Len(wire) + n] = id
      BY <1>8, <3>2
    <3> QED BY <3>3 DEF F!ToSet
  <2> QED BY <2>2, <2>3
<1>15. source = "open"
  BY <1>2, <1>3 DEF FeedInv, Quiet
<1>16. F!TypeOK'
  BY <1>2, <1>7, <1>8 DEF FeedInv, F!TypeOK
<1>17. F!NoGap' /\ Sent' /\ Quiet'
  BY <1>2, <1>7, <1>12, <1>13, <1>14, <1>15 DEF F!NoGap, Sent, Quiet
<1> QED BY <1>16, <1>17 DEF FeedInv

LEMMA ReceiveFeed ==
  ASSUME FeedInv, F!Receive
  PROVE  FeedInv'
<1>1. /\ source = "open" /\ wire # <<>>
      /\ shown' = shown \cup {Head(wire)} /\ wire' = Tail(wire)
      /\ UNCHANGED <<feed, fed, signed_in, source, badge, sender, breaks>>
  BY DEF F!Receive, F!table
<1>2. wire \in Seq(1 .. fed)
  BY DEF FeedInv, F!TypeOK
<1>3. /\ Head(wire) \in 1 .. fed /\ Head(wire) = wire[1] /\ wire' \in Seq(1 .. fed)
      /\ Len(wire) \in Nat /\ Len(wire) >= 1 /\ DOMAIN wire = 1 .. Len(wire)
      /\ DOMAIN wire' = 1 .. Len(wire) - 1
      /\ \A n \in 1 .. Len(wire) - 1 : wire'[n] = wire[n + 1]
  BY <1>1, <1>2, HeadsAndTails
<1>4. \A n \in DOMAIN wire' : n + 1 \in DOMAIN wire /\ wire'[n] = wire[n + 1]
  BY <1>3
<1>5. \A m, n \in DOMAIN wire' : m < n => m + 1 < n + 1
  BY <1>3
<1>6. F!TypeOK'
  BY <1>1, <1>3 DEF FeedInv, F!TypeOK
<1>7. ASSUME NEW m \in DOMAIN wire', NEW n \in DOMAIN wire', m < n PROVE wire'[m] < wire'[n]
  BY <1>4, <1>5, <1>7 DEF FeedInv, F!NoGap
<1>8. Sent'
  BY <1>1, <1>4 DEF FeedInv, Sent
<1>9. ASSUME NEW id \in feed', id <= sender'.last_id PROVE id \in shown' \cup F!ToSet(wire')
  <2>1. id \in shown \cup F!ToSet(wire)
    BY <1>1, <1>9 DEF FeedInv, F!NoGap
  <2>2. CASE id \in F!ToSet(wire)
    <3>1. PICK n \in DOMAIN wire : id = wire[n]
      BY <2>2 DEF F!ToSet
    <3>2. CASE n = 1
      BY <1>1, <1>3, <3>1, <3>2
    <3>3. CASE n # 1
      <4>1. n - 1 \in DOMAIN wire' /\ (n - 1) + 1 = n
        BY <1>3, <3>3
      <4>2. wire'[n - 1] = id
        BY <1>4, <3>1, <4>1
      <4> QED BY <4>1, <4>2 DEF F!ToSet
    <3> QED BY <3>2, <3>3
  <2> QED BY <1>1, <2>1, <2>2
<1>10. F!NoGap'
  BY <1>1, <1>7, <1>9 DEF F!NoGap
<1> QED BY <1>1, <1>6, <1>8, <1>10 DEF FeedInv, Quiet

(* Rows, sessions and connections that begin or end.                       *)
LEMMA OtherFeed ==
  ASSUME FeedInv, \/ F!Log \/ F!EndSession \/ F!LogIn \/ \E id \in feed : F!Purge(id)
                  \/ F!Connect \/ F!Refused \/ F!Ended \/ F!Break
  PROVE  FeedInv'
<1>0. /\ fed \in Nat /\ feed \in SUBSET (1 .. fed) /\ wire \in Seq(1 .. fed) /\ shown \in SUBSET (1 .. fed)
      /\ sender \in [last_id : 0 .. fed, pages : 0 .. MaxPages, entitled : BOOLEAN]
      /\ MaxPages \in Nat /\ FeedIds \in Nat
  BY PartsAssumption DEF FeedInv, F!TypeOK, F!FeedAssumption
<1>e. <<>> \in Seq(1 .. fed) /\ DOMAIN <<>> = {}
  OBVIOUS
<1>1. CASE F!Log
  <2>1. /\ fed < FeedIds /\ fed' = fed + 1 /\ feed' = feed \cup {fed'}
        /\ UNCHANGED <<signed_in, source, badge, shown, wire, sender, breaks>>
    BY <1>1 DEF F!Log, F!browser
  <2>2. 1 .. fed \subseteq 1 .. fed' /\ fed' \in 1 .. fed' /\ 0 .. fed \subseteq 0 .. fed'
        /\ fed' \in 0 .. FeedIds
    BY <1>0, <2>1
  <2>3. wire' \in Seq(1 .. fed')
    BY <1>0, <2>1, <2>2
  <2>4. ~(fed' <= sender'.last_id)
    BY <1>0, <2>1
  <2>5. F!TypeOK'
    BY <1>0, <2>1, <2>2, <2>3 DEF FeedInv, F!TypeOK
  <2>6. F!ToSet(wire)' = F!ToSet(wire)
    BY <2>1 DEF F!ToSet
  <2> QED BY <2>1, <2>4, <2>5, <2>6 DEF FeedInv, F!NoGap, Sent, Quiet
<1>2. CASE F!EndSession \/ F!LogIn
  <2>1. /\ UNCHANGED <<feed, fed, source, badge, shown, wire>> /\ signed_in' \in BOOLEAN
        /\ sender'.last_id = sender.last_id /\ sender'.pages = sender.pages
        /\ sender'.entitled \in {sender.entitled, FALSE}
        /\ sender' \in [last_id : 0 .. fed, pages : 0 .. MaxPages, entitled : BOOLEAN]
    BY <1>0, <1>2 DEF F!EndSession, F!LogIn, F!browser
  <2>2. F!ToSet(wire)' = F!ToSet(wire)
    BY <2>1 DEF F!ToSet
  <2> QED BY <2>1, <2>2 DEF FeedInv, F!TypeOK, F!NoGap, Sent, Quiet
<1>3. ASSUME NEW id \in feed, F!Purge(id) PROVE FeedInv'
  <2>1. /\ feed' \in SUBSET feed
        /\ UNCHANGED <<fed, signed_in, source, badge, shown, wire, sender, breaks>>
    BY <1>3 DEF F!Purge, F!browser
  <2>2. F!ToSet(wire)' = F!ToSet(wire)
    BY <2>1 DEF F!ToSet
  <2> QED BY <2>1, <2>2 DEF FeedInv, F!TypeOK, F!NoGap, Sent, Quiet
<1>4. CASE F!Connect
  <2>1. /\ source = "connecting" /\ source' = "open" /\ badge' = TRUE
        /\ sender' = [last_id |-> 0, pages |-> MaxPages, entitled |-> TRUE]
        /\ UNCHANGED <<feed, fed, signed_in, shown, wire, breaks>>
    BY <1>4 DEF F!Connect, F!Start, F!table
  <2>2. wire = <<>>
    BY <2>1 DEF FeedInv, F!NoGap
  <2>3. \A id \in feed : ~(id <= 0)
    BY <1>0
  <2>4. F!TypeOK'
    BY <1>0, <2>1 DEF FeedInv, F!TypeOK
  <2> QED BY <1>e, <2>1, <2>2, <2>3, <2>4 DEF FeedInv, F!NoGap, Sent, Quiet
<1>5. CASE F!Refused \/ F!Ended
  <2>1. /\ UNCHANGED <<feed, fed, signed_in, shown, wire, sender, breaks>>
        /\ source' \in {"connecting", "closed"} /\ badge' = FALSE
        /\ wire = <<>> /\ (sender.pages = 0 \/ ~sender.entitled)
    BY <1>5 DEF F!Refused, F!Ended, F!Reconnect, F!table, FeedInv, F!NoGap, Quiet
  <2>2. F!TypeOK'
    BY <1>0, <2>1 DEF FeedInv, F!TypeOK
  <2> QED BY <1>e, <2>1, <2>2 DEF FeedInv, F!NoGap, Sent, Quiet
<1>6. CASE F!Break
  <2>1. /\ UNCHANGED <<feed, fed, signed_in, shown>>
        /\ source' = "connecting" /\ badge' = FALSE /\ wire' = <<>>
        /\ ~sender'.entitled
        /\ sender' \in [last_id : 0 .. fed, pages : 0 .. MaxPages, entitled : BOOLEAN]
    BY <1>0, <1>6 DEF F!Break, F!Reconnect, F!table
  <2>2. F!TypeOK'
    BY <1>0, <1>e, <2>1 DEF FeedInv, F!TypeOK
  <2> QED BY <1>e, <2>1, <2>2 DEF FeedInv, F!NoGap, Sent, Quiet
<1> QED BY <1>1, <1>2, <1>3, <1>4, <1>5, <1>6

LEMMA InitFeed == F!Init => FeedInv
<1> SUFFICES ASSUME F!Init PROVE FeedInv
  OBVIOUS
<1>1. /\ feed = {} /\ fed = 0 /\ signed_in = TRUE /\ source = "connecting" /\ badge = FALSE
      /\ shown = {} /\ wire = <<>> /\ sender = [last_id |-> 0, pages |-> 0, entitled |-> FALSE]
  BY DEF F!Init, F!None
<1>2. <<>> \in Seq(1 .. fed) /\ DOMAIN <<>> = {} /\ MaxPages \in Nat /\ FeedIds \in Nat
  BY PartsAssumption DEF F!FeedAssumption
<1>3. F!TypeOK
  <2>1. /\ fed \in 0 .. FeedIds /\ feed \subseteq 1 .. fed /\ shown \subseteq 1 .. fed
        /\ wire \in Seq(1 .. fed)
    BY <1>1, <1>2
  <2>2. 0 \in 0 .. fed /\ 0 \in 0 .. MaxPages
    BY <1>1, <1>2
  <2>3. sender \in [last_id : 0 .. fed, pages : 0 .. MaxPages, entitled : BOOLEAN]
    BY <1>1, <2>2
  <2> QED BY <1>1, <2>1, <2>3 DEF F!TypeOK
<1> QED BY <1>1, <1>2, <1>3 DEF FeedInv, F!NoGap, Sent, Quiet

LEMMA NextFeed == FeedInv /\ [MCNext]_all => FeedInv'
<1> SUFFICES ASSUME FeedInv, [MCNext]_all PROVE FeedInv'
  OBVIOUS
<1>1. CASE UNCHANGED page
  <2>1. UNCHANGED <<feed, fed, signed_in, source, badge, shown, wire, sender, breaks>>
    BY <1>1 DEF page
  <2>2. F!ToSet(wire)' = F!ToSet(wire)
    BY <2>1 DEF F!ToSet
  <2> QED BY <2>1, <2>2 DEF FeedInv, F!TypeOK, F!NoGap, Sent, Quiet
<1>2. UNCHANGED page \/ F!Next
  BY DEF MCNext, Streaming, Supervising, Feeding, all
<1>3. CASE F!Next
  BY <1>3, GenerateFeed, ReceiveFeed, OtherFeed DEF F!Next
<1> QED BY <1>1, <1>2, <1>3

(* However connections break, rows are purged and sessions end, nothing    *)
(* that was sent over the open connection is missing from the page, or     *)
(* will be when the wire is read, in the order of ids; and a connection    *)
(* that is gone leaves nothing behind to be waited for                     *)
(* (dashboard/static/dashboard.js, event_stream of dashboard/routes.py).   *)
THEOREM FeedHasNoGap == MCSpec => [](F!TypeOK /\ F!NoGap)
<1>1. MCInit => FeedInv
  BY InitFeed DEF MCInit
<1>2. FeedInv => F!TypeOK /\ F!NoGap
  BY DEF FeedInv
<1> QED
  BY <1>1, <1>2, NextFeed, PTL DEF MCSpec
=============================================================================
