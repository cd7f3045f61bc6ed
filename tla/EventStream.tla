----------------------------- MODULE EventStream -----------------------------
(***************************************************************************)
(* The live event stream of the dashboard (dashboard/routes.py             *)
(* event_stream): generators that page through audit_events by id for a    *)
(* user who was logged in when they opened, while modules log, retention   *)
(* removes rows, the session expires and the user is revoked.              *)
(***************************************************************************)
EXTENDS Integers, FiniteSets

CONSTANTS
  Streams,      (* connections of the user                                 *)
  PageSize,     (* LIMIT of get_audit_events_since                         *)
  MaxLifetime,  (* SSE_MAX_LIFETIME_SECONDS, in ticks                      *)
  PollInterval, (* SSE_POLL_INTERVAL_SECONDS                               *)
  Lifetime,     (* PERMANENT_SESSION_LIFETIME                              *)
  MaxId,        (* bound on the rows ever logged                           *)
  MaxTime       (* bound on the clock                                      *)

ASSUME StreamAssumption ==
  /\ PageSize \in Nat \ {0} /\ MaxLifetime \in Nat \ {0} /\ PollInterval \in Nat \ {0}
  /\ Lifetime \in Nat \ {0} /\ MaxId \in Nat /\ MaxTime \in Nat

Ids == 1 .. MaxId
Times == 0 .. MaxTime

VARIABLES
  now,
  audit_events, (* the ids of the rows                                     *)
  logged,       (* how many were ever logged: AUTOINCREMENT's sequence     *)
  is_active,    (* the user's row                                          *)
  pc,           (* "closed", "loop", "query" or "send"                     *)
  last_id, started, expires_at, wake, rows,   (* the generator's locals    *)
  delivered,    (* history: the rows each stream has sent                  *)
  overdue       (* history: pages sent when the user had lost the session  *)

table == <<audit_events, logged, is_active>>
generator == <<last_id, started, expires_at, wake, rows, delivered, overdue>>
vars == <<now, table, pc, generator>>

Init ==
  /\ now = 0
  /\ audit_events = {} /\ logged = 0 /\ is_active = TRUE
  /\ pc = [s \in Streams |-> "closed"]
  /\ last_id = [s \in Streams |-> 0]
  /\ started = [s \in Streams |-> 0]
  /\ expires_at = [s \in Streams |-> 0]
  /\ wake = [s \in Streams |-> 0]
  /\ rows = [s \in Streams |-> {}]
  /\ delivered = [s \in Streams |-> {}]
  /\ overdue = [s \in Streams |-> 0]

Tick ==
  /\ now < MaxTime
  /\ now' = now + 1
  /\ UNCHANGED <<table, pc, generator>>

(* One writer at a time: a row's id is above every id given before. *)
Log ==
  /\ logged < MaxId
  /\ logged' = logged + 1
  /\ audit_events' = audit_events \cup {logged + 1}
  /\ UNCHANGED <<now, is_active, pc, generator>>

(* Retention goes by timestamp, which ids follow only roughly. *)
Purge(old) ==
  /\ audit_events' = audit_events \ old
  /\ UNCHANGED <<now, logged, is_active, pc, generator>>

Revoke ==
  /\ is_active' = FALSE
  /\ UNCHANGED <<now, audit_events, logged, pc, generator>>

(* The request passed login_required with a session authenticated at t.    *)
(* MaxTime leaves it the time to end.                                      *)
Open(s, t) ==
  /\ pc[s] = "closed"
  /\ is_active /\ now - t < Lifetime
  /\ now + MaxLifetime <= MaxTime
  /\ pc' = [pc EXCEPT ![s] = "loop"]
  /\ last_id' = [last_id EXCEPT ![s] = 0]
  /\ started' = [started EXCEPT ![s] = now]
  /\ expires_at' = [expires_at EXCEPT ![s] = t + Lifetime]
  /\ wake' = [wake EXCEPT ![s] = now]
  /\ delivered' = [delivered EXCEPT ![s] = {}]
  /\ overdue' = [overdue EXCEPT ![s] = 0]
  /\ UNCHANGED <<now, table, rows>>

Close(s) ==
  /\ pc' = [pc EXCEPT ![s] = "closed"]
  /\ rows' = [rows EXCEPT ![s] = {}]
  /\ UNCHANGED <<now, table, last_id, started, expires_at, wake, delivered, overdue>>

Expired(s) == now >= expires_at[s]
(* MUTANT: the lifetime is never over. *)
OutlivedNever(s) == now < started[s]
Outlived(s) == now - started[s] >= MaxLifetime

(* MaxTime stands for all later times: nobody sleeps there. *)
Awake(s) == wake[s] <= now \/ now = MaxTime

(* MUTANT: the user was checked when the stream opened. *)
RecheckExpiryOnly(s) ==
  /\ pc[s] = "loop" /\ Awake(s)
  /\ ~Outlived(s) /\ ~Expired(s)
  /\ pc' = [pc EXCEPT ![s] = "query"]
  /\ UNCHANGED <<now, table, generator>>

(* The while condition, then the session and the user. *)
Recheck(s) ==
  /\ pc[s] = "loop" /\ Awake(s)
  /\ ~Outlived(s) /\ ~Expired(s) /\ is_active
  /\ pc' = [pc EXCEPT ![s] = "query"]
  /\ UNCHANGED <<now, table, generator>>

Return(s) ==
  /\ pc[s] = "loop" /\ Awake(s)
  /\ Outlived(s) \/ Expired(s) \/ ~is_active
  /\ Close(s)

(* get_active_role fails closed on a database error. *)
RecheckFails(s) ==
  /\ pc[s] = "loop" /\ Awake(s)
  /\ Close(s)

(* MUTANT: the newest rows. *)
get_newest_events_since(last) ==
  {id \in audit_events : id > last /\ Cardinality({x \in audit_events : id < x}) < PageSize}

(* The PageSize rows of least id above last. *)
get_audit_events_since(last) ==
  {id \in audit_events : id > last /\ Cardinality({x \in audit_events : last < x /\ x < id}) < PageSize}

(* MUTANT: pages by the number of rows sent. *)
QueryByOffset(s) ==
  /\ pc[s] = "query"
  /\ rows' = [rows EXCEPT ![s] = get_audit_events_since(Cardinality(delivered[s]))]
  /\ pc' = [pc EXCEPT ![s] = "send"]
  /\ UNCHANGED <<now, table, last_id, started, expires_at, wake, delivered, overdue>>

Query(s) ==
  /\ pc[s] = "query"
  /\ rows' = [rows EXCEPT ![s] = get_audit_events_since(last_id[s])]
  /\ pc' = [pc EXCEPT ![s] = "send"]
  /\ UNCHANGED <<now, table, last_id, started, expires_at, wake, delivered, overdue>>

(* A database error reads as an empty page. *)
QueryFails(s) ==
  /\ pc[s] = "query"
  /\ rows' = [rows EXCEPT ![s] = {}]
  /\ pc' = [pc EXCEPT ![s] = "send"]
  /\ UNCHANGED <<now, table, last_id, started, expires_at, wake, delivered, overdue>>

Newest(last, page) == CHOOSE id \in page \cup {last} : \A x \in page \cup {last} : x <= id

(* The rows, or a heartbeat when there is none; then the sleep. *)
Send(s) ==
  /\ pc[s] = "send"
  /\ delivered' = [delivered EXCEPT ![s] = @ \cup rows[s]]
  /\ last_id' = [last_id EXCEPT ![s] = Newest(@, rows[s])]
  /\ overdue' = [overdue EXCEPT ![s] =
       IF rows[s] # {} /\ (~is_active \/ Expired(s)) THEN @ + 1 ELSE @]
  /\ rows' = [rows EXCEPT ![s] = {}]
  /\ wake' = [wake EXCEPT ![s] = now + PollInterval]
  /\ pc' = [pc EXCEPT ![s] = "loop"]
  /\ UNCHANGED <<now, table, started, expires_at>>

(* The client goes away, or the server stops. *)
Disconnect(s) ==
  /\ pc[s] # "closed"
  /\ Close(s)

Generate(s) == Recheck(s) \/ Return(s) \/ Query(s) \/ Send(s)

Next ==
  \/ Tick \/ Log \/ Revoke
  \/ \E old \in SUBSET audit_events : Purge(old)
  \/ \E s \in Streams :
       \/ \E t \in 0 .. now : Open(s, t)
       \/ Generate(s) \/ RecheckFails(s) \/ QueryFails(s) \/ Disconnect(s)

Spec == Init /\ [][Next]_vars

-----------------------------------------------------------------------------
(* Every variable has its type: in particular no stream has read past what *)
(* is logged, and none shows a row that was never logged.                  *)
TypeOK ==
  /\ now \in Times
  /\ logged \in 0 .. MaxId /\ audit_events \subseteq 1 .. logged
  /\ is_active \in BOOLEAN
  /\ pc \in [Streams -> {"closed", "loop", "query", "send"}]
  /\ last_id \in [Streams -> 0 .. logged]
  /\ started \in [Streams -> Times]
  /\ expires_at \in [Streams -> 0 .. MaxTime + Lifetime]
  /\ wake \in [Streams -> 0 .. MaxTime + PollInterval]
  /\ rows \in [Streams -> SUBSET (1 .. logged)]
  /\ delivered \in [Streams -> SUBSET (1 .. logged)]
  /\ overdue \in [Streams -> Nat]

(* Paging by id loses no row: whatever was logged up to a stream's last_id *)
(* and is still in the table was sent, although rows are logged and purged *)
(* between its pages and a page may fail to be read.                       *)
NoRowSkipped ==
  \A s \in Streams :
    pc[s] # "closed" => \A id \in audit_events : id <= last_id[s] => id \in delivered[s]

(* And sends none twice: what a stream sends is above what it has sent.    *)
NoRowRepeated ==
  [][\A s \in Streams : pc[s] = "send" /\ pc'[s] = "loop" =>
       \A id \in rows[s], sent \in delivered[s] : sent < id]_vars

(* So a stream sends every row, once: paging skips none and repeats none.  *)
EveryRowOnce == []NoRowSkipped /\ NoRowRepeated

(* Authorization is "rechecked" while a stream is open: once the user is   *)
(* revoked or the session has expired at most the page in hand is sent.    *)
OnePageOverdue == TypeOK /\ \A s \in Streams : overdue[s] <= 1

(* "A single client cannot hold a worker forever" (routes.py:142): every   *)
(* stream ends.                                                            *)
EveryStreamEnds == \A s \in Streams : pc[s] # "closed" ~> pc[s] = "closed"
=============================================================================
