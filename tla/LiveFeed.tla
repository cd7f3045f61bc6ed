------------------------------- MODULE LiveFeed -------------------------------
(***************************************************************************)
(* The live feed from end to end: the browser's EventSource, as            *)
(* dashboard/static/dashboard.js uses it, and the generators of            *)
(* dashboard/routes.py event_stream at the other end, which start at id 0  *)
(* on every connection.  EventSource connects again by itself when a       *)
(* connection ends or breaks, with whatever was in flight, and gives up    *)
(* when it is answered with the login page.  A generator is as EventStream *)
(* has it, a page of rows at a time.                                       *)
(***************************************************************************)
EXTENDS Integers, Sequences, FiniteSets, FiniteSetsExt, SequencesExt

CONSTANTS
  PageSize,  (* LIMIT of get_audit_events_since: 20                        *)
  MaxPages,  (* the pages of one connection: SSE_MAX_LIFETIME_SECONDS /    *)
             (* SSE_POLL_INTERVAL_SECONDS, 180                             *)
  MaxId,     (* bound on the rows ever logged                              *)
  MaxBreaks  (* bound on the sessions that end and connections that break  *)

FeedAssumption ==
  PageSize \in Nat \ {0} /\ MaxPages \in Nat \ {0} /\ MaxId \in Nat /\ MaxBreaks \in Nat

Ids == 1 .. MaxId

VARIABLES
  audit_events, logged,  (* the ids in the table; how many were ever given *)
  session,   (* whether the browser's cookie is good for a logged-in user  *)
  source,    (* readyState: "connecting", "open" or "closed"               *)
  badge,     (* whether the page says it is live                           *)
  shown,     (* the rows of the table on the page                          *)
  wire,      (* the rows on their way to it                                *)
  generator, (* at the other end: [last_id, pages, entitled], or None      *)
  breaks

table == <<audit_events, logged, session>>
browser == <<source, badge, shown>>
vars == <<table, browser, wire, generator, breaks>>

None == [last_id |-> 0, pages |-> 0, entitled |-> FALSE]

(* The page is loaded while the table is empty: initLiveFeed. *)
Init ==
  /\ audit_events = {} /\ logged = 0 /\ session = TRUE
  /\ source = "connecting" /\ badge = FALSE /\ shown = {}
  /\ wire = <<>> /\ generator = None /\ breaks = 0

Log ==
  /\ logged < MaxId
  /\ logged' = logged + 1 /\ audit_events' = audit_events \cup {logged'}
  /\ UNCHANGED <<session, browser, wire, generator, breaks>>

Purge(id) ==
  /\ audit_events' = audit_events \ {id}
  /\ UNCHANGED <<logged, session, browser, wire, generator, breaks>>

(* The user is revoked or the session expires: a generator that was opened *)
(* with it notices before its next page.  Another tab may log in again.    *)
EndSession ==
  /\ session /\ breaks < MaxBreaks
  /\ session' = FALSE /\ breaks' = breaks + 1
  /\ generator' = [generator EXCEPT !.entitled = FALSE]
  /\ UNCHANGED <<audit_events, logged, browser, wire>>
LogIn == session' = TRUE /\ UNCHANGED <<audit_events, logged, browser, wire, generator, breaks>>

(* MUTANT: a reconnection goes on after the rows already sent. *)
StartAfterSent == [last_id |-> Max({0} \cup shown \cup ToSet(wire) \cup {generator.last_id}),
                   pages |-> MaxPages, entitled |-> TRUE]
Start == [last_id |-> 0, pages |-> MaxPages, entitled |-> TRUE]

(* onopen. *)
Connect ==
  /\ source = "connecting" /\ session
  /\ source' = "open" /\ badge' = TRUE
  /\ generator' = Start
  /\ UNCHANGED <<table, shown, wire, breaks>>

(* login_required redirects to a page that is no event stream: onerror, and *)
(* EventSource does not try again.                                         *)
Refused ==
  /\ source = "connecting" /\ ~session
  /\ source' = "closed" /\ badge' = FALSE
  /\ UNCHANGED <<table, shown, wire, generator, breaks>>

Page == {id \in audit_events : id > generator.last_id /\
           Cardinality({x \in audit_events : generator.last_id < x /\ x < id}) < PageSize}

(* MUTANT: ORDER BY id DESC. *)
NewestFirst(rows) ==
  CHOOSE s \in [1 .. Cardinality(rows) -> rows] : \A m, n \in DOMAIN s : m < n => s[m] > s[n]
(* ORDER BY id ASC. *)
ById(rows) ==
  CHOOSE s \in [1 .. Cardinality(rows) -> rows] : \A m, n \in DOMAIN s : m < n => s[m] < s[n]

(* A page or a heartbeat, and the sleep. *)
Generate ==
  /\ generator.entitled /\ generator.pages > 0
  /\ wire' = wire \o ById(Page)
  /\ generator' = [generator EXCEPT !.last_id = Max(Page \cup {@}), !.pages = @ - 1]
  /\ UNCHANGED <<table, browser, breaks>>

(* onmessage. *)
Receive ==
  /\ source = "open" /\ wire # <<>>
  /\ shown' = shown \cup {Head(wire)} /\ wire' = Tail(wire)
  /\ UNCHANGED <<table, source, badge, generator, breaks>>

(* onerror. *)
Reconnect ==
  /\ source' = "connecting" /\ badge' = FALSE
  /\ UNCHANGED <<table, shown>>

(* MUTANT: a generator that has outlived its time goes on with heartbeats. *)
EndedByRecheck ==
  /\ source = "open" /\ wire = <<>> /\ ~generator.entitled
  /\ Reconnect
  /\ UNCHANGED <<wire, generator, breaks>>
(* The generator has returned, and the browser has read what it sent. *)
Ended ==
  /\ source = "open" /\ wire = <<>> /\ (generator.pages = 0 \/ ~generator.entitled)
  /\ Reconnect
  /\ UNCHANGED <<wire, generator, breaks>>

(* The connection breaks, or the server stops. *)
Break ==
  /\ source = "open" /\ breaks < MaxBreaks
  /\ breaks' = breaks + 1
  /\ wire' = <<>>
  /\ generator' = [generator EXCEPT !.entitled = FALSE]
  /\ Reconnect

Next ==
  \/ Log \/ EndSession \/ LogIn \/ \E id \in audit_events : Purge(id)
  \/ Connect \/ Refused \/ Generate \/ Receive \/ Ended \/ Break

Program == Connect \/ Refused \/ Generate \/ Receive \/ Ended
(* The browser and the server go on; nothing else has to happen.           *)
Spec == Init /\ [][Next]_vars /\ WF_vars(Program)

-------------------------------------------------------------------------------
TypeOK ==
  /\ logged \in 0 .. MaxId /\ audit_events \subseteq 1 .. logged
  /\ session \in BOOLEAN /\ badge \in BOOLEAN
  /\ source \in {"connecting", "open", "closed"}
  /\ shown \subseteq 1 .. logged /\ wire \in Seq(1 .. logged)
  /\ generator \in [last_id : 0 .. logged, pages : 0 .. MaxPages, entitled : BOOLEAN]

(* While a connection is open nothing that was sent over it is missing:    *)
(* the page has every row of the table up to the last one sent, or will    *)
(* when it has read what is on the wire, which comes in the order of ids;  *)
(* and what a connection took with it is not waited for.                   *)
NoGap ==
  /\ source = "open" =>
       \A id \in audit_events : id <= generator.last_id => id \in shown \cup ToSet(wire)
  /\ \A m, n \in DOMAIN wire : m < n => wire[m] < wire[n]
  /\ source # "open" => wire = <<>>

(* The stream "streams new audit events to authenticated clients"          *)
(* (routes.py:140): a row comes to the page, whatever is lost on the way,  *)
(* unless retention takes it or the browser is sent to the login page.     *)
RowsArrive ==
  \A id \in Ids :
    id \in audit_events ~> id \in shown \/ id \notin audit_events \/ source = "closed"

(* Nobody who has lost the session goes on looking at a page that says it  *)
(* is live.                                                                *)
BadgeGoesOut == ~session ~> session \/ ~badge

(* As long as one connection has the time for the whole table the feed is  *)
(* what it says.                                                           *)
FeedKeepsUp == BadgeGoesOut /\ (MaxId <= MaxPages * PageSize => RowsArrive)
===============================================================================
