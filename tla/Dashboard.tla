------------------------------ MODULE Dashboard ------------------------------
(***************************************************************************)
(* Dashboard sessions (dashboard/routes.py, dashboard/security.py) over    *)
(* the users table of auth/core.py: browsers send requests that overlap,   *)
(* each with the signed session cookie the browser held when it was sent;  *)
(* a response that changed the session replaces the cookie whenever it     *)
(* arrives.  An administrator revokes users and changes roles meanwhile.   *)
(***************************************************************************)
EXTENDS Integers, FiniteSets

CONSTANTS
  Users,      (* enrolled users                                            *)
  Roles,      (* "analyst", "admin", "viewer"                              *)
  Browsers,
  Requests,   (* requests that can be in flight at once                    *)
  None,       (* no session, no role                                       *)
  Lifetime,   (* PERMANENT_SESSION_LIFETIME, in ticks                      *)
  MaxTime     (* bound on the clock                                        *)

ASSUME SessionAssumption ==
  /\ Lifetime \in Nat \ {0} /\ MaxTime \in Nat
  /\ "admin" \in Roles /\ None \notin Roles /\ None \notin Users

Times == 0 .. MaxTime
Sessions == [user_id : Users, authenticated_at : Times, role : Roles]
Views == {"home", "users"}

VARIABLES
  now,
  is_active, role,  (* the users table                                     *)
  cookie,           (* the session each browser holds                      *)
  pc,               (* where each request is                               *)
  browser,          (* who sent it                                         *)
  view,             (* the endpoint it asked for                           *)
  session,          (* its session object                                  *)
  modified,         (* whether its response sets the cookie                *)
  username,         (* the user a login names                              *)
  logins,           (* history: <<user, time>> of the sessions begun       *)
  entitled,         (* history: what its user was entitled to at some      *)
                    (* instant since the request arrived                   *)
  served            (* history: <<view, request>> answered with data last  *)

users == <<is_active, role>>
request == <<pc, browser, view, session, modified, username, entitled, served>>
vars == <<now, users, cookie, request, logins>>

(* What the users table lets a user see. *)
Entitlement(u, active, roles) ==
  IF u = None \/ ~active[u] THEN {} ELSE IF roles[u] = "admin" THEN Views ELSE {"home"}
SessionUser(s) == IF s = None THEN None ELSE s.user_id

Init ==
  /\ now = 0
  /\ is_active = [u \in Users |-> TRUE]
  /\ role \in [Users -> Roles]
  /\ cookie = [b \in Browsers |-> None]
  /\ pc = [r \in Requests |-> "idle"]
  /\ browser \in [Requests -> Browsers]
  /\ view = [r \in Requests |-> "home"]
  /\ session = [r \in Requests |-> None]
  /\ modified = [r \in Requests |-> FALSE]
  /\ username = [r \in Requests |-> None]
  /\ logins = {}
  /\ entitled = [r \in Requests |-> {}]
  /\ served = [r \in Requests |-> None]

Tick ==
  /\ now < MaxTime
  /\ now' = now + 1
  /\ UNCHANGED <<users, cookie, request, logins>>

-----------------------------------------------------------------------------
(* The users table: revoke_user and set_user_role, a transaction each.     *)

Entitle(active, roles) ==
  entitled' = [r \in Requests |-> entitled[r] \cup
                 (IF pc[r] = "idle" THEN {} ELSE Entitlement(SessionUser(session[r]), active, roles))]

revoke_user(u) ==
  /\ is_active[u]
  /\ is_active' = [is_active EXCEPT ![u] = FALSE]
  /\ UNCHANGED <<now, role, cookie, request, logins>>

set_user_role(u, new) ==
  /\ role' = [role EXCEPT ![u] = new]
  /\ Entitle(is_active, role')
  /\ UNCHANGED <<now, is_active, cookie, pc, browser, view, session, modified,
                 username, served, logins>>

(* "The role of an active user, or None", read by both modules. *)
get_active_role(u) == IF is_active[u] THEN role[u] ELSE None

-----------------------------------------------------------------------------
(* POST /login: verify_token has answered; then the role is read on        *)
(* another connection, and only then the session begins.  Mutants (used by *)
(* no action) stand before what they replace.                              *)

Arrive(r, b, label) ==
  /\ pc[r] = "idle"
  /\ pc' = [pc EXCEPT ![r] = label]
  /\ browser' = [browser EXCEPT ![r] = b]
  /\ session' = [session EXCEPT ![r] = cookie[b]]
  /\ modified' = [modified EXCEPT ![r] = FALSE]
  /\ served' = [served EXCEPT ![r] = None]
  /\ entitled' = [entitled EXCEPT ![r] = Entitlement(SessionUser(cookie[b]), is_active, role)]

LoginVerified(r, b, u) ==
  /\ is_active[u]
  /\ Arrive(r, b, "role")
  /\ username' = [username EXCEPT ![r] = u]
  /\ UNCHANGED <<now, users, cookie, view, logins>>

(* The flashed message is kept in the session, whatever it holds (GET      *)
(* /login, which takes the messages out, rewrites the cookie alike; a 429  *)
(* leaves it alone, as a lost response does).                              *)
LoginRefused(r, b) ==
  /\ Arrive(r, b, "flash")
  /\ UNCHANGED <<now, users, cookie, view, username, logins>>

Flash(r) ==
  /\ pc[r] = "flash"
  /\ modified' = [modified EXCEPT ![r] = TRUE]
  /\ pc' = [pc EXCEPT ![r] = "respond"]
  /\ UNCHANGED <<now, users, cookie, browser, view, session, username,
                 entitled, served, logins>>

LoginRevoked(r) ==
  /\ pc[r] = "role"
  /\ get_active_role(username[r]) = None
  /\ pc' = [pc EXCEPT ![r] = "flash"]
  /\ username' = [username EXCEPT ![r] = None]
  /\ UNCHANGED <<now, users, cookie, browser, view, session, modified,
                 entitled, served, logins>>

LoginBegins(r) ==
  LET u == username[r] IN
  /\ pc[r] = "role"
  /\ get_active_role(u) # None
  /\ session' = [session EXCEPT ![r] =
       [user_id |-> u, authenticated_at |-> now, role |-> get_active_role(u)]]
  /\ modified' = [modified EXCEPT ![r] = TRUE]
  /\ logins' = logins \cup {<<u, now>>}
  /\ username' = [username EXCEPT ![r] = None]
  /\ pc' = [pc EXCEPT ![r] = "respond"]
  /\ UNCHANGED <<now, users, cookie, browser, view, entitled, served>>

(* POST /logout. *)
logout(r, b) ==
  /\ pc[r] = "idle"
  /\ pc' = [pc EXCEPT ![r] = "respond"]
  /\ browser' = [browser EXCEPT ![r] = b]
  /\ session' = [session EXCEPT ![r] = None]
  /\ modified' = [modified EXCEPT ![r] = TRUE]
  /\ served' = [served EXCEPT ![r] = None]
  /\ entitled' = [entitled EXCEPT ![r] = {}]
  /\ UNCHANGED <<now, users, cookie, view, username, logins>>

-----------------------------------------------------------------------------
(* A protected view: the clock, then the users table, then the view.       *)

Protected(r, b, v) ==
  /\ Arrive(r, b, "clock")
  /\ view' = [view EXCEPT ![r] = v]
  /\ UNCHANGED <<now, users, cookie, username, logins>>

(* MUTANT: the last instant counts as within the lifetime. *)
ValidTimeInclusive(s) ==
  s # None /\ 0 <= now - s.authenticated_at /\ now - s.authenticated_at <= Lifetime

ValidTime(s) ==
  s # None /\ 0 <= now - s.authenticated_at /\ now - s.authenticated_at < Lifetime

Deny(r) ==
  /\ session' = [session EXCEPT ![r] = None]
  /\ modified' = [modified EXCEPT ![r] = TRUE]
  /\ pc' = [pc EXCEPT ![r] = "respond"]
  /\ UNCHANGED <<now, users, cookie, browser, view, username, entitled, served, logins>>

ClockDenies(r) ==
  /\ pc[r] = "clock"
  /\ ~ValidTime(session[r])
  /\ Deny(r)

ClockAllows(r) ==
  /\ pc[r] = "clock"
  /\ ValidTime(session[r])
  /\ pc' = [pc EXCEPT ![r] = "lookup"]
  /\ UNCHANGED <<now, users, cookie, browser, view, session, modified, username,
                 entitled, served, logins>>

(* Revoked, or the database could not be read. *)
LookupDenies(r) ==
  /\ pc[r] = "lookup"
  /\ Deny(r)

(* MUTANT: a request prolongs the session. *)
LookupAllowsSliding(r) ==
  LET current == get_active_role(session[r].user_id) IN
  /\ pc[r] = "lookup"
  /\ current # None
  /\ session' = [session EXCEPT ![r] = [@ EXCEPT !.role = current, !.authenticated_at = now]]
  /\ modified' = [modified EXCEPT ![r] = TRUE]
  /\ pc' = [pc EXCEPT ![r] = "view"]
  /\ UNCHANGED <<now, users, cookie, browser, view, username, entitled, served, logins>>

(* MUTANT: the role is that of the cookie. *)
LookupAllowsStale(r) ==
  /\ pc[r] = "lookup"
  /\ get_active_role(session[r].user_id) # None
  /\ pc' = [pc EXCEPT ![r] = "view"]
  /\ UNCHANGED <<now, users, cookie, browser, view, session, modified, username,
                 entitled, served, logins>>

LookupAllows(r) ==
  LET current == get_active_role(session[r].user_id) IN
  /\ pc[r] = "lookup"
  /\ current # None
  /\ session' = [session EXCEPT ![r].role = current]
  /\ modified' = [modified EXCEPT ![r] = session[r].role # current]
  /\ pc' = [pc EXCEPT ![r] = "view"]
  /\ UNCHANGED <<now, users, cookie, browser, view, username, entitled, served, logins>>

(* require_role("admin") on the roster, nothing more elsewhere. *)
Allowed(r) == view[r] = "users" => session[r].role = "admin"

Serve(r) ==
  /\ pc[r] = "view"
  /\ served' = [served EXCEPT ![r] = IF Allowed(r) THEN view[r] ELSE None]
  /\ pc' = [pc EXCEPT ![r] = "respond"]
  /\ UNCHANGED <<now, users, cookie, browser, view, session, modified, username,
                 entitled, logins>>

(* The response reaches the browser, or is lost. *)
Respond(r, arrives) ==
  /\ pc[r] = "respond"
  /\ cookie' = [cookie EXCEPT ![browser[r]] = IF arrives /\ modified[r] THEN session[r] ELSE @]
  /\ pc' = [pc EXCEPT ![r] = "idle"]
  /\ session' = [session EXCEPT ![r] = None]
  /\ modified' = [modified EXCEPT ![r] = FALSE]
  /\ served' = [served EXCEPT ![r] = None]
  /\ entitled' = [entitled EXCEPT ![r] = {}]
  /\ UNCHANGED <<now, users, browser, view, username, logins>>

Login(r) ==
  \/ \E b \in Browsers : LoginRefused(r, b) \/ logout(r, b) \/ \E u \in Users : LoginVerified(r, b, u)
  \/ Flash(r) \/ LoginRevoked(r) \/ LoginBegins(r)
View(r) ==
  \/ \E b \in Browsers, v \in Views : Protected(r, b, v)
  \/ ClockDenies(r) \/ ClockAllows(r) \/ LookupDenies(r) \/ LookupAllows(r) \/ Serve(r)

Next ==
  \/ Tick
  \/ \E u \in Users : revoke_user(u) \/ \E new \in Roles : set_user_role(u, new)
  \/ \E r \in Requests : Login(r) \/ View(r) \/ \E arrives \in BOOLEAN : Respond(r, arrives)

Spec == Init /\ [][Next]_vars

-----------------------------------------------------------------------------
(* Every variable has its type.  In particular a session carries a role,   *)
(* so it began for a user who was active when the role was read.           *)
TypeOK ==
  /\ now \in Times
  /\ is_active \in [Users -> BOOLEAN] /\ role \in [Users -> Roles]
  /\ cookie \in [Browsers -> Sessions \cup {None}]
  /\ pc \in [Requests -> {"idle", "role", "flash", "clock", "lookup", "view", "respond"}]
  /\ browser \in [Requests -> Browsers] /\ view \in [Requests -> Views]
  /\ session \in [Requests -> Sessions \cup {None}]
  /\ modified \in [Requests -> BOOLEAN]
  /\ username \in [Requests -> Users \cup {None}]
  /\ logins \subseteq Users \X Times
  /\ entitled \in [Requests -> SUBSET Views]
  /\ served \in [Requests -> Views \cup {None}]

Held == {cookie[b] : b \in Browsers} \cup {session[r] : r \in Requests}

(* "Absolute 15-min sessions" (docs/SECURITY.md:7): whatever requests and  *)
(* responses overlap, a session anyone holds dates from the login that     *)
(* began it, so no request and no role change can prolong it.              *)
SessionsAreAbsolute ==
  /\ TypeOK
  /\ \A s \in Held \ {None} : <<s.user_id, s.authenticated_at>> \in logins

(* "Active status and RBAC role rechecked per request": what a request is  *)
(* shown, its user was entitled to, as the users table stood, at some      *)
(* instant since the request arrived.                                      *)
ServedAsEntitled ==
  \A r \in Requests : served[r] # None => served[r] \in entitled[r]

(* And no request is shown anything on a session that had run out when it  *)
(* arrived: the login it dates from is younger than the lifetime when the  *)
(* clock is read.                                                          *)
ServedWithinLifetime ==
  [][\A r \in Requests : pc[r] = "clock" /\ pc'[r] \notin {"clock", "respond"} =>
       \E l \in logins : l[1] = session[r].user_id /\ now < l[2] + Lifetime]_vars

(* A session ends for good when its lifetime is over, for who holds the    *)
(* cookie and for who is served.                                           *)
SessionsEnd == []SessionsAreAbsolute /\ ServedWithinLifetime
=============================================================================
