--------------------------- MODULE DashboardProofs ---------------------------
(***************************************************************************)
(* Proofs about Dashboard, for any users, roles, browsers and requests in  *)
(* flight, and any lifetime: its types, that a session dates from a login  *)
(* and is not served beyond its lifetime, and that what a request is shown *)
(* its user was entitled to while the request was served.  And about the   *)
(* parts behind it: Accounts, for any operators and names, what they leave *)
(* and answer; LoginRateLimiter, how many attempts it allows; Startup,     *)
(* that what is called ready starts; ReadViews, that the metrics are true. *)
(***************************************************************************)
EXTENDS MCDashboard, Sequences, FiniteSetTheorems, WellFoundedInduction, TLAPS

-----------------------------------------------------------------------------
(* The inductive invariant.                                                *)

(* A login that was verified has its user, and a request past the clock a  *)
(* session.                                                                *)
SessionsHeld ==
  \A r \in Requests :
    /\ pc[r] = "role" => username[r] \in Users
    /\ pc[r] = "lookup" => session[r] # None
    /\ pc[r] = "view" => session[r] \in Sessions

(* SessionsAreAbsolute, holder by holder. *)
SessionsDated ==
  /\ \A b \in Browsers :
       cookie[b] # None => <<cookie[b].user_id, cookie[b].authenticated_at>> \in logins
  /\ \A r \in Requests :
       session[r] # None => <<session[r].user_id, session[r].authenticated_at>> \in logins

(* Until its view runs, what a request's user may see now was noted. *)
EntitlementNoted ==
  \A r \in Requests :
    pc[r] \in {"clock", "lookup", "view"} =>
      Entitlement(SessionUser(session[r]), is_active, role) \subseteq entitled[r]

(* And when it runs, what the role in its session allows was noted, even   *)
(* if the role or the active flag has changed since.                       *)
LookedUp ==
  \A r \in Requests :
    pc[r] = "view" =>
      "home" \in entitled[r] /\ (session[r].role = "admin" => "users" \in entitled[r])

(* What holds of the sessions and of the entitlements of every state.      *)
IInv ==
  /\ TypeOK /\ SessionsHeld /\ SessionsDated
  /\ EntitlementNoted /\ LookedUp /\ ServedAsEntitled

-----------------------------------------------------------------------------
USE SessionAssumption DEF Times, Sessions, Views

(* Every step keeps the types.  *)
LEMMA TypeInductive ==
  ASSUME TypeOK, SessionsHeld, [Next]_vars
  PROVE  TypeOK'
<1>1. ASSUME Tick
      PROVE  TypeOK'
  BY <1>1, TypeOK, SessionsHeld DEF TypeOK, SessionsHeld, Entitlement, Tick, users, request
<1>2. ASSUME NEW u \in Users, revoke_user(u)
      PROVE  TypeOK'
  BY <1>2, TypeOK, SessionsHeld DEF TypeOK, SessionsHeld, Entitlement, revoke_user, users, request
<1>3. ASSUME NEW u \in Users, NEW new \in Roles, set_user_role(u, new)
      PROVE  TypeOK'
  BY <1>3, TypeOK, SessionsHeld DEF TypeOK, SessionsHeld, Entitlement, set_user_role, Entitle,
     users, request
<1>4. ASSUME NEW r \in Requests, NEW b \in Browsers, LoginRefused(r, b)
      PROVE  TypeOK'
  BY <1>4, TypeOK, SessionsHeld DEF TypeOK, SessionsHeld, Entitlement, LoginRefused, Arrive,
     users, request
<1>5. ASSUME NEW r \in Requests, NEW b \in Browsers, logout(r, b)
      PROVE  TypeOK'
  BY <1>5, TypeOK, SessionsHeld DEF TypeOK, SessionsHeld, Entitlement, logout, users, request
<1>6. ASSUME NEW r \in Requests, NEW b \in Browsers, NEW u \in Users, LoginVerified(r, b, u)
      PROVE  TypeOK'
  BY <1>6, TypeOK, SessionsHeld DEF TypeOK, SessionsHeld, Entitlement, LoginVerified, Arrive,
     users, request
<1>7. ASSUME NEW r \in Requests, Flash(r)
      PROVE  TypeOK'
  BY <1>7, TypeOK, SessionsHeld DEF TypeOK, SessionsHeld, Entitlement, Flash, users, request
<1>8. ASSUME NEW r \in Requests, LoginRevoked(r)
      PROVE  TypeOK'
  BY <1>8, TypeOK, SessionsHeld DEF TypeOK, SessionsHeld, Entitlement, LoginRevoked,
     get_active_role, users, request
<1>9. ASSUME NEW r \in Requests, LoginBegins(r)
      PROVE  TypeOK'
  <2>1. username[r] \in Users /\ get_active_role(username[r]) \in Roles
    BY <1>9, TypeOK, SessionsHeld DEF TypeOK, SessionsHeld, LoginBegins, get_active_role
  <2>2. [user_id |-> username[r], authenticated_at |-> now, role |-> get_active_role(username[r])] \in Sessions
    BY <2>1, TypeOK DEF TypeOK
  <2> QED BY <1>9, <2>1, <2>2, TypeOK DEF TypeOK, LoginBegins, users, request
<1>10. ASSUME NEW r \in Requests, NEW b \in Browsers, NEW v \in Views, Protected(r, b, v)
      PROVE  TypeOK'
  BY <1>10, TypeOK, SessionsHeld DEF TypeOK, SessionsHeld, Entitlement, Protected, Arrive, users,
     request
<1>11. ASSUME NEW r \in Requests, ClockDenies(r)
      PROVE  TypeOK'
  BY <1>11, TypeOK, SessionsHeld DEF TypeOK, SessionsHeld, Entitlement, ClockDenies, Deny, users,
     request
<1>12. ASSUME NEW r \in Requests, ClockAllows(r)
      PROVE  TypeOK'
  BY <1>12, TypeOK, SessionsHeld DEF TypeOK, SessionsHeld, Entitlement, ClockAllows, ValidTime,
     users, request
<1>13. ASSUME NEW r \in Requests, LookupDenies(r)
      PROVE  TypeOK'
  BY <1>13, TypeOK, SessionsHeld DEF TypeOK, SessionsHeld, Entitlement, LookupDenies, Deny, users,
     request
<1>14. ASSUME NEW r \in Requests, LookupAllows(r)
      PROVE  TypeOK'
  BY <1>14, TypeOK, SessionsHeld DEF TypeOK, SessionsHeld, Entitlement, LookupAllows,
     get_active_role, users, request
<1>15. ASSUME NEW r \in Requests, Serve(r)
      PROVE  TypeOK'
  BY <1>15, TypeOK, SessionsHeld DEF TypeOK, SessionsHeld, Entitlement, Serve, Allowed, users,
     request
<1>16. ASSUME NEW r \in Requests, NEW arrives \in BOOLEAN, Respond(r, arrives)
      PROVE  TypeOK'
  BY <1>16, TypeOK, SessionsHeld DEF TypeOK, SessionsHeld, Entitlement, Respond, users, request
<1>17. CASE UNCHANGED vars
  BY <1>17, TypeOK, SessionsHeld DEF TypeOK, SessionsHeld, Entitlement, vars, users, request
<1> QED BY <1>1, <1>2, <1>3, <1>4, <1>5, <1>6, <1>7, <1>8, <1>9, <1>10, <1>11, <1>12, <1>13,
           <1>14, <1>15, <1>16, <1>17 DEF Next, Login, View

(* Every step keeps SessionsHeld. *)
LEMMA HeldInductive ==
  ASSUME TypeOK, SessionsHeld, [Next]_vars
  PROVE  SessionsHeld'
<1>1. ASSUME Tick
      PROVE  SessionsHeld'
  BY <1>1, TypeOK, SessionsHeld DEF TypeOK, SessionsHeld, Tick, users, request
<1>2. ASSUME NEW u \in Users, revoke_user(u)
      PROVE  SessionsHeld'
  BY <1>2, TypeOK, SessionsHeld DEF TypeOK, SessionsHeld, revoke_user, users, request
<1>3. ASSUME NEW u \in Users, NEW new \in Roles, set_user_role(u, new)
      PROVE  SessionsHeld'
  BY <1>3, TypeOK, SessionsHeld DEF TypeOK, SessionsHeld, set_user_role, Entitle, users, request
<1>4. ASSUME NEW r \in Requests, NEW b \in Browsers, LoginRefused(r, b)
      PROVE  SessionsHeld'
  BY <1>4, TypeOK, SessionsHeld DEF TypeOK, SessionsHeld, LoginRefused, Arrive, users, request
<1>5. ASSUME NEW r \in Requests, NEW b \in Browsers, logout(r, b)
      PROVE  SessionsHeld'
  BY <1>5, TypeOK, SessionsHeld DEF TypeOK, SessionsHeld, logout, users, request
<1>6. ASSUME NEW r \in Requests, NEW b \in Browsers, NEW u \in Users, LoginVerified(r, b, u)
      PROVE  SessionsHeld'
  BY <1>6, TypeOK, SessionsHeld DEF TypeOK, SessionsHeld, LoginVerified, Arrive, users, request
<1>7. ASSUME NEW r \in Requests, Flash(r)
      PROVE  SessionsHeld'
  BY <1>7, TypeOK, SessionsHeld DEF TypeOK, SessionsHeld, Flash, users, request
<1>8. ASSUME NEW r \in Requests, LoginRevoked(r)
      PROVE  SessionsHeld'
  BY <1>8, TypeOK, SessionsHeld DEF TypeOK, SessionsHeld, LoginRevoked, get_active_role, users,
     request
<1>9. ASSUME NEW r \in Requests, LoginBegins(r)
      PROVE  SessionsHeld'
  BY <1>9, TypeOK, SessionsHeld DEF TypeOK, SessionsHeld, LoginBegins, get_active_role, users,
     request
<1>10. ASSUME NEW r \in Requests, NEW b \in Browsers, NEW v \in Views, Protected(r, b, v)
      PROVE  SessionsHeld'
  BY <1>10, TypeOK, SessionsHeld DEF TypeOK, SessionsHeld, Protected, Arrive, users, request
<1>11. ASSUME NEW r \in Requests, ClockDenies(r)
      PROVE  SessionsHeld'
  BY <1>11, TypeOK, SessionsHeld DEF TypeOK, SessionsHeld, ClockDenies, Deny, users, request
<1>12. ASSUME NEW r \in Requests, ClockAllows(r)
      PROVE  SessionsHeld'
  BY <1>12, TypeOK, SessionsHeld DEF TypeOK, SessionsHeld, ClockAllows, ValidTime, users, request
<1>13. ASSUME NEW r \in Requests, LookupDenies(r)
      PROVE  SessionsHeld'
  BY <1>13, TypeOK, SessionsHeld DEF TypeOK, SessionsHeld, LookupDenies, Deny, users, request
<1>14. ASSUME NEW r \in Requests, LookupAllows(r)
      PROVE  SessionsHeld'
  BY <1>14, TypeOK, SessionsHeld DEF TypeOK, SessionsHeld, LookupAllows, get_active_role, users,
     request
<1>15. ASSUME NEW r \in Requests, Serve(r)
      PROVE  SessionsHeld'
  BY <1>15, TypeOK, SessionsHeld DEF TypeOK, SessionsHeld, Serve, Allowed, users, request
<1>16. ASSUME NEW r \in Requests, NEW arrives \in BOOLEAN, Respond(r, arrives)
      PROVE  SessionsHeld'
  BY <1>16, TypeOK, SessionsHeld DEF TypeOK, SessionsHeld, Respond, users, request
<1>17. CASE UNCHANGED vars
  BY <1>17, TypeOK, SessionsHeld DEF TypeOK, SessionsHeld, vars, users, request
<1> QED BY <1>1, <1>2, <1>3, <1>4, <1>5, <1>6, <1>7, <1>8, <1>9, <1>10, <1>11, <1>12, <1>13,
           <1>14, <1>15, <1>16, <1>17 DEF Next, Login, View

(* A session begins nowhere but at a login: every other step hands on one
   that somebody held. *)
LEMMA DatedInductive ==
  ASSUME TypeOK, SessionsHeld, SessionsDated, [Next]_vars
  PROVE  SessionsDated'
<1>1. ASSUME Tick
      PROVE  SessionsDated'
  BY <1>1, TypeOK, SessionsHeld, SessionsDated DEF TypeOK, SessionsHeld, SessionsDated, Tick,
     users, request
<1>2. ASSUME NEW u \in Users, revoke_user(u)
      PROVE  SessionsDated'
  BY <1>2, TypeOK, SessionsHeld, SessionsDated DEF TypeOK, SessionsHeld, SessionsDated,
     revoke_user, users, request
<1>3. ASSUME NEW u \in Users, NEW new \in Roles, set_user_role(u, new)
      PROVE  SessionsDated'
  BY <1>3, TypeOK, SessionsHeld, SessionsDated DEF TypeOK, SessionsHeld, SessionsDated,
     set_user_role, Entitle, users, request
<1>4. ASSUME NEW r \in Requests, NEW b \in Browsers, LoginRefused(r, b)
      PROVE  SessionsDated'
  BY <1>4, TypeOK, SessionsHeld, SessionsDated DEF TypeOK, SessionsHeld, SessionsDated,
     LoginRefused, Arrive, users, request
<1>5. ASSUME NEW r \in Requests, NEW b \in Browsers, logout(r, b)
      PROVE  SessionsDated'
  BY <1>5, TypeOK, SessionsHeld, SessionsDated DEF TypeOK, SessionsHeld, SessionsDated, logout,
     users, request
<1>6. ASSUME NEW r \in Requests, NEW b \in Browsers, NEW u \in Users, LoginVerified(r, b, u)
      PROVE  SessionsDated'
  BY <1>6, TypeOK, SessionsHeld, SessionsDated DEF TypeOK, SessionsHeld, SessionsDated,
     LoginVerified, Arrive, users, request
<1>7. ASSUME NEW r \in Requests, Flash(r)
      PROVE  SessionsDated'
  BY <1>7, TypeOK, SessionsHeld, SessionsDated DEF TypeOK, SessionsHeld, SessionsDated, Flash,
     users, request
<1>8. ASSUME NEW r \in Requests, LoginRevoked(r)
      PROVE  SessionsDated'
  BY <1>8, TypeOK, SessionsHeld, SessionsDated DEF TypeOK, SessionsHeld, SessionsDated,
     LoginRevoked, get_active_role, users, request
<1>9. ASSUME NEW r \in Requests, LoginBegins(r)
      PROVE  SessionsDated'
  BY <1>9, TypeOK, SessionsHeld, SessionsDated DEF TypeOK, SessionsHeld, SessionsDated,
     LoginBegins, get_active_role, users, request
<1>10. ASSUME NEW r \in Requests, NEW b \in Browsers, NEW v \in Views, Protected(r, b, v)
      PROVE  SessionsDated'
  BY <1>10, TypeOK, SessionsHeld, SessionsDated DEF TypeOK, SessionsHeld, SessionsDated,
     Protected, Arrive, users, request
<1>11. ASSUME NEW r \in Requests, ClockDenies(r)
      PROVE  SessionsDated'
  BY <1>11, TypeOK, SessionsHeld, SessionsDated DEF TypeOK, SessionsHeld, SessionsDated,
     ClockDenies, Deny, users, request
<1>12. ASSUME NEW r \in Requests, ClockAllows(r)
      PROVE  SessionsDated'
  BY <1>12, TypeOK, SessionsHeld, SessionsDated DEF TypeOK, SessionsHeld, SessionsDated,
     ClockAllows, ValidTime, users, request
<1>13. ASSUME NEW r \in Requests, LookupDenies(r)
      PROVE  SessionsDated'
  BY <1>13, TypeOK, SessionsHeld, SessionsDated DEF TypeOK, SessionsHeld, SessionsDated,
     LookupDenies, Deny, users, request
<1>14. ASSUME NEW r \in Requests, LookupAllows(r)
      PROVE  SessionsDated'
  BY <1>14, TypeOK, SessionsHeld, SessionsDated DEF TypeOK, SessionsHeld, SessionsDated,
     LookupAllows, get_active_role, users, request
<1>15. ASSUME NEW r \in Requests, Serve(r)
      PROVE  SessionsDated'
  BY <1>15, TypeOK, SessionsHeld, SessionsDated DEF TypeOK, SessionsHeld, SessionsDated, Serve,
     Allowed, users, request
<1>16. ASSUME NEW r \in Requests, NEW arrives \in BOOLEAN, Respond(r, arrives)
      PROVE  SessionsDated'
  BY <1>16, TypeOK, SessionsHeld, SessionsDated DEF TypeOK, SessionsHeld, SessionsDated, Respond,
     users, request
<1>17. CASE UNCHANGED vars
  BY <1>17, TypeOK, SessionsHeld, SessionsDated DEF TypeOK, SessionsHeld, SessionsDated, vars,
     users, request
<1> QED BY <1>1, <1>2, <1>3, <1>4, <1>5, <1>6, <1>7, <1>8, <1>9, <1>10, <1>11, <1>12, <1>13,
           <1>14, <1>15, <1>16, <1>17 DEF Next, Login, View

(* While a request is served, what its user may see is noted when it
   arrives and when the role changes; a revocation takes from it. *)
LEMMA NotedInductive ==
  ASSUME TypeOK, SessionsHeld, EntitlementNoted, [Next]_vars
  PROVE  EntitlementNoted'
<1>1. ASSUME Tick
      PROVE  EntitlementNoted'
  BY <1>1, TypeOK, SessionsHeld, EntitlementNoted DEF TypeOK, SessionsHeld, EntitlementNoted,
     Entitlement, SessionUser, Tick, users, request
<1>2. ASSUME NEW u \in Users, revoke_user(u)
      PROVE  EntitlementNoted'
  BY <1>2, TypeOK, SessionsHeld, EntitlementNoted DEF TypeOK, SessionsHeld, EntitlementNoted,
     Entitlement, SessionUser, revoke_user, users, request
<1>3. ASSUME NEW u \in Users, NEW new \in Roles, set_user_role(u, new)
      PROVE  EntitlementNoted'
  BY <1>3, TypeOK, SessionsHeld, EntitlementNoted DEF TypeOK, SessionsHeld, EntitlementNoted,
     Entitlement, SessionUser, set_user_role, Entitle, users, request
<1>4. ASSUME NEW r \in Requests, NEW b \in Browsers, LoginRefused(r, b)
      PROVE  EntitlementNoted'
  BY <1>4, TypeOK, SessionsHeld, EntitlementNoted DEF TypeOK, SessionsHeld, EntitlementNoted,
     Entitlement, SessionUser, LoginRefused, Arrive, users, request
<1>5. ASSUME NEW r \in Requests, NEW b \in Browsers, logout(r, b)
      PROVE  EntitlementNoted'
  BY <1>5, TypeOK, SessionsHeld, EntitlementNoted DEF TypeOK, SessionsHeld, EntitlementNoted,
     Entitlement, SessionUser, logout, users, request
<1>6. ASSUME NEW r \in Requests, NEW b \in Browsers, NEW u \in Users, LoginVerified(r, b, u)
      PROVE  EntitlementNoted'
  BY <1>6, TypeOK, SessionsHeld, EntitlementNoted DEF TypeOK, SessionsHeld, EntitlementNoted,
     Entitlement, SessionUser, LoginVerified, Arrive, users, request
<1>7. ASSUME NEW r \in Requests, Flash(r)
      PROVE  EntitlementNoted'
  BY <1>7, TypeOK, SessionsHeld, EntitlementNoted DEF TypeOK, SessionsHeld, EntitlementNoted,
     Entitlement, SessionUser, Flash, users, request
<1>8. ASSUME NEW r \in Requests, LoginRevoked(r)
      PROVE  EntitlementNoted'
  BY <1>8, TypeOK, SessionsHeld, EntitlementNoted DEF TypeOK, SessionsHeld, EntitlementNoted,
     Entitlement, SessionUser, LoginRevoked, get_active_role, users, request
<1>9. ASSUME NEW r \in Requests, LoginBegins(r)
      PROVE  EntitlementNoted'
  BY <1>9, TypeOK, SessionsHeld, EntitlementNoted DEF TypeOK, SessionsHeld, EntitlementNoted,
     Entitlement, SessionUser, LoginBegins, get_active_role, users, request
<1>10. ASSUME NEW r \in Requests, NEW b \in Browsers, NEW v \in Views, Protected(r, b, v)
      PROVE  EntitlementNoted'
  BY <1>10, TypeOK, SessionsHeld, EntitlementNoted DEF TypeOK, SessionsHeld, EntitlementNoted,
     Entitlement, SessionUser, Protected, Arrive, users, request
<1>11. ASSUME NEW r \in Requests, ClockDenies(r)
      PROVE  EntitlementNoted'
  BY <1>11, TypeOK, SessionsHeld, EntitlementNoted DEF TypeOK, SessionsHeld, EntitlementNoted,
     Entitlement, SessionUser, ClockDenies, Deny, users, request
<1>12. ASSUME NEW r \in Requests, ClockAllows(r)
      PROVE  EntitlementNoted'
  BY <1>12, TypeOK, SessionsHeld, EntitlementNoted DEF TypeOK, SessionsHeld, EntitlementNoted,
     Entitlement, SessionUser, ClockAllows, ValidTime, users, request
<1>13. ASSUME NEW r \in Requests, LookupDenies(r)
      PROVE  EntitlementNoted'
  BY <1>13, TypeOK, SessionsHeld, EntitlementNoted DEF TypeOK, SessionsHeld, EntitlementNoted,
     Entitlement, SessionUser, LookupDenies, Deny, users, request
<1>14. ASSUME NEW r \in Requests, LookupAllows(r)
      PROVE  EntitlementNoted'
  BY <1>14, TypeOK, SessionsHeld, EntitlementNoted DEF TypeOK, SessionsHeld, EntitlementNoted,
     Entitlement, SessionUser, LookupAllows, get_active_role, users, request
<1>15. ASSUME NEW r \in Requests, Serve(r)
      PROVE  EntitlementNoted'
  BY <1>15, TypeOK, SessionsHeld, EntitlementNoted DEF TypeOK, SessionsHeld, EntitlementNoted,
     Entitlement, SessionUser, Serve, Allowed, users, request
<1>16. ASSUME NEW r \in Requests, NEW arrives \in BOOLEAN, Respond(r, arrives)
      PROVE  EntitlementNoted'
  BY <1>16, TypeOK, SessionsHeld, EntitlementNoted DEF TypeOK, SessionsHeld, EntitlementNoted,
     Entitlement, SessionUser, Respond, users, request
<1>17. CASE UNCHANGED vars
  BY <1>17, TypeOK, SessionsHeld, EntitlementNoted DEF TypeOK, SessionsHeld, EntitlementNoted,
     Entitlement, SessionUser, vars, users, request
<1> QED BY <1>1, <1>2, <1>3, <1>4, <1>5, <1>6, <1>7, <1>8, <1>9, <1>10, <1>11, <1>12, <1>13,
           <1>14, <1>15, <1>16, <1>17 DEF Next, Login, View

(* The role that is looked up is the one that was noted. *)
LEMMA LookedUpInductive ==
  ASSUME TypeOK, SessionsHeld, EntitlementNoted, LookedUp, [Next]_vars
  PROVE  LookedUp'
<1>1. ASSUME Tick
      PROVE  LookedUp'
  BY <1>1, TypeOK, SessionsHeld, EntitlementNoted, LookedUp DEF TypeOK, SessionsHeld,
     EntitlementNoted, LookedUp, Entitlement, SessionUser, Tick, users, request
<1>2. ASSUME NEW u \in Users, revoke_user(u)
      PROVE  LookedUp'
  BY <1>2, TypeOK, SessionsHeld, EntitlementNoted, LookedUp DEF TypeOK, SessionsHeld,
     EntitlementNoted, LookedUp, Entitlement, SessionUser, revoke_user, users, request
<1>3. ASSUME NEW u \in Users, NEW new \in Roles, set_user_role(u, new)
      PROVE  LookedUp'
  BY <1>3, TypeOK, SessionsHeld, EntitlementNoted, LookedUp DEF TypeOK, SessionsHeld,
     EntitlementNoted, LookedUp, Entitlement, SessionUser, set_user_role, Entitle, users, request
<1>4. ASSUME NEW r \in Requests, NEW b \in Browsers, LoginRefused(r, b)
      PROVE  LookedUp'
  BY <1>4, TypeOK, SessionsHeld, EntitlementNoted, LookedUp DEF TypeOK, SessionsHeld,
     EntitlementNoted, LookedUp, Entitlement, SessionUser, LoginRefused, Arrive, users, request
<1>5. ASSUME NEW r \in Requests, NEW b \in Browsers, logout(r, b)
      PROVE  LookedUp'
  BY <1>5, TypeOK, SessionsHeld, EntitlementNoted, LookedUp DEF TypeOK, SessionsHeld,
     EntitlementNoted, LookedUp, Entitlement, SessionUser, logout, users, request
<1>6. ASSUME NEW r \in Requests, NEW b \in Browsers, NEW u \in Users, LoginVerified(r, b, u)
      PROVE  LookedUp'
  BY <1>6, TypeOK, SessionsHeld, EntitlementNoted, LookedUp DEF TypeOK, SessionsHeld,
     EntitlementNoted, LookedUp, Entitlement, SessionUser, LoginVerified, Arrive, users, request
<1>7. ASSUME NEW r \in Requests, Flash(r)
      PROVE  LookedUp'
  BY <1>7, TypeOK, SessionsHeld, EntitlementNoted, LookedUp DEF TypeOK, SessionsHeld,
     EntitlementNoted, LookedUp, Entitlement, SessionUser, Flash, users, request
<1>8. ASSUME NEW r \in Requests, LoginRevoked(r)
      PROVE  LookedUp'
  BY <1>8, TypeOK, SessionsHeld, EntitlementNoted, LookedUp DEF TypeOK, SessionsHeld,
     EntitlementNoted, LookedUp, Entitlement, SessionUser, LoginRevoked, get_active_role, users,
     request
<1>9. ASSUME NEW r \in Requests, LoginBegins(r)
      PROVE  LookedUp'
  BY <1>9, TypeOK, SessionsHeld, EntitlementNoted, LookedUp DEF TypeOK, SessionsHeld,
     EntitlementNoted, LookedUp, Entitlement, SessionUser, LoginBegins, get_active_role, users,
     request
<1>10. ASSUME NEW r \in Requests, NEW b \in Browsers, NEW v \in Views, Protected(r, b, v)
      PROVE  LookedUp'
  BY <1>10, TypeOK, SessionsHeld, EntitlementNoted, LookedUp DEF TypeOK, SessionsHeld,
     EntitlementNoted, LookedUp, Entitlement, SessionUser, Protected, Arrive, users, request
<1>11. ASSUME NEW r \in Requests, ClockDenies(r)
      PROVE  LookedUp'
  BY <1>11, TypeOK, SessionsHeld, EntitlementNoted, LookedUp DEF TypeOK, SessionsHeld,
     EntitlementNoted, LookedUp, Entitlement, SessionUser, ClockDenies, Deny, users, request
<1>12. ASSUME NEW r \in Requests, ClockAllows(r)
      PROVE  LookedUp'
  BY <1>12, TypeOK, SessionsHeld, EntitlementNoted, LookedUp DEF TypeOK, SessionsHeld,
     EntitlementNoted, LookedUp, Entitlement, SessionUser, ClockAllows, ValidTime, users, request
<1>13. ASSUME NEW r \in Requests, LookupDenies(r)
      PROVE  LookedUp'
  BY <1>13, TypeOK, SessionsHeld, EntitlementNoted, LookedUp DEF TypeOK, SessionsHeld,
     EntitlementNoted, LookedUp, Entitlement, SessionUser, LookupDenies, Deny, users, request
<1>14. ASSUME NEW r \in Requests, LookupAllows(r)
      PROVE  LookedUp'
  BY <1>14, TypeOK, SessionsHeld, EntitlementNoted, LookedUp DEF TypeOK, SessionsHeld,
     EntitlementNoted, LookedUp, Entitlement, SessionUser, LookupAllows, get_active_role, users,
     request
<1>15. ASSUME NEW r \in Requests, Serve(r)
      PROVE  LookedUp'
  BY <1>15, TypeOK, SessionsHeld, EntitlementNoted, LookedUp DEF TypeOK, SessionsHeld,
     EntitlementNoted, LookedUp, Entitlement, SessionUser, Serve, Allowed, users, request
<1>16. ASSUME NEW r \in Requests, NEW arrives \in BOOLEAN, Respond(r, arrives)
      PROVE  LookedUp'
  BY <1>16, TypeOK, SessionsHeld, EntitlementNoted, LookedUp DEF TypeOK, SessionsHeld,
     EntitlementNoted, LookedUp, Entitlement, SessionUser, Respond, users, request
<1>17. CASE UNCHANGED vars
  BY <1>17, TypeOK, SessionsHeld, EntitlementNoted, LookedUp DEF TypeOK, SessionsHeld,
     EntitlementNoted, LookedUp, Entitlement, SessionUser, vars, users, request
<1> QED BY <1>1, <1>2, <1>3, <1>4, <1>5, <1>6, <1>7, <1>8, <1>9, <1>10, <1>11, <1>12, <1>13,
           <1>14, <1>15, <1>16, <1>17 DEF Next, Login, View

(* What is served was noted, and what was noted stays so. *)
LEMMA ServedInductive ==
  ASSUME TypeOK, LookedUp, ServedAsEntitled, [Next]_vars
  PROVE  ServedAsEntitled'
<1>1. ASSUME Tick
      PROVE  ServedAsEntitled'
  BY <1>1, TypeOK, LookedUp, ServedAsEntitled DEF TypeOK, LookedUp, ServedAsEntitled, Tick, users,
     request
<1>2. ASSUME NEW u \in Users, revoke_user(u)
      PROVE  ServedAsEntitled'
  BY <1>2, TypeOK, LookedUp, ServedAsEntitled DEF TypeOK, LookedUp, ServedAsEntitled, revoke_user,
     users, request
<1>3. ASSUME NEW u \in Users, NEW new \in Roles, set_user_role(u, new)
      PROVE  ServedAsEntitled'
  BY <1>3, TypeOK, LookedUp, ServedAsEntitled DEF TypeOK, LookedUp, ServedAsEntitled,
     set_user_role, Entitle, users, request
<1>4. ASSUME NEW r \in Requests, NEW b \in Browsers, LoginRefused(r, b)
      PROVE  ServedAsEntitled'
  BY <1>4, TypeOK, LookedUp, ServedAsEntitled DEF TypeOK, LookedUp, ServedAsEntitled,
     LoginRefused, Arrive, users, request
<1>5. ASSUME NEW r \in Requests, NEW b \in Browsers, logout(r, b)
      PROVE  ServedAsEntitled'
  BY <1>5, TypeOK, LookedUp, ServedAsEntitled DEF TypeOK, LookedUp, ServedAsEntitled, logout,
     users, request
<1>6. ASSUME NEW r \in Requests, NEW b \in Browsers, NEW u \in Users, LoginVerified(r, b, u)
      PROVE  ServedAsEntitled'
  BY <1>6, TypeOK, LookedUp, ServedAsEntitled DEF TypeOK, LookedUp, ServedAsEntitled,
     LoginVerified, Arrive, users, request
<1>7. ASSUME NEW r \in Requests, Flash(r)
      PROVE  ServedAsEntitled'
  BY <1>7, TypeOK, LookedUp, ServedAsEntitled DEF TypeOK, LookedUp, ServedAsEntitled, Flash,
     users, request
<1>8. ASSUME NEW r \in Requests, LoginRevoked(r)
      PROVE  ServedAsEntitled'
  BY <1>8, TypeOK, LookedUp, ServedAsEntitled DEF TypeOK, LookedUp, ServedAsEntitled,
     LoginRevoked, get_active_role, users, request
<1>9. ASSUME NEW r \in Requests, LoginBegins(r)
      PROVE  ServedAsEntitled'
  BY <1>9, TypeOK, LookedUp, ServedAsEntitled DEF TypeOK, LookedUp, ServedAsEntitled, LoginBegins,
     get_active_role, users, request
<1>10. ASSUME NEW r \in Requests, NEW b \in Browsers, NEW v \in Views, Protected(r, b, v)
      PROVE  ServedAsEntitled'
  BY <1>10, TypeOK, LookedUp, ServedAsEntitled DEF TypeOK, LookedUp, ServedAsEntitled, Protected,
     Arrive, users, request
<1>11. ASSUME NEW r \in Requests, ClockDenies(r)
      PROVE  ServedAsEntitled'
  BY <1>11, TypeOK, LookedUp, ServedAsEntitled DEF TypeOK, LookedUp, ServedAsEntitled,
     ClockDenies, Deny, users, request
<1>12. ASSUME NEW r \in Requests, ClockAllows(r)
      PROVE  ServedAsEntitled'
  BY <1>12, TypeOK, LookedUp, ServedAsEntitled DEF TypeOK, LookedUp, ServedAsEntitled,
     ClockAllows, ValidTime, users, request
<1>13. ASSUME NEW r \in Requests, LookupDenies(r)
      PROVE  ServedAsEntitled'
  BY <1>13, TypeOK, LookedUp, ServedAsEntitled DEF TypeOK, LookedUp, ServedAsEntitled,
     LookupDenies, Deny, users, request
<1>14. ASSUME NEW r \in Requests, LookupAllows(r)
      PROVE  ServedAsEntitled'
  BY <1>14, TypeOK, LookedUp, ServedAsEntitled DEF TypeOK, LookedUp, ServedAsEntitled,
     LookupAllows, get_active_role, users, request
<1>15. ASSUME NEW r \in Requests, Serve(r)
      PROVE  ServedAsEntitled'
  BY <1>15, TypeOK, LookedUp, ServedAsEntitled DEF TypeOK, LookedUp, ServedAsEntitled, Serve,
     Allowed, users, request
<1>16. ASSUME NEW r \in Requests, NEW arrives \in BOOLEAN, Respond(r, arrives)
      PROVE  ServedAsEntitled'
  BY <1>16, TypeOK, LookedUp, ServedAsEntitled DEF TypeOK, LookedUp, ServedAsEntitled, Respond,
     users, request
<1>17. CASE UNCHANGED vars
  BY <1>17, TypeOK, LookedUp, ServedAsEntitled DEF TypeOK, LookedUp, ServedAsEntitled, vars,
     users, request
<1> QED BY <1>1, <1>2, <1>3, <1>4, <1>5, <1>6, <1>7, <1>8, <1>9, <1>10, <1>11, <1>12, <1>13,
           <1>14, <1>15, <1>16, <1>17 DEF Next, Login, View

-----------------------------------------------------------------------------
(* The invariant holds in every reachable state.                           *)
THEOREM InvariantHolds == Spec => []IInv
<1>1. Init => IInv
  BY DEF Init, IInv, TypeOK, SessionsHeld, SessionsDated, EntitlementNoted, LookedUp,
     ServedAsEntitled
<1>2. IInv /\ [Next]_vars => IInv'
  BY TypeInductive, HeldInductive, DatedInductive, NotedInductive, LookedUpInductive,
     ServedInductive DEF IInv
<1> QED BY <1>1, <1>2, PTL DEF Spec

(* Every variable keeps its type, and a session anyone holds dates from    *)
(* the login that began it.                                                *)
THEOREM SessionsDateFromLogins == Spec => []SessionsAreAbsolute
<1>1. IInv => SessionsAreAbsolute
  BY DEF IInv, SessionsDated, SessionsAreAbsolute, Held
<1> QED BY <1>1, InvariantHolds, PTL

(* What a request is shown, its user was entitled to while it was served   *)
(* (login_required and require_role, dashboard/security.py).               *)
THEOREM EveryViewIsEntitled == Spec => []ServedAsEntitled
<1>1. IInv => ServedAsEntitled
  BY DEF IInv
<1> QED BY <1>1, InvariantHolds, PTL

-----------------------------------------------------------------------------
(* The request of which pc[r] leaves "clock" for the lookup is the one     *)
(* that ClockAllows.                                                       *)
LEMMA OnlyTheClockAllows ==
  ASSUME TypeOK, [Next]_vars, NEW x \in Requests,
         pc[x] = "clock", pc'[x] \notin {"clock", "respond"}
  PROVE  ClockAllows(x)
<1>1. ASSUME Tick
      PROVE  ClockAllows(x)
  BY <1>1, TypeOK DEF TypeOK, Tick, request
<1>2. ASSUME NEW u \in Users, revoke_user(u)
      PROVE  ClockAllows(x)
  BY <1>2, TypeOK DEF TypeOK, revoke_user, request
<1>3. ASSUME NEW u \in Users, NEW new \in Roles, set_user_role(u, new)
      PROVE  ClockAllows(x)
  BY <1>3, TypeOK DEF TypeOK, set_user_role, Entitle, request
<1>4. ASSUME NEW r \in Requests, NEW b \in Browsers, LoginRefused(r, b)
      PROVE  ClockAllows(x)
  BY <1>4, TypeOK DEF TypeOK, LoginRefused, Arrive, request
<1>5. ASSUME NEW r \in Requests, NEW b \in Browsers, logout(r, b)
      PROVE  ClockAllows(x)
  BY <1>5, TypeOK DEF TypeOK, logout, request
<1>6. ASSUME NEW r \in Requests, NEW b \in Browsers, NEW u \in Users, LoginVerified(r, b, u)
      PROVE  ClockAllows(x)
  BY <1>6, TypeOK DEF TypeOK, LoginVerified, Arrive, request
<1>7. ASSUME NEW r \in Requests, Flash(r)
      PROVE  ClockAllows(x)
  BY <1>7, TypeOK DEF TypeOK, Flash, request
<1>8. ASSUME NEW r \in Requests, LoginRevoked(r)
      PROVE  ClockAllows(x)
  BY <1>8, TypeOK DEF TypeOK, LoginRevoked, get_active_role, request
<1>9. ASSUME NEW r \in Requests, LoginBegins(r)
      PROVE  ClockAllows(x)
  BY <1>9, TypeOK DEF TypeOK, LoginBegins, get_active_role, request
<1>10. ASSUME NEW r \in Requests, NEW b \in Browsers, NEW v \in Views, Protected(r, b, v)
      PROVE  ClockAllows(x)
  BY <1>10, TypeOK DEF TypeOK, Protected, Arrive, request
<1>11. ASSUME NEW r \in Requests, ClockDenies(r)
      PROVE  ClockAllows(x)
  BY <1>11, TypeOK DEF TypeOK, ClockDenies, Deny, request
<1>12. ASSUME NEW r \in Requests, ClockAllows(r)
      PROVE  ClockAllows(x)
  BY <1>12, TypeOK DEF TypeOK, ClockAllows, ValidTime, request
<1>13. ASSUME NEW r \in Requests, LookupDenies(r)
      PROVE  ClockAllows(x)
  BY <1>13, TypeOK DEF TypeOK, LookupDenies, Deny, request
<1>14. ASSUME NEW r \in Requests, LookupAllows(r)
      PROVE  ClockAllows(x)
  BY <1>14, TypeOK DEF TypeOK, LookupAllows, get_active_role, request
<1>15. ASSUME NEW r \in Requests, Serve(r)
      PROVE  ClockAllows(x)
  BY <1>15, TypeOK DEF TypeOK, Serve, Allowed, request
<1>16. ASSUME NEW r \in Requests, NEW arrives \in BOOLEAN, Respond(r, arrives)
      PROVE  ClockAllows(x)
  BY <1>16, TypeOK DEF TypeOK, Respond, request
<1>17. CASE UNCHANGED vars
  BY <1>17 DEF vars, request
<1> QED BY <1>1, <1>2, <1>3, <1>4, <1>5, <1>6, <1>7, <1>8, <1>9, <1>10, <1>11, <1>12, <1>13,
           <1>14, <1>15, <1>16, <1>17 DEF Next, Login, View

(* A session ends for good when its lifetime is over (dashboard/routes.py, *)
(* dashboard/security.py): it dates from a login, and none that dates from *)
(* a login a lifetime ago passes the clock.                                *)
THEOREM SessionsEndForGood == Spec => SessionsEnd
<1> DEFINE Passes(r) ==
      pc[r] = "clock" /\ pc'[r] \notin {"clock", "respond"} =>
        \E l \in logins : l[1] = session[r].user_id /\ now < l[2] + Lifetime
<1>1. IInv /\ [Next]_vars => [\A r \in Requests : Passes(r)]_vars
  <2> SUFFICES ASSUME IInv, [Next]_vars, NEW r \in Requests,
                      pc[r] = "clock", pc'[r] \notin {"clock", "respond"}
               PROVE  \E l \in logins : l[1] = session[r].user_id /\ now < l[2] + Lifetime
    OBVIOUS
  <2>1. ValidTime(session[r])
    BY OnlyTheClockAllows DEF IInv, ClockAllows
  <2>2. session[r] \in Sessions /\ <<session[r].user_id, session[r].authenticated_at>> \in logins
    BY <2>1 DEF IInv, TypeOK, SessionsDated, ValidTime
  <2>3. now < session[r].authenticated_at + Lifetime
    BY <2>1, <2>2 DEF IInv, TypeOK, ValidTime
  <2> QED BY <2>2, <2>3
<1>2. Spec => ServedWithinLifetime
  BY <1>1, InvariantHolds, PTL DEF Spec, ServedWithinLifetime
<1> QED BY <1>2, SessionsDateFromLogins, PTL DEF SessionsEnd

-----------------------------------------------------------------------------
(* The accounts: the inductive invariant.                                  *)

InEnrollment(p) == at[p] \in {"enroll", "insert", "codes"}
CodesWith(r) == [user_id : {r.id}, secret : {r.secret}, n : 1 .. RecoveryCodes]
Told == {a.secret : a \in {x \in answers : x.answer = "uri"}}

(* A secret is drawn by one call, and answered once. *)
SecretsDrawn ==
  /\ \A p \in Operators : InEnrollment(p) =>
       /\ secret[p] \in 1 .. started /\ name[p] \in Names
       /\ \A a \in answers : a.secret # secret[p]
  /\ \A p, q \in Operators : InEnrollment(p) /\ InEnrollment(q) /\ secret[p] = secret[q] => p = q
  /\ \A a \in answers : a.secret \in 1 .. started

(* Who is past the insertion has the name for itself; a row was a commit.  *)
NamesTaken ==
  /\ \A p \in Operators :
       /\ at[p] = "codes" => enrolled[name[p]] = None
       /\ at[p] = "revoke" => name[p] \in Names /\ enrolled[name[p]] # None
  /\ \A n \in A!Enrolled : enrolled[n].secret \in Told
  /\ Cardinality(Told) = lastId

AccountsInv ==
  /\ A!TypeOK /\ A!AccountsAreWhole /\ A!AnswersAreTrue
  /\ SecretsDrawn /\ NamesTaken

-----------------------------------------------------------------------------
(* The steps of the accounts.                                              *)
USE PartsAssumption DEF A!CodesAssumption, A!RolesAssumption, A!NoneAssumption, A!Enrollments

(* What a row is told from None by. *)
LEMMA RowsAreRows ==
  ASSUME A!TypeOK, NEW n \in Names
  PROVE  /\ enrolled[n] # None <=> enrolled[n] \in A!UserRows
         /\ n \in A!Enrolled <=> enrolled[n] # None
         /\ enrolled[n] # None => enrolled[n].secret \in A!Enrollments
BY DEF A!TypeOK, A!UserRows, A!Enrolled

(* The call of an operator is over; the others are where they were.        *)
LEMMA Returned ==
  ASSUME A!TypeOK, NEW p \in Operators, A!Return(p)
  PROVE  /\ at' \in [Operators -> {"idle", "enroll", "insert", "codes", "revoke"}]
         /\ name' \in [Operators -> Names \cup {None}]
         /\ secret' \in [Operators -> A!Enrollments \cup {None}]
         /\ inserted' \in [Operators -> 0 .. RecoveryCodes]
         /\ lock' \in Operators \cup {None}
         /\ \A q \in Operators : at'[q] = "codes" <=> lock' = q
         /\ at'[p] = "idle"
         /\ \A q \in Operators : q # p =>
              at'[q] = at[q] /\ name'[q] = name[q] /\ secret'[q] = secret[q]
<1>1. /\ at' = [at EXCEPT ![p] = "idle"] /\ name' = [name EXCEPT ![p] = None]
      /\ secret' = [secret EXCEPT ![p] = None] /\ inserted' = [inserted EXCEPT ![p] = 0]
      /\ lock' = IF lock = p THEN None ELSE lock
  BY DEF A!Return
<1>2. 0 \in 0 .. RecoveryCodes
  OBVIOUS
<1>3. \A q \in Operators : at[q] = "codes" <=> lock = q
  BY DEF A!TypeOK
<1>4. /\ at'[p] = "idle" /\ \A q \in Operators : q # p => at'[q] = at[q]
      /\ None \notin Operators
  BY <1>1 DEF A!TypeOK
<1>5. \A q \in Operators : at'[q] = "codes" <=> lock' = q
  BY <1>1, <1>3, <1>4
<1> QED BY <1>1, <1>2, <1>4, <1>5 DEF A!TypeOK

(* A call that is told it failed, or nothing.                              *)
LEMMA QuitStep ==
  ASSUME AccountsInv, NEW p \in Operators, A!Return(p), UNCHANGED <<enrolled, codes, lastId, started>>,
         \/ answers' = answers
         \/ \E answer \in {"exists", "error"} :
              /\ InEnrollment(p) /\ A!Answer(p, answer)
              /\ answer = "exists" => enrolled[name[p]] # None
  PROVE  AccountsInv'
<1>1. /\ at'[p] = "idle"
      /\ \A q \in Operators : q # p =>
           at'[q] = at[q] /\ name'[q] = name[q] /\ secret'[q] = secret[q]
  BY Returned DEF AccountsInv
<1>2. \/ answers' = answers
      \/ \E answer \in {"exists", "error"} :
           /\ InEnrollment(p) /\ answer = "exists" => name[p] \in A!Enrolled
           /\ secret[p] \in 1 .. started /\ secret[p] \in A!Enrollments /\ name[p] \in Names
           /\ answers' = answers \cup {[secret |-> secret[p], name |-> name[p], answer |-> answer]}
  <2>1. InEnrollment(p) => secret[p] \in 1 .. started /\ secret[p] \in A!Enrollments /\ name[p] \in Names
    BY DEF AccountsInv, SecretsDrawn, A!TypeOK
  <2> QED BY <2>1 DEF A!Answer, A!Enrolled
<1>3. A!TypeOK'
  <2>1. answers' \subseteq [secret : A!Enrollments, name : Names, answer : {"exists", "error", "uri"}]
    BY <1>2 DEF AccountsInv, A!TypeOK
  <2> QED BY <2>1, Returned DEF AccountsInv, A!TypeOK
<1>4. A!AccountsAreWhole'
  BY DEF AccountsInv, A!AccountsAreWhole, A!Enrolled
<1>5. \A n \in A!Enrolled : enrolled[n].secret \in Told
  BY DEF AccountsInv, NamesTaken
<1>6. Told' = Told
  BY <1>2 DEF Told
<1>7. A!AnswersAreTrue'
  <2>1. InEnrollment(p) => \A n \in A!Enrolled : enrolled[n].secret # secret[p]
    BY <1>5 DEF AccountsInv, SecretsDrawn, Told
  <2> QED BY <1>2, <2>1 DEF AccountsInv, A!AnswersAreTrue, A!Enrolled
<1>8. SecretsDrawn'
  BY <1>1, <1>2 DEF AccountsInv, SecretsDrawn, InEnrollment
<1>9. NamesTaken'
  BY <1>1, <1>5, <1>6 DEF AccountsInv, NamesTaken, A!Enrolled
<1> QED BY <1>3, <1>4, <1>7, <1>8, <1>9 DEF AccountsInv

LEMMA EnrollStep ==
  ASSUME AccountsInv, NEW p \in Operators, NEW n \in Names, A!Enroll(p, n)
  PROVE  AccountsInv'
<1>1. /\ at[p] = "idle" /\ started < MaxEnrollments /\ started' = started + 1
      /\ at' = [at EXCEPT ![p] = "enroll"] /\ name' = [name EXCEPT ![p] = n]
      /\ secret' = [secret EXCEPT ![p] = started + 1]
      /\ UNCHANGED <<enrolled, codes, lastId, lock, inserted, answers>>
  BY DEF A!Enroll, A!store
<1>2. started \in Nat /\ started + 1 \in A!Enrollments /\ started + 1 \in 0 .. MaxEnrollments
  BY <1>1 DEF AccountsInv, A!TypeOK
<1>3. /\ at'[p] = "enroll" /\ name'[p] = n /\ secret'[p] = started + 1
      /\ \A q \in Operators : q # p =>
           at'[q] = at[q] /\ name'[q] = name[q] /\ secret'[q] = secret[q]
  BY <1>1 DEF AccountsInv, A!TypeOK
<1>4. A!TypeOK'
  <2>1. \A q \in Operators : at'[q] = "codes" <=> lock' = q
    BY <1>1, <1>3 DEF AccountsInv, A!TypeOK
  <2> QED BY <1>1, <1>2, <2>1 DEF AccountsInv, A!TypeOK
<1>5. A!AccountsAreWhole' /\ A!AnswersAreTrue'
  BY <1>1 DEF AccountsInv, A!AccountsAreWhole, A!AnswersAreTrue, A!Enrolled
<1>6. SecretsDrawn'
  <2>1. \A a \in answers : a.secret \in 1 .. started /\ a.secret # started + 1
    BY <1>2 DEF AccountsInv, SecretsDrawn
  <2>2. \A q \in Operators : InEnrollment(q) => secret[q] \in 1 .. started /\ secret[q] # started + 1
    BY <1>2 DEF AccountsInv, SecretsDrawn
  <2>3. 1 .. started \subseteq 1 .. started + 1 /\ started + 1 \in 1 .. started + 1
    BY <1>2
  <2>4. \A q \in Operators : InEnrollment(q)' =>
          /\ secret'[q] \in 1 .. started' /\ name'[q] \in Names
          /\ \A a \in answers' : a.secret # secret'[q]
    BY <1>1, <1>3, <2>1, <2>2, <2>3 DEF AccountsInv, SecretsDrawn, InEnrollment
  <2>5. ASSUME NEW q \in Operators, NEW r \in Operators, InEnrollment(q)', InEnrollment(r)',
               secret'[q] = secret'[r]
        PROVE  q = r
    BY <1>3, <2>2, <2>5 DEF AccountsInv, SecretsDrawn, InEnrollment
  <2> QED BY <1>1, <2>1, <2>3, <2>4, <2>5 DEF SecretsDrawn
<1>7. NamesTaken'
  BY <1>1, <1>3 DEF AccountsInv, NamesTaken, A!Enrolled, Told
<1> QED BY <1>4, <1>5, <1>6, <1>7 DEF AccountsInv

(* The enrollment goes on: to the insertion, into its transaction, to the  *)
(* next code.                                                              *)
LEMMA ProceedStep ==
  ASSUME AccountsInv, NEW p \in Operators,
         A!SelectNone(p) \/ A!InsertUser(p) \/ A!InsertCode(p)
  PROVE  AccountsInv'
<1>1. /\ UNCHANGED <<enrolled, codes, lastId, name, secret, started, answers>>
      /\ InEnrollment(p) /\ \A q \in Operators : q # p => at'[q] = at[q]
      /\ at'[p] \in {"insert", "codes"}
      /\ at'[p] = "codes" => at[p] = "codes" \/ enrolled[name[p]] = None
  BY DEF AccountsInv, A!TypeOK, A!SelectNone, A!InsertUser, A!InsertCode, A!store, InEnrollment
<1>2. A!TypeOK'
  <2>1. inserted' \in [Operators -> 0 .. RecoveryCodes]
    BY DEF AccountsInv, A!TypeOK, A!SelectNone, A!InsertUser, A!InsertCode
  <2>2. \A q \in Operators : at[q] = "codes" <=> lock = q
    BY DEF AccountsInv, A!TypeOK
  <2>3. CASE A!SelectNone(p)
    BY <1>1, <2>1, <2>2, <2>3 DEF AccountsInv, A!TypeOK, A!SelectNone
  <2>4. CASE A!InsertUser(p)
    BY <1>1, <2>1, <2>2, <2>4 DEF AccountsInv, A!TypeOK, A!InsertUser
  <2>5. CASE A!InsertCode(p)
    BY <1>1, <2>1, <2>2, <2>5 DEF AccountsInv, A!TypeOK, A!InsertCode
  <2> QED BY <2>3, <2>4, <2>5
<1>3. A!AccountsAreWhole' /\ A!AnswersAreTrue'
  BY <1>1 DEF AccountsInv, A!AccountsAreWhole, A!AnswersAreTrue, A!Enrolled
<1>4. SecretsDrawn'
  BY <1>1 DEF AccountsInv, SecretsDrawn, InEnrollment
<1>5. NamesTaken'
  BY <1>1 DEF AccountsInv, NamesTaken, A!Enrolled, Told
<1> QED BY <1>2, <1>3, <1>4, <1>5 DEF AccountsInv

LEMMA CommitStep ==
  ASSUME AccountsInv, NEW p \in Operators, A!Commit(p)
  PROVE  AccountsInv'
<1> DEFINE n == name[p]
           s == secret[p]
           row == [id |-> lastId + 1, secret |-> s, role |-> "analyst", active |-> TRUE]
           told == [secret |-> s, name |-> n, answer |-> "uri"]
<1>1. /\ at[p] = "codes" /\ lastId' = lastId + 1 /\ A!Return(p) /\ started' = started
      /\ enrolled' = [enrolled EXCEPT ![n] = row]
      /\ codes' = codes \cup CodesWith(row) /\ answers' = answers \cup {told}
  BY DEF A!Commit, A!Row, A!CodesOf, A!Answer, CodesWith
<1>2. /\ s \in 1 .. started /\ n \in Names /\ enrolled[n] = None
      /\ \A a \in answers : a.secret # s
      /\ \A q \in Operators : q # p /\ InEnrollment(q) => secret[q] # s
  BY <1>1 DEF AccountsInv, SecretsDrawn, NamesTaken, InEnrollment
<1>3. lastId \in Nat /\ started \in 0 .. MaxEnrollments
  BY DEF AccountsInv, A!TypeOK
<1>4. /\ at'[p] = "idle"
      /\ \A q \in Operators : q # p =>
           at'[q] = at[q] /\ name'[q] = name[q] /\ secret'[q] = secret[q]
      /\ \A q \in Operators : q # p => at[q] # "codes"
  BY <1>1, Returned DEF AccountsInv, A!TypeOK
<1> HIDE DEF n, s
<1>5. Told' = Told \cup {s}
  <2>1. told.secret = s /\ told.answer = "uri"
    OBVIOUS
  <2> HIDE DEF told
  <2> QED BY <1>1, <2>1 DEF Told
<1>6. IsFiniteSet(Told') /\ Cardinality(Told') = lastId + 1 /\ lastId + 1 <= MaxEnrollments
  <2>1. Told \subseteq 1 .. started /\ s \notin Told
    BY <1>2 DEF AccountsInv, SecretsDrawn, Told
  <2>2. IsFiniteSet(1 .. started) /\ Cardinality(1 .. started) = started
    BY <1>3, FS_Interval
  <2> HIDE DEF Told
  <2>3. IsFiniteSet(Told) /\ Cardinality(Told) = lastId
    BY <2>1, <2>2, FS_Subset DEF AccountsInv, NamesTaken
  <2>4. IsFiniteSet(Told \cup {s}) /\ Cardinality(Told \cup {s}) = lastId + 1
    BY <2>1, <2>3, FS_AddElement
  <2>5. Told \cup {s} \subseteq 1 .. started
    BY <1>2, <2>1
  <2>6. Cardinality(Told \cup {s}) <= started
    BY <2>2, <2>5, FS_Subset
  <2> QED BY <1>3, <1>5, <2>4, <2>6
<1>7. row \in A!UserRows /\ row # None /\ s \in A!Enrollments /\ lastId + 1 \in A!Enrollments
  <2>1. s \in A!Enrollments /\ lastId + 1 \in A!Enrollments
    BY <1>2, <1>3, <1>6
  <2>2. row \in A!UserRows
    BY <2>1 DEF A!UserRows, A!RolesAssumption
  <2> HIDE DEF row
  <2> QED BY <2>1, <2>2 DEF A!NoneAssumption
<1>8. /\ enrolled'[n] = row /\ \A m \in Names : m # n => enrolled'[m] = enrolled[m]
      /\ A!Enrolled' = A!Enrolled \cup {n} /\ n \notin A!Enrolled
  BY <1>1, <1>2, <1>7 DEF AccountsInv, A!TypeOK, A!Enrolled
<1>9. A!TypeOK'
  <2>1. enrolled' \in [Names -> A!UserRows \cup {None}]
    BY <1>1, <1>7 DEF AccountsInv, A!TypeOK
  <2>2. codes' \subseteq [user_id : A!Enrollments, secret : A!Enrollments, n : 1 .. RecoveryCodes]
    <3>1. row.id \in A!Enrollments /\ row.secret \in A!Enrollments
      BY <1>7
    <3> HIDE DEF row
    <3>2. CodesWith(row) \subseteq
            [user_id : A!Enrollments, secret : A!Enrollments, n : 1 .. RecoveryCodes]
      BY <3>1 DEF CodesWith
    <3> QED BY <1>1, <3>2 DEF AccountsInv, A!TypeOK
  <2>3. answers' \subseteq [secret : A!Enrollments, name : Names, answer : {"exists", "error", "uri"}]
    BY <1>1, <1>2, <1>7 DEF AccountsInv, A!TypeOK
  <2>4. lastId' \in 0 .. MaxEnrollments /\ started' \in 0 .. MaxEnrollments
    BY <1>1, <1>3, <1>6
  <2> QED BY <1>1, <2>1, <2>2, <2>3, <2>4, Returned DEF AccountsInv, A!TypeOK
<1>10. A!AccountsAreWhole'
  <2>1. codes = UNION {CodesWith(enrolled[m]) : m \in A!Enrolled}
    BY DEF AccountsInv, A!AccountsAreWhole, CodesWith
  <2>2. \A m \in A!Enrolled : CodesWith(enrolled'[m]) = CodesWith(enrolled[m])
    BY <1>8 DEF A!Enrolled
  <2> HIDE DEF row
  <2>3. \A x : x \in codes <=> \E m \in A!Enrolled : x \in CodesWith(enrolled[m])
    BY <2>1
  <2>4. \A x : x \in codes' <=> \E m \in A!Enrolled' : x \in CodesWith(enrolled'[m])
    BY <1>1, <1>8, <2>2, <2>3
  <2>5. codes' = UNION {CodesWith(enrolled'[m]) : m \in A!Enrolled'}
    BY <2>4
  <2> QED BY <2>5 DEF A!AccountsAreWhole, CodesWith
<1>11. \A m \in A!Enrolled : enrolled'[m] = enrolled[m] /\ enrolled[m].secret # s
  <2>1. \A m \in A!Enrolled : enrolled[m].secret \in Told
    BY DEF AccountsInv, NamesTaken
  <2> QED BY <1>2, <1>8, <2>1 DEF Told, A!Enrolled
<1>12. A!AnswersAreTrue'
  <2>1. ASSUME NEW a \in answers
        PROVE  /\ a.answer = "uri" => a.name \in A!Enrolled' /\ enrolled'[a.name].secret = a.secret
               /\ a.answer = "exists" => a.name \in A!Enrolled'
               /\ a.answer # "uri" => \A m \in A!Enrolled' : enrolled'[m].secret # a.secret
    BY <1>2, <1>8, <1>11 DEF AccountsInv, A!AnswersAreTrue
  <2>2. told.answer = "uri" /\ told.name \in A!Enrolled' /\ enrolled'[told.name].secret = told.secret
    BY <1>8
  <2> HIDE DEF told
  <2> QED BY <1>1, <2>1, <2>2 DEF A!AnswersAreTrue
<1>13. SecretsDrawn'
  BY <1>1, <1>2, <1>4 DEF AccountsInv, SecretsDrawn, InEnrollment
<1>14. NamesTaken'
  <2>1. \A m \in A!Enrolled' : enrolled'[m].secret \in Told'
    BY <1>5, <1>8, <1>11 DEF AccountsInv, NamesTaken
  <2>2. \A q \in Operators :
          /\ at'[q] = "codes" => FALSE
          /\ at'[q] = "revoke" => name'[q] \in Names /\ enrolled'[name'[q]] # None
    BY <1>2, <1>4, <1>8 DEF AccountsInv, NamesTaken
  <2> QED BY <1>1, <1>6, <2>1, <2>2 DEF NamesTaken
<1> QED BY <1>9, <1>10, <1>12, <1>13, <1>14 DEF AccountsInv

LEMMA RevokeBeginStep ==
  ASSUME AccountsInv, NEW p \in Operators, NEW n \in Names, A!RevokeBegin(p, n)
  PROVE  AccountsInv'
<1>1. /\ at[p] = "idle" /\ enrolled[n] # None
      /\ at' = [at EXCEPT ![p] = "revoke"] /\ name' = [name EXCEPT ![p] = n]
      /\ UNCHANGED <<enrolled, codes, lastId, lock, secret, inserted, started, answers>>
  BY DEF A!RevokeBegin, A!store
<1>2. /\ at'[p] = "revoke" /\ name'[p] = n
      /\ \A q \in Operators : q # p => at'[q] = at[q] /\ name'[q] = name[q]
  BY <1>1 DEF AccountsInv, A!TypeOK
<1>3. A!TypeOK'
  <2>1. \A q \in Operators : at'[q] = "codes" <=> lock' = q
    BY <1>1, <1>2 DEF AccountsInv, A!TypeOK
  <2> QED BY <1>1, <2>1 DEF AccountsInv, A!TypeOK
<1>4. A!AccountsAreWhole' /\ A!AnswersAreTrue'
  BY <1>1 DEF AccountsInv, A!AccountsAreWhole, A!AnswersAreTrue, A!Enrolled
<1>5. SecretsDrawn'
  BY <1>1, <1>2 DEF AccountsInv, SecretsDrawn, InEnrollment
<1>6. NamesTaken'
  BY <1>1, <1>2 DEF AccountsInv, NamesTaken, A!Enrolled, Told
<1> QED BY <1>3, <1>4, <1>5, <1>6 DEF AccountsInv

(* A row is changed in its flag or its role alone, and by who holds no     *)
(* transaction open.                                                       *)
LEMMA RowStep ==
  ASSUME AccountsInv, NEW n \in Names, enrolled[n] # None, NEW row \in A!UserRows,
         row.id = enrolled[n].id, row.secret = enrolled[n].secret,
         enrolled' = [enrolled EXCEPT ![n] = row],
         UNCHANGED <<codes, lastId, started, answers>>,
         \/ UNCHANGED <<lock, at, name, secret, inserted>>
         \/ \E p \in Operators : A!Return(p)
  PROVE  AccountsInv'
<1>1. /\ A!Enrolled' = A!Enrolled /\ n \in A!Enrolled
      /\ \A m \in A!Enrolled : enrolled'[m].id = enrolled[m].id /\ enrolled'[m].secret = enrolled[m].secret
      /\ \A m \in Names : enrolled'[m] = None <=> enrolled[m] = None
  BY DEF AccountsInv, A!TypeOK, A!Enrolled
<1>2. \A q \in Operators :
        at'[q] # "idle" => at'[q] = at[q] /\ name'[q] = name[q] /\ secret'[q] = secret[q]
  BY Returned DEF AccountsInv
<1>3. A!TypeOK'
  <2>1. enrolled' \in [Names -> A!UserRows \cup {None}]
    BY DEF AccountsInv, A!TypeOK
  <2>2. CASE UNCHANGED <<lock, at, name, secret, inserted>>
    BY <2>1, <2>2 DEF AccountsInv, A!TypeOK
  <2>3. CASE \E p \in Operators : A!Return(p)
    BY <2>1, <2>3, Returned DEF AccountsInv, A!TypeOK
  <2> QED BY <2>2, <2>3
<1>4. A!AccountsAreWhole'
  <2> DEFINE Own(id, s) == [user_id : {id}, secret : {s}, n : 1 .. RecoveryCodes]
  <2>1. codes = UNION {Own(enrolled[m].id, enrolled[m].secret) : m \in A!Enrolled}
    BY DEF AccountsInv, A!AccountsAreWhole
  <2>2. UNION {Own(enrolled'[m].id, enrolled'[m].secret) : m \in A!Enrolled'} =
          UNION {Own(enrolled[m].id, enrolled[m].secret) : m \in A!Enrolled}
    BY <1>1
  <2>3. codes' = UNION {Own(enrolled'[m].id, enrolled'[m].secret) : m \in A!Enrolled'}
    BY <2>1, <2>2
  <2> QED BY <2>3 DEF A!AccountsAreWhole, Own
<1>5. A!AnswersAreTrue'
  BY <1>1 DEF AccountsInv, A!AnswersAreTrue
<1>6. SecretsDrawn'
  BY <1>2 DEF AccountsInv, SecretsDrawn, InEnrollment
<1>7. NamesTaken'
  <2>1. Told' = Told
    BY DEF Told
  <2>2. \A q \in Operators :
          /\ at'[q] = "codes" => name[q] \in Names
          /\ at'[q] = "codes" => enrolled'[name'[q]] = None
          /\ at'[q] = "revoke" => name'[q] \in Names /\ enrolled'[name'[q]] # None
    BY <1>1, <1>2 DEF AccountsInv, NamesTaken, SecretsDrawn, InEnrollment
  <2> QED BY <1>1, <2>1, <2>2 DEF AccountsInv, NamesTaken
<1> QED BY <1>3, <1>4, <1>5, <1>6, <1>7 DEF AccountsInv

(* A revoked row stays revoked, whatever the step.                         *)
RevokedStays ==
  \A n \in A!Enrolled : ~enrolled[n].active => enrolled'[n] # None /\ ~enrolled'[n].active

LEMMA AccountsStep ==
  ASSUME AccountsInv, [A!Next]_A!vars
  PROVE  AccountsInv' /\ RevokedStays
<1>1. ASSUME NEW p \in Operators, A!SelectExisting(p) \/ A!InsertConflict(p) \/ A!EnrollFails(p) \/ A!Crash(p)
      PROVE  AccountsInv' /\ enrolled' = enrolled
  <2>1. /\ A!Return(p) /\ UNCHANGED <<enrolled, codes, lastId, started>>
        /\ \/ answers' = answers
           \/ \E answer \in {"exists", "error"} :
                /\ InEnrollment(p) /\ A!Answer(p, answer)
                /\ answer = "exists" => enrolled[name[p]] # None
    BY <1>1 DEF A!SelectExisting, A!InsertConflict, A!EnrollFails, A!Crash, A!store, InEnrollment
  <2> QED BY <2>1, QuitStep
<1>2. ASSUME NEW p \in Operators, NEW n \in Names, A!Enroll(p, n) \/ A!RevokeBegin(p, n)
      PROVE  AccountsInv' /\ enrolled' = enrolled
  BY <1>2, EnrollStep, RevokeBeginStep DEF A!Enroll, A!RevokeBegin, A!store
<1>3. ASSUME NEW p \in Operators, A!SelectNone(p) \/ A!InsertUser(p) \/ A!InsertCode(p)
      PROVE  AccountsInv' /\ enrolled' = enrolled
  BY <1>3, ProceedStep DEF A!SelectNone, A!InsertUser, A!InsertCode, A!store
<1>4. ASSUME NEW p \in Operators, A!Commit(p)
      PROVE  AccountsInv' /\ RevokedStays
  <2>1. /\ at[p] = "codes" /\ \E row : enrolled' = [enrolled EXCEPT ![name[p]] = row]
    BY <1>4 DEF A!Commit
  <2>2. enrolled[name[p]] = None
    BY <2>1 DEF AccountsInv, NamesTaken
  <2>3. RevokedStays
    BY <2>1, <2>2 DEF RevokedStays, AccountsInv, A!TypeOK, A!Enrolled
  <2> QED BY <1>4, <2>3, CommitStep
<1>5. ASSUME NEW p \in Operators, A!Revoke(p)
      PROVE  AccountsInv' /\ RevokedStays
  <2> DEFINE n == name[p]
             row == [enrolled[n] EXCEPT !.active = FALSE]
  <2>1. /\ at[p] = "revoke" /\ enrolled' = [enrolled EXCEPT ![n] = row] /\ A!Return(p)
        /\ UNCHANGED <<codes, lastId, started, answers>>
    BY <1>5 DEF A!Revoke
  <2>2. n \in Names /\ enrolled[n] \in A!UserRows /\ enrolled[n] # None
    BY <2>1, RowsAreRows DEF AccountsInv, NamesTaken
  <2>3. /\ row \in A!UserRows /\ row.id = enrolled[n].id /\ row.secret = enrolled[n].secret
        /\ ~row.active
    BY <2>2 DEF A!UserRows
  <2> HIDE DEF n, row
  <2>4. RevokedStays
    BY <2>1, <2>2, <2>3 DEF RevokedStays, AccountsInv, A!TypeOK, A!Enrolled
  <2> QED BY <2>1, <2>2, <2>3, <2>4, RowStep
<1>6. ASSUME NEW n \in Names, NEW new \in Roles, A!SetRole(n, new)
      PROVE  AccountsInv' /\ RevokedStays
  <2> DEFINE row == [enrolled[n] EXCEPT !.role = new]
  <2>1. /\ enrolled[n] # None /\ enrolled' = [enrolled EXCEPT ![n] = row]
        /\ UNCHANGED <<codes, lastId, started, answers>>
        /\ UNCHANGED <<lock, at, name, secret, inserted>>
    BY <1>6 DEF A!SetRole, A!operator
  <2>2. enrolled[n] \in A!UserRows
    BY <2>1, RowsAreRows DEF AccountsInv
  <2>3. /\ row \in A!UserRows /\ row.id = enrolled[n].id /\ row.secret = enrolled[n].secret
        /\ row.active = enrolled[n].active
    BY <2>2 DEF A!UserRows
  <2> HIDE DEF row
  <2>4. RevokedStays
    BY <2>1, <2>2, <2>3 DEF RevokedStays, AccountsInv, A!TypeOK, A!Enrolled
  <2> QED BY <2>1, <2>2, <2>3, <2>4, RowStep
<1>7. ASSUME UNCHANGED A!vars
      PROVE  AccountsInv' /\ enrolled' = enrolled
  <2>1. UNCHANGED <<enrolled, codes, lastId, lock, at, name, secret, inserted, started, answers>>
    BY <1>7 DEF A!vars, A!store, A!operator
  <2> QED BY <2>1 DEF AccountsInv, A!TypeOK, A!AccountsAreWhole, A!AnswersAreTrue, A!Enrolled,
         SecretsDrawn, NamesTaken, InEnrollment, Told
<1>8. enrolled' = enrolled => RevokedStays
  BY DEF RevokedStays, A!Enrolled
<1> QED BY <1>1, <1>2, <1>3, <1>4, <1>5, <1>6, <1>7, <1>8 DEF A!Next

LEMMA AccountsInit == A!Init => AccountsInv
<1> SUFFICES ASSUME A!Init PROVE AccountsInv
  OBVIOUS
<1>1. 0 \in 0 .. MaxEnrollments /\ 0 \in 0 .. RecoveryCodes
  OBVIOUS
<1>2. A!TypeOK
  BY <1>1 DEF A!Init, A!TypeOK
<1>3. A!Enrolled = {} /\ answers = {} /\ Told = {} /\ codes = {} /\ lastId = 0
      /\ \A p \in Operators : at[p] = "idle"
  BY DEF A!Init, A!Enrolled, Told
<1>4. A!AccountsAreWhole /\ A!AnswersAreTrue /\ SecretsDrawn /\ NamesTaken
  BY <1>3, FS_EmptySet DEF A!AccountsAreWhole, A!AnswersAreTrue, SecretsDrawn, NamesTaken,
     InEnrollment
<1> QED BY <1>2, <1>4 DEF AccountsInv

(* However enrollments, revocations and changes of role of any names       *)
(* overlap, fail or are killed, an account is whole, those who asked were  *)
(* told the truth of it, and it does not come back once revoked.           *)
THEOREM AccountsStaySound == MCSpec => AccountsAreSound
<1>1. MCInit => AccountsInv
  BY AccountsInit DEF MCInit
<1>2. [MCNext]_<<part, vars, limiter, accounts, startup, views>> => [A!Next]_A!vars
  BY DEF MCNext, Sessioned, Limited, Enrolling, Starting, Viewed, accounts, A!vars, A!store,
     A!operator
<1>3. AccountsInv /\ [MCNext]_<<part, vars, limiter, accounts, startup, views>> =>
        AccountsInv' /\ [RevokedStays]_A!vars
  BY <1>2, AccountsStep
<1>4. MCSpec => []AccountsInv /\ [][RevokedStays]_A!vars
  BY <1>1, <1>3, PTL DEF MCSpec
<1>5. AccountsInv => A!TypeOK /\ A!AccountsAreWhole /\ A!AnswersAreTrue
  BY DEF AccountsInv
<1>6. [][RevokedStays]_A!vars => A!RevokedForGood
  BY DEF RevokedStays, A!RevokedForGood
<1> QED BY <1>4, <1>5, <1>6, PTL DEF AccountsAreSound, A!AccountsAreSound

-----------------------------------------------------------------------------
(* The limiter: the inductive invariant.                                   *)

(* Callers were held up for no longer than Lag, and every attempt is one   *)
(* of the calls.                                                           *)
Waiting == {t \in Threads : call[t] # None}
CallsCounted ==
  /\ \A t \in Waiting : ticks - call[t].ts <= Lag
  /\ IsFiniteSet(Waiting) /\ IsFiniteSet(allowed)
  /\ Cardinality(allowed) + Cardinality(Waiting) <= calls
  /\ \A c \in Clients : windows[c] # None => windows[c].count + Cardinality(Waiting) <= calls

(* What a window allowed, which began with who opened it.                  *)
InWindow(c, s) == {a \in allowed : a.client = c /\ a.start = s}
AttemptsDated ==
  \A a \in allowed :
    /\ a.start <= a.at /\ a.at < a.start + Window + Lag
    /\ \E o \in InWindow(a.client, a.start) : o.at <= a.start + Lag
WindowsBounded == \A c \in Clients, s \in L!Times : Cardinality(InWindow(c, s)) <= MaxAttempts

(* The windows of a client follow each other: a later one begins when its  *)
(* forerunner is over, though held up callers date it earlier.             *)
WindowsApart ==
  \A a, b \in allowed : a.client = b.client /\ a.start < b.start =>
    /\ a.start + Window <= b.at
    /\ a.start + Window - Lag <= b.start
    /\ a.at <= b.at

(* The window in the table is the last one; of what is not in the table    *)
(* all windows are over.                                                   *)
LastWindow(c) ==
  \A a \in allowed : a.client = c =>
    /\ windows[c] = None => a.start + Window < ticks
    /\ windows[c] # None =>
         /\ a.start <= windows[c].start
         /\ a.start < windows[c].start =>
              a.start + Window <= ticks /\ a.start + Window - Lag <= windows[c].start
Opens(c) ==
  windows[c] # None =>
    /\ Cardinality(InWindow(c, windows[c].start)) <= windows[c].count
    /\ InWindow(c, windows[c].start) # {}

LimiterInv ==
  /\ L!TypeOK /\ CallsCounted
  /\ AttemptsDated /\ WindowsBounded /\ WindowsApart
  /\ \A c \in Clients : LastWindow(c) /\ Opens(c)
  /\ L!RetryAfterIsHonest /\ L!EndedWindowsGo

-----------------------------------------------------------------------------
(* The steps of the limiter.                                               *)
USE DEF L!LimiterAssumption, L!NoneAssumption

LEMMA SameCardinality == \A S : L!Cardinality(S) = Cardinality(S)
BY DEF L!Cardinality, Cardinality

(* What the variables hold when it is not None. *)
LEMMA LimiterTypes ==
  ASSUME L!TypeOK
  PROVE  /\ ticks \in 0 .. MaxTicks /\ calls \in 0 .. MaxCalls
         /\ \A t \in Waiting : call[t].client \in Clients /\ call[t].ts \in 0 .. ticks
         /\ \A c \in Clients : windows[c] # None =>
              /\ windows[c] \in [start : 0 .. ticks, count : 1 .. MaxCalls]
              /\ windows[c].start \in 0 .. ticks /\ windows[c].count \in 1 .. MaxCalls
         /\ \A s \in 0 .. ticks, n \in 1 .. MaxCalls :
              /\ [start |-> s, count |-> n] # None
              /\ [start |-> s, count |-> n] \in [start : 0 .. ticks, count : 1 .. MaxCalls]
         /\ \A a \in allowed :
              a.client \in Clients /\ a.at \in 0 .. ticks /\ a.start \in 0 .. ticks
<1>1. ticks \in 0 .. MaxTicks /\ calls \in 0 .. MaxCalls
  BY DEF L!TypeOK, L!Times
<1>2. \A t \in Waiting : call[t] \in [client : Clients, ts : 0 .. ticks]
  BY DEF L!TypeOK, Waiting
<1>3. \A c \in Clients : windows[c] # None =>
        windows[c] \in [start : 0 .. ticks, count : 1 .. MaxCalls]
  BY DEF L!TypeOK
<1>4. \A s \in 0 .. ticks, n \in 1 .. MaxCalls : [start |-> s, count |-> n] \in L!Windows
  BY <1>1, PartsAssumption DEF L!Windows, L!Times
<1>5. \A a \in allowed :
        a.client \in Clients /\ a.at \in 0 .. ticks /\ a.start \in 0 .. ticks
  BY DEF L!TypeOK
<1>6. None \notin L!Windows
  BY PartsAssumption
<1> QED BY <1>1, <1>2, <1>3, <1>4, <1>5, <1>6

(* What check leaves in the table: the window of its client, counted or    *)
(* opened, and of the others all but some that are over.                   *)
LEMMA CheckedTable ==
  ASSUME LimiterInv, NEW t \in Threads, L!Check(t),
         NEW c, c = call[t].client, NEW ts, ts = call[t].ts,
         NEW w, w = L!Counted(windows[c], ts)
  PROVE  /\ t \in Waiting /\ c \in Clients /\ ts \in 0 .. ticks /\ ticks - ts <= Lag
         /\ \/ /\ w = [start |-> ts, count |-> 1]
               /\ windows[c] = None \/ windows[c].start + Window <= ts
            \/ /\ windows[c] # None /\ ts < windows[c].start + Window
               /\ w.start = windows[c].start /\ w.count = windows[c].count + 1
         /\ w \in [start : 0 .. ticks, count : 1 .. MaxCalls] /\ w # None
         /\ w.start \in 0 .. ticks /\ w.count \in 1 .. MaxCalls /\ ts - Window <= w.start
         /\ w.count + Cardinality(Waiting) <= calls + 1
         /\ windows' \in [Clients -> {None} \cup [start : 0 .. ticks, count : 1 .. MaxCalls]]
         /\ windows'[c] = w
         /\ \A d \in Clients \ {c} :
              \/ windows'[d] = windows[d]
              \/ windows'[d] = None /\ windows[d] # None /\ windows[d].start + Window < ts
<1> USE PartsAssumption
<1>t. L!TypeOK
  BY DEF LimiterInv
<1>1. t \in Waiting /\ c \in Clients /\ ts \in 0 .. ticks /\ ticks - ts <= Lag
  BY <1>t, LimiterTypes DEF L!Check, Waiting, LimiterInv, CallsCounted
<1>2. windows[c] # None =>
        windows[c].start \in 0 .. ticks /\ windows[c].count \in 1 .. MaxCalls
  BY <1>t, <1>1, LimiterTypes
<1>3. \/ /\ w = [start |-> ts, count |-> 1]
         /\ windows[c] = None \/ windows[c].start + Window <= ts
      \/ /\ windows[c] # None /\ ts < windows[c].start + Window
         /\ w = [windows[c] EXCEPT !.count = @ + 1]
  BY <1>1, <1>2 DEF L!Counted, L!Opened
<1>4. Cardinality(Waiting) \in Nat /\ Cardinality(Waiting) >= 1 /\ Cardinality(allowed) \in Nat
  <2>1. IsFiniteSet(Waiting) /\ IsFiniteSet(allowed) /\ Waiting # {}
    BY <1>1 DEF LimiterInv, CallsCounted
  <2> QED BY <2>1, FS_CardinalityType, FS_EmptySet
<1>5. calls \in 0 .. MaxCalls /\ ticks \in 0 .. MaxTicks
  BY <1>t, LimiterTypes
<1>6. 1 + Cardinality(Waiting) <= calls + 1
  BY <1>4, <1>5 DEF LimiterInv, CallsCounted
<1>7. /\ w.start \in 0 .. ticks /\ w.count \in 1 .. MaxCalls /\ ts - Window <= w.start
      /\ w.count + Cardinality(Waiting) <= calls + 1
      /\ w = [start |-> w.start, count |-> w.count]
      /\ \/ /\ w = [start |-> ts, count |-> 1]
            /\ windows[c] = None \/ windows[c].start + Window <= ts
         \/ /\ windows[c] # None /\ ts < windows[c].start + Window
            /\ w.start = windows[c].start /\ w.count = windows[c].count + 1
  <2>1. CASE /\ w = [start |-> ts, count |-> 1]
             /\ windows[c] = None \/ windows[c].start + Window <= ts
    BY <2>1, <1>1, <1>4, <1>5, <1>6
  <2>2. CASE /\ windows[c] # None /\ ts < windows[c].start + Window
             /\ w = [windows[c] EXCEPT !.count = @ + 1]
    <3>1. windows[c] \in [start : 0 .. ticks, count : 1 .. MaxCalls]
      BY <2>2, <1>t, <1>1, LimiterTypes
    <3>2. w.start = windows[c].start /\ w.count = windows[c].count + 1
          /\ w = [start |-> w.start, count |-> w.count]
      BY <2>2, <3>1
    <3>3. windows[c].count + Cardinality(Waiting) <= calls
      BY <2>2, <1>1 DEF LimiterInv, CallsCounted
    <3> QED BY <2>2, <3>2, <3>3, <1>1, <1>2, <1>4, <1>5
  <2> QED BY <2>1, <2>2, <1>3
<1>8. w \in [start : 0 .. ticks, count : 1 .. MaxCalls] /\ w # None
  BY <1>7, <1>t, LimiterTypes
<1> DEFINE u == [windows EXCEPT ![c] = w]
<1>9. windows' = L!Cleaned(u, ts)
  BY DEF L!Check
<1>10. u \in [Clients -> {None} \cup [start : 0 .. ticks, count : 1 .. MaxCalls]]
       /\ u[c] = w /\ \A d \in Clients \ {c} : u[d] = windows[d]
  BY <1>1, <1>8, <1>t DEF L!TypeOK
<1>11. /\ windows' \in [Clients -> {None} \cup [start : 0 .. ticks, count : 1 .. MaxCalls]]
       /\ \A d \in Clients : \/ windows'[d] = u[d]
                             \/ windows'[d] = None /\ u[d] # None /\ ~(u[d].start >= ts - Window)
  <2> HIDE DEF u
  <2> QED BY <1>9, <1>10 DEF L!Cleaned
<1>12. windows'[c] = w
  BY <1>1, <1>5, <1>7, <1>10, <1>11
<1>13. ASSUME NEW d \in Clients \ {c}, windows'[d] # windows[d]
       PROVE  windows'[d] = None /\ windows[d] # None /\ windows[d].start + Window < ts
  <2>1. windows'[d] = None /\ windows[d] # None /\ ~(windows[d].start >= ts - Window)
    BY <1>10, <1>11, <1>13
  <2>2. windows[d].start \in 0 .. ticks
    BY <2>1, <1>t, LimiterTypes
  <2> QED BY <2>1, <2>2, <1>1, <1>5
<1> QED BY <1>1, <1>7, <1>8, <1>11, <1>12, <1>13

(* What check answers, and what it adds to the attempts allowed.           *)
LEMMA CheckedAttempt ==
  ASSUME LimiterInv, NEW t \in Threads, L!Check(t),
         NEW c, c = call[t].client, NEW ts, ts = call[t].ts,
         NEW w, w = L!Counted(windows[c], ts)
  PROVE  /\ ticks' = ticks /\ calls' = calls
         /\ Waiting' = Waiting \ {t} /\ call' \in [Threads -> {None} \cup [client : Clients, ts : 0 .. ticks]]
         /\ \A x \in Waiting' : call'[x] = call[x]
         /\ \/ /\ w.count > MaxAttempts /\ allowed' = allowed
               /\ refused' = [ts |-> ts, start |-> w.start, retry |-> L!RetryAfter(w, ts)]
            \/ /\ w.count <= MaxAttempts /\ refused' = refused
               /\ \E new \in [id : 0 .. MaxCalls, client : {c}, at : {ticks}, start : {w.start}] :
                    allowed' = allowed \cup {new}
<1> USE PartsAssumption
<1>t. L!TypeOK
  BY DEF LimiterInv
<1>1. /\ w.count \in 1 .. MaxCalls /\ t \in Waiting
  BY CheckedTable
<1>2. /\ ticks' = ticks /\ calls' = calls /\ call' = [call EXCEPT ![t] = None]
  BY DEF L!Check
<1>3. /\ Waiting' = Waiting \ {t} /\ \A x \in Waiting' : call'[x] = call[x]
      /\ call' \in [Threads -> {None} \cup [client : Clients, ts : 0 .. ticks]]
  BY <1>1, <1>2, <1>t DEF Waiting, L!TypeOK
<1>4. CASE w.count > MaxAttempts
  BY <1>2, <1>3, <1>4 DEF L!Check
<1>5. CASE ~(w.count > MaxAttempts)
  <2> DEFINE new == [id |-> L!Cardinality(allowed), client |-> c, at |-> ticks, start |-> w.start]
  <2>1. allowed' = allowed \cup {new} /\ refused' = refused
    BY <1>5 DEF L!Check
  <2>2. L!Cardinality(allowed) \in 0 .. MaxCalls
    <3>1. Cardinality(allowed) \in Nat /\ Cardinality(Waiting) \in Nat
      BY FS_CardinalityType DEF LimiterInv, CallsCounted
    <3>2. Cardinality(allowed) + Cardinality(Waiting) <= calls /\ calls \in 0 .. MaxCalls
      BY <1>t, LimiterTypes DEF LimiterInv, CallsCounted
    <3> QED BY <3>1, <3>2, SameCardinality
  <2>3. w.count <= MaxAttempts
    BY <1>1, <1>5
  <2>4. new \in [id : 0 .. MaxCalls, client : {c}, at : {ticks}, start : {w.start}]
    BY <2>2
  <2> HIDE DEF new
  <2> QED BY <1>2, <1>3, <2>1, <2>3, <2>4
<1> QED BY <1>4, <1>5


LEMMA LimiterTicks ==
  ASSUME LimiterInv, L!Tick
  PROVE  LimiterInv'
<1> USE PartsAssumption
<1>t. L!TypeOK
  BY DEF LimiterInv
<1>1. ticks' = ticks + 1 /\ ticks < MaxTicks /\ UNCHANGED <<windows, call, calls, allowed, refused>>
  BY DEF L!Tick
<1>2. ticks \in 0 .. MaxTicks /\ calls \in 0 .. MaxCalls
  BY <1>t, LimiterTypes
<1>3. L!TypeOK'
  <2>1. call \in [Threads -> {None} \cup [client : Clients, ts : 0 .. ticks + 1]]
    BY <1>t, <1>2 DEF L!TypeOK
  <2>2. windows \in [Clients -> {None} \cup [start : 0 .. ticks + 1, count : 1 .. MaxCalls]]
    BY <1>t, <1>2 DEF L!TypeOK
  <2>3. allowed \subseteq [id : 0 .. MaxCalls, client : Clients, at : 0 .. ticks + 1, start : 0 .. ticks + 1]
    BY <1>t, <1>2 DEF L!TypeOK
  <2>4. refused # None => refused.ts \in 0 .. ticks + 1 /\ refused.start \in 0 .. ticks + 1
    BY <1>t, <1>2 DEF L!TypeOK
  <2> QED BY <1>1, <1>2, <2>1, <2>2, <2>3, <2>4 DEF L!TypeOK, L!Times
<1>4. CallsCounted'
  <2>1. Waiting' = Waiting
    BY <1>1 DEF Waiting
  <2>2. ASSUME NEW t \in Waiting
        PROVE  ticks' - call'[t].ts <= Lag
    <3>1. ticks - call[t].ts < Lag
      BY DEF L!Tick, Waiting
    <3>2. call[t].ts \in 0 .. ticks
      BY <1>t, LimiterTypes
    <3> QED BY <1>1, <1>2, <3>1, <3>2
  <2> QED BY <1>1, <2>1, <2>2 DEF LimiterInv, CallsCounted
<1>5. \A c, s : InWindow(c, s)' = InWindow(c, s)
  BY <1>1 DEF InWindow
<1>6. AttemptsDated' /\ WindowsApart'
  BY <1>1 DEF LimiterInv, AttemptsDated, WindowsApart, InWindow
<1>7. WindowsBounded'
  BY <1>1 DEF LimiterInv, WindowsBounded, InWindow, L!Times
<1>8. ASSUME NEW c \in Clients
      PROVE  LastWindow(c)' /\ Opens(c)'
  <2>1. LastWindow(c) /\ Opens(c)
    BY DEF LimiterInv
  <2>2. Opens(c)'
    BY <1>1, <2>1 DEF Opens, InWindow
  <2>3. \A a \in allowed : a.start \in 0 .. ticks
    BY <1>t, LimiterTypes
  <2>4. LastWindow(c)'
    BY <1>1, <1>2, <2>1, <2>3 DEF LastWindow
  <2> QED BY <2>2, <2>4
<1>9. L!RetryAfterIsHonest' /\ L!EndedWindowsGo'
  BY <1>1 DEF LimiterInv, L!RetryAfterIsHonest, L!EndedWindowsGo, L!Known
<1> QED BY <1>3, <1>4, <1>6, <1>7, <1>8, <1>9 DEF LimiterInv

LEMMA LimiterCalls ==
  ASSUME LimiterInv, NEW t \in Threads, NEW c \in Clients, L!Call(t, c)
  PROVE  LimiterInv'
<1> USE PartsAssumption
<1>t. L!TypeOK
  BY DEF LimiterInv
<1> DEFINE new == [client |-> c, ts |-> ticks]
<1>1. /\ call[t] = None /\ calls < MaxCalls /\ calls' = calls + 1
      /\ call' = [call EXCEPT ![t] = new] /\ UNCHANGED <<ticks, windows, allowed, refused>>
  BY DEF L!Call
<1>2. ticks \in 0 .. MaxTicks /\ calls \in 0 .. MaxCalls
  BY <1>t, LimiterTypes
<1>3. new \in [client : Clients, ts : 0 .. ticks] /\ new.ts = ticks /\ new # None
  <2>1. new \in L!Attempts
    BY <1>2 DEF L!Attempts, L!Times
  <2> QED BY <1>2, <2>1
<1> HIDE DEF new
<1>4. call' \in [Threads -> {None} \cup [client : Clients, ts : 0 .. ticks]]
  BY <1>1, <1>3, <1>t DEF L!TypeOK
<1>5. L!TypeOK'
  BY <1>1, <1>2, <1>4, <1>t DEF L!TypeOK, L!Times
<1>6. Waiting' = Waiting \cup {t} /\ t \notin Waiting
  BY <1>1, <1>3, <1>t DEF Waiting, L!TypeOK
<1>7. CallsCounted'
  <2>1. CallsCounted
    BY DEF LimiterInv
  <2>2. IsFiniteSet(Waiting') /\ Cardinality(Waiting') = Cardinality(Waiting) + 1
    BY <1>6, <2>1, FS_AddElement DEF CallsCounted
  <2>3. Cardinality(Waiting) \in Nat /\ Cardinality(allowed) \in Nat
    BY <2>1, FS_CardinalityType DEF CallsCounted
  <2>4. \A x \in Waiting' : ticks' - call'[x].ts <= Lag
    <3>1. \A x \in Waiting : call'[x] = call[x]
      BY <1>1, <1>6, <1>t DEF L!TypeOK, Waiting
    <3>2. call'[t] = new
      BY <1>1, <1>t DEF L!TypeOK
    <3> QED BY <1>1, <1>2, <1>3, <1>6, <2>1, <3>1, <3>2 DEF CallsCounted
  <2>5. Cardinality(allowed') + Cardinality(Waiting') <= calls'
    BY <1>1, <1>2, <2>1, <2>2, <2>3 DEF CallsCounted
  <2>6. \A d \in Clients : windows'[d] # None => windows'[d].count + Cardinality(Waiting') <= calls'
    <3> SUFFICES ASSUME NEW d \in Clients, windows'[d] # None
                 PROVE  windows'[d].count + Cardinality(Waiting') <= calls'
      OBVIOUS
    <3>1. windows[d].count \in 1 .. MaxCalls /\ windows'[d] = windows[d]
      BY <1>1, <1>t, LimiterTypes
    <3>2. windows[d].count + Cardinality(Waiting) <= calls
      BY <1>1, <2>1 DEF CallsCounted
    <3> QED BY <1>1, <1>2, <2>2, <2>3, <3>1, <3>2
  <2>7. IsFiniteSet(allowed')
    BY <1>1, <2>1 DEF CallsCounted
  <2> HIDE DEF new
  <2> QED BY <2>2, <2>4, <2>5, <2>6, <2>7 DEF CallsCounted
<1>8. AttemptsDated' /\ WindowsApart'
  BY <1>1 DEF LimiterInv, AttemptsDated, WindowsApart, InWindow
<1>9. WindowsBounded'
  BY <1>1 DEF LimiterInv, WindowsBounded, InWindow, L!Times
<1>10. \A d \in Clients : LastWindow(d)' /\ Opens(d)'
  BY <1>1 DEF LimiterInv, LastWindow, Opens, InWindow
<1>11. L!RetryAfterIsHonest' /\ L!EndedWindowsGo'
  BY <1>1 DEF LimiterInv, L!RetryAfterIsHonest, L!EndedWindowsGo, L!Known
<1> QED BY <1>5, <1>7, <1>8, <1>9, <1>10, <1>11 DEF LimiterInv

(* The windows a client had before the one it is counted in are over.      *)
LEMMA EarlierWindows ==
  ASSUME LimiterInv, NEW t \in Threads, L!Check(t),
         NEW c, c = call[t].client, NEW ts, ts = call[t].ts,
         NEW w, w = L!Counted(windows[c], ts),
         NEW a \in allowed, a.client = c
  PROVE  /\ a.start <= w.start
         /\ w.count = 1 => a.start < w.start
         /\ a.start < w.start => a.start + Window <= ticks /\ a.start + Window - Lag <= w.start
<1> USE PartsAssumption
<1>t. L!TypeOK
  BY DEF LimiterInv
<1>1. ticks \in 0 .. MaxTicks /\ a.start \in 0 .. ticks
  BY <1>t, LimiterTypes
<1>2. c \in Clients /\ ts \in 0 .. ticks /\ ticks - ts <= Lag
  BY CheckedTable
<1>3. LastWindow(c)
  BY <1>2 DEF LimiterInv
<1>4. windows[c] # None => windows[c].start \in 0 .. ticks /\ windows[c].count \in 1 .. MaxCalls
  BY <1>2, <1>t, LimiterTypes
<1>5. CASE w = [start |-> ts, count |-> 1] /\ windows[c] = None
  BY <1>1, <1>2, <1>3, <1>5 DEF LastWindow
<1>6. CASE w = [start |-> ts, count |-> 1] /\ windows[c] # None /\ windows[c].start + Window <= ts
  <2>1. a.start <= windows[c].start
    BY <1>3, <1>6 DEF LastWindow
  <2>2. w.start = ts
    BY <1>6
  <2>3. windows[c].start \in 0 .. ticks
    BY <1>4, <1>6
  <2>4. a.start + Window <= ts
    BY <1>1, <1>2, <1>6, <2>1, <2>3
  <2> QED BY <1>1, <1>2, <2>2, <2>4
<1>7. CASE windows[c] # None /\ w.start = windows[c].start /\ w.count = windows[c].count + 1
  BY <1>1, <1>2, <1>3, <1>4, <1>7 DEF LastWindow
<1>8. \/ /\ w = [start |-> ts, count |-> 1]
         /\ windows[c] = None \/ windows[c].start + Window <= ts
      \/ /\ windows[c] # None /\ ts < windows[c].start + Window
         /\ w.start = windows[c].start /\ w.count = windows[c].count + 1
  BY CheckedTable
<1> QED BY <1>5, <1>6, <1>7, <1>8

(* The window the attempt is counted in: what it allowed before.           *)
LEMMA ThisWindow ==
  ASSUME LimiterInv, NEW t \in Threads, L!Check(t),
         NEW c, c = call[t].client, NEW ts, ts = call[t].ts,
         NEW w, w = L!Counted(windows[c], ts)
  PROVE  /\ IsFiniteSet(InWindow(c, w.start))
         /\ Cardinality(InWindow(c, w.start)) \in Nat
         /\ Cardinality(InWindow(c, w.start)) <= w.count - 1
         /\ w.count = 1 => w.start = ts
         /\ w.count # 1 => InWindow(c, w.start) # {}
         /\ ticks < w.start + Window + Lag
<1> USE PartsAssumption
<1>t. L!TypeOK
  BY DEF LimiterInv
<1>1. c \in Clients /\ ts \in 0 .. ticks /\ ticks - ts <= Lag /\ ticks \in 0 .. MaxTicks
  BY CheckedTable, <1>t, LimiterTypes
<1>2. w.start \in 0 .. ticks /\ w.count \in 1 .. MaxCalls
  BY CheckedTable
<1>3. IsFiniteSet(InWindow(c, w.start)) /\ Cardinality(InWindow(c, w.start)) \in Nat
  <2>1. IsFiniteSet(allowed) /\ InWindow(c, w.start) \subseteq allowed
    BY DEF LimiterInv, CallsCounted, InWindow
  <2> QED BY <2>1, FS_Subset, FS_CardinalityType
<1>4. CASE w = [start |-> ts, count |-> 1]
  <2>1. InWindow(c, w.start) = {}
    <3>1. \A a \in allowed : a.client = c => a.start < w.start
      BY <1>4, EarlierWindows
    <3>2. \A a \in allowed : a.start \in 0 .. ticks
      BY <1>t, LimiterTypes
    <3> QED BY <1>2, <3>1, <3>2 DEF InWindow
  <2>2. Cardinality(InWindow(c, w.start)) = 0
    BY <2>1, FS_EmptySet
  <2>3. w.start = ts /\ w.count = 1
    BY <1>4
  <2>4. ticks < w.start + Window + Lag
    BY <1>1, <2>3
  <2> QED BY <1>3, <2>2, <2>3, <2>4
<1>5. CASE /\ windows[c] # None /\ ts < windows[c].start + Window
           /\ w.start = windows[c].start /\ w.count = windows[c].count + 1
  <2>1. windows[c].count \in 1 .. MaxCalls
    BY <1>1, <1>5, <1>t, LimiterTypes
  <2>2. Cardinality(InWindow(c, w.start)) <= windows[c].count /\ InWindow(c, w.start) # {}
    BY <1>1, <1>5 DEF LimiterInv, Opens
  <2>3. ticks < w.start + Window + Lag
    BY <1>1, <1>2, <1>5
  <2> QED BY <1>2, <1>3, <1>5, <2>1, <2>2, <2>3
<1> QED BY <1>4, <1>5, CheckedTable

LEMMA Division ==
  ASSUME NEW x \in Int, NEW d \in Nat \ {0}
  PROVE  /\ x \div d \in Int
         /\ (x \div d) * d <= x /\ x <= (x \div d + 1) * d
         /\ (x \div d + 1) * d = (x \div d) * d + d
         /\ (x \div d) * d \in Int
<1>1. x \div d \in Int
  OBVIOUS
<1>2. x = d * (x \div d) + (x % d) /\ x % d \in 0 .. d - 1
  OBVIOUS
<1>3. \A q \in Int : (q + 1) * d = q * d + d /\ d * q = q * d /\ q * d \in Int
  OBVIOUS
<1> DEFINE q == x \div d
           m == q * d
<1>4. (q + 1) * d = m + d /\ d * q = m /\ m \in Int
  BY <1>1, <1>3
<1>5. x = m + (x % d)
  BY <1>2, <1>4
<1> HIDE DEF m, q
<1>6. m <= x /\ x <= m + d
  BY <1>2, <1>4, <1>5
<1> QED BY <1>1, <1>4, <1>6 DEF m, q

(* A check answers honestly, and cleans a full table.                      *)
LEMMA CheckAnswers ==
  ASSUME LimiterInv, NEW t \in Threads, L!Check(t)
  PROVE  L!TypeOK' /\ CallsCounted' /\ L!RetryAfterIsHonest' /\ L!EndedWindowsGo'
<1> USE PartsAssumption
<1> DEFINE c == call[t].client
           ts == call[t].ts
           w == L!Counted(windows[c], ts)
<1>t. L!TypeOK
  BY DEF LimiterInv
<1>1. /\ t \in Waiting /\ c \in Clients /\ ts \in 0 .. ticks /\ ticks - ts <= Lag
      /\ w.start \in 0 .. ticks /\ w.count \in 1 .. MaxCalls /\ ts - Window <= w.start
      /\ w.count + Cardinality(Waiting) <= calls + 1
      /\ windows' \in [Clients -> {None} \cup [start : 0 .. ticks, count : 1 .. MaxCalls]]
      /\ windows'[c] = w
      /\ \A d \in Clients \ {c} :
           \/ windows'[d] = windows[d]
           \/ windows'[d] = None /\ windows[d] # None /\ windows[d].start + Window < ts
  BY CheckedTable
<1>2. /\ ticks' = ticks /\ calls' = calls
      /\ Waiting' = Waiting \ {t} /\ call' \in [Threads -> {None} \cup [client : Clients, ts : 0 .. ticks]]
      /\ \A x \in Waiting' : call'[x] = call[x]
      /\ \/ /\ w.count > MaxAttempts /\ allowed' = allowed
            /\ refused' = [ts |-> ts, start |-> w.start, retry |-> L!RetryAfter(w, ts)]
         \/ /\ w.count <= MaxAttempts /\ refused' = refused
            /\ \E new \in [id : 0 .. MaxCalls, client : {c}, at : {ticks}, start : {w.start}] :
                 allowed' = allowed \cup {new}
  BY CheckedAttempt
<1>3. windows' = L!Cleaned([windows EXCEPT ![c] = w], ts)
  BY DEF L!Check
<1> HIDE DEF c, ts, w
<1>4. ticks \in 0 .. MaxTicks /\ calls \in 0 .. MaxCalls
  BY <1>t, LimiterTypes
<1>5. L!TypeOK'
  <2>1. allowed' \subseteq [id : 0 .. MaxCalls, client : Clients, at : 0 .. ticks, start : 0 .. ticks]
    <3>1. allowed \subseteq [id : 0 .. MaxCalls, client : Clients, at : 0 .. ticks, start : 0 .. ticks]
      BY <1>t DEF L!TypeOK
    <3>2. [id : 0 .. MaxCalls, client : {c}, at : {ticks}, start : {w.start}]
            \subseteq [id : 0 .. MaxCalls, client : Clients, at : 0 .. ticks, start : 0 .. ticks]
      BY <1>1, <1>4
    <3> QED BY <1>2, <3>1, <3>2
  <2>2. refused' # None => refused'.ts \in 0 .. ticks /\ refused'.start \in 0 .. ticks
    BY <1>1, <1>2, <1>t DEF L!TypeOK
  <2> QED BY <1>1, <1>2, <1>4, <2>1, <2>2, <1>t DEF L!TypeOK, L!Times
<1>6. CallsCounted'
  <2>1. CallsCounted
    BY DEF LimiterInv
  <2>2. IsFiniteSet(Waiting') /\ Cardinality(Waiting') = Cardinality(Waiting) - 1
    BY <1>1, <1>2, <2>1, FS_RemoveElement DEF CallsCounted
  <2>3. Cardinality(Waiting) \in Nat /\ Cardinality(allowed) \in Nat
    BY <2>1, FS_CardinalityType DEF CallsCounted
  <2>4. \A x \in Waiting' : ticks' - call'[x].ts <= Lag
    BY <1>2, <2>1 DEF CallsCounted
  <2>5. /\ IsFiniteSet(allowed') /\ Cardinality(allowed') \in Nat
        /\ Cardinality(allowed') <= Cardinality(allowed) + 1
    <3>1. CASE allowed' = allowed
      BY <3>1, <2>1, <2>3 DEF CallsCounted
    <3>2. ASSUME NEW new, allowed' = allowed \cup {new}
          PROVE  /\ IsFiniteSet(allowed') /\ Cardinality(allowed') \in Nat
                 /\ Cardinality(allowed') <= Cardinality(allowed) + 1
      <4>1. /\ IsFiniteSet(allowed \cup {new})
            /\ \/ Cardinality(allowed \cup {new}) = Cardinality(allowed)
               \/ Cardinality(allowed \cup {new}) = Cardinality(allowed) + 1
        BY <2>1, FS_AddElement DEF CallsCounted
      <4> QED BY <2>3, <3>2, <4>1
    <3> QED BY <1>2, <3>1, <3>2
  <2>6. Cardinality(allowed') + Cardinality(Waiting') <= calls'
    BY <1>2, <1>4, <2>1, <2>2, <2>3, <2>5 DEF CallsCounted
  <2>7. \A d \in Clients : windows'[d] # None => windows'[d].count + Cardinality(Waiting') <= calls'
    <3> SUFFICES ASSUME NEW d \in Clients, windows'[d] # None
                 PROVE  windows'[d].count + Cardinality(Waiting') <= calls'
      OBVIOUS
    <3>1. CASE d = c
      BY <3>1, <1>1, <1>2, <1>4, <2>2, <2>3
    <3>2. CASE d # c
      <4>1. windows'[d] = windows[d] /\ windows[d].count \in 1 .. MaxCalls
        BY <1>1, <3>2, <1>t, LimiterTypes
      <4>2. windows[d].count + Cardinality(Waiting) <= calls
        BY <2>1, <4>1 DEF CallsCounted
      <4> QED BY <1>2, <1>4, <2>2, <2>3, <4>1, <4>2
    <3> QED BY <3>1, <3>2
  <2> QED BY <2>2, <2>4, <2>5, <2>6, <2>7 DEF CallsCounted
<1>7. L!RetryAfterIsHonest'
  <2>1. CASE refused' = refused
    BY <2>1, <1>2 DEF LimiterInv, L!RetryAfterIsHonest
  <2>2. CASE refused' = [ts |-> ts, start |-> w.start, retry |-> L!RetryAfter(w, ts)]
    <3> DEFINE x == Window - (ts - w.start)
               q == x \div Second
    <3>1. x \in Int /\ ts \in Int /\ w.start \in Int
      BY <1>1, <1>4
    <3>2. q \in Int /\ q * Second <= x /\ x <= (q + 1) * Second
          /\ (q + 1) * Second = q * Second + Second /\ q * Second \in Int
      BY <3>1, Division
    <3>3. refused'.ts = ts /\ refused'.start = w.start /\ refused'.retry = q + 1
      BY <2>2 DEF L!RetryAfter
    <3> HIDE DEF q
    <3>4. LET back == refused'.ts + refused'.retry * Second
          IN  back - refused'.start >= Window /\ back - Second - refused'.start <= Window
      <4> DEFINE m == q * Second
      <4>1. m \in Int /\ m <= x /\ x <= m + Second /\ (q + 1) * Second = m + Second
        BY <3>2
      <4> HIDE DEF m
      <4> QED BY <3>1, <3>3, <4>1
    <3> QED BY <3>4 DEF L!RetryAfterIsHonest
  <2> QED BY <1>2, <2>1, <2>2
<1>8. L!EndedWindowsGo'
  <2> DEFINE u == [windows EXCEPT ![c] = w]
  <2>1. CASE L!Cardinality(L!Known(u)) > MaxClients
    <3>1. \A d \in Clients : windows'[d] # None => windows'[d].start >= ts - Window
      BY <1>3, <2>1 DEF L!Cleaned
    <3>2. \A d \in Clients : windows'[d] # None => windows'[d].start \in 0 .. ticks
      BY <1>1
    <3>3. \A d, e \in Clients : windows'[d] # None /\ windows'[e] # None =>
            windows'[e].start - windows'[d].start <= Window + Lag
      BY <1>1, <1>4, <3>1, <3>2
    <3> QED BY <3>3 DEF L!EndedWindowsGo, L!Known
  <2>2. CASE ~(L!Cardinality(L!Known(u)) > MaxClients)
    <3>1. windows' = u
      BY <1>3, <2>2 DEF L!Cleaned
    <3> HIDE DEF u
    <3>2. L!Known(windows') = L!Known(u)
      BY <3>1
    <3>3. ~(L!Cardinality(L!Known(windows')) > MaxClients)
      BY <3>2, <2>2
    <3> QED BY <3>3 DEF L!EndedWindowsGo
  <2> QED BY <2>1, <2>2
<1> QED BY <1>5, <1>6, <1>7, <1>8

(* A check allows what its window still allows, and leaves the windows of  *)
(* the client apart.                                                       *)
LEMMA CheckAllows ==
  ASSUME LimiterInv, NEW t \in Threads, L!Check(t),
         NEW c, c = call[t].client, NEW ts, ts = call[t].ts,
         NEW w, w = L!Counted(windows[c], ts)
  PROVE  /\ AttemptsDated' /\ WindowsBounded' /\ WindowsApart'
         /\ \A d \in Clients : LastWindow(d)' /\ Opens(d)'
<1> USE PartsAssumption
<1>t. L!TypeOK
  BY DEF LimiterInv
<1>1. /\ c \in Clients /\ ts \in 0 .. ticks /\ ticks - ts <= Lag
      /\ w.start \in 0 .. ticks /\ w.count \in 1 .. MaxCalls /\ w # None
      /\ windows'[c] = w
      /\ \A d \in Clients \ {c} :
           \/ windows'[d] = windows[d]
           \/ windows'[d] = None /\ windows[d] # None /\ windows[d].start + Window < ts
  BY CheckedTable
<1>2. /\ ticks' = ticks
      /\ \/ w.count > MaxAttempts /\ allowed' = allowed
         \/ /\ w.count <= MaxAttempts
            /\ \E new \in [id : 0 .. MaxCalls, client : {c}, at : {ticks}, start : {w.start}] :
                 allowed' = allowed \cup {new}
  BY CheckedAttempt
<1>3. \A a \in allowed : a.client = c =>
        /\ a.start <= w.start
        /\ a.start < w.start => a.start + Window <= ticks /\ a.start + Window - Lag <= w.start
  BY EarlierWindows
<1>4. /\ IsFiniteSet(InWindow(c, w.start))
      /\ Cardinality(InWindow(c, w.start)) \in Nat
      /\ Cardinality(InWindow(c, w.start)) <= w.count - 1
      /\ w.count = 1 => w.start = ts
      /\ w.count # 1 => InWindow(c, w.start) # {}
      /\ ticks < w.start + Window + Lag
  BY ThisWindow
<1>5. ticks \in 0 .. MaxTicks
  BY <1>t, LimiterTypes
<1>6. \A a \in allowed : a.client \in Clients /\ a.at \in 0 .. ticks /\ a.start \in 0 .. ticks
  BY <1>t, LimiterTypes
<1>7. AttemptsDated /\ WindowsBounded /\ WindowsApart /\ \A d \in Clients : LastWindow(d) /\ Opens(d)
  BY DEF LimiterInv
<1>8. ASSUME NEW d \in Clients \ {c},
             \A a \in allowed' : a.client = d => a \in allowed,
             \A s : InWindow(d, s)' = InWindow(d, s)
      PROVE  LastWindow(d)' /\ Opens(d)'
  <2>1. windows[d] # None => windows[d].start \in 0 .. ticks
    BY <1>t, LimiterTypes
  <2>2. LastWindow(d) /\ Opens(d)
    BY <1>7
  <2>3. CASE windows'[d] = windows[d]
    <3>1. LastWindow(d)'
      BY <1>2, <1>8, <2>2, <2>3 DEF LastWindow
    <3>2. Opens(d)'
      BY <1>8, <2>2, <2>3 DEF Opens
    <3> QED BY <3>1, <3>2
  <2>4. CASE windows'[d] = None /\ windows[d] # None /\ windows[d].start + Window < ts
    <3>1. \A a \in allowed' : a.client = d => a.start + Window < ticks
      BY <1>1, <1>5, <1>6, <1>8, <2>1, <2>2, <2>4 DEF LastWindow
    <3>2. LastWindow(d)'
      BY <1>2, <2>4, <3>1 DEF LastWindow
    <3>3. Opens(d)'
      BY <2>4 DEF Opens
    <3> QED BY <3>2, <3>3
  <2> QED BY <1>1, <2>3, <2>4
<1>9. CASE w.count > MaxAttempts /\ allowed' = allowed
  <2>1. \A d, s : InWindow(d, s)' = InWindow(d, s)
    BY <1>9 DEF InWindow
  <2>2. AttemptsDated' /\ WindowsBounded' /\ WindowsApart'
    <3>1. AttemptsDated'
      BY <1>7, <1>9, <2>1 DEF AttemptsDated
    <3>2. WindowsBounded'
      BY <1>7, <2>1 DEF WindowsBounded, L!Times
    <3>3. WindowsApart'
      BY <1>7, <1>9 DEF WindowsApart
    <3> QED BY <3>1, <3>2, <3>3
  <2>3. LastWindow(c)'
    BY <1>1, <1>2, <1>3, <1>9 DEF LastWindow
  <2>4. Opens(c)'
    <3>1. w.count # 1
      BY <1>1, <1>9
    <3>2. Cardinality(InWindow(c, w.start)) <= w.count
      BY <1>1, <1>4
    <3> QED BY <1>1, <1>4, <2>1, <3>1, <3>2 DEF Opens
  <2>5. \A d \in Clients \ {c} : LastWindow(d)' /\ Opens(d)'
    BY <1>8, <1>9, <2>1
  <2> QED BY <2>2, <2>3, <2>4, <2>5
<1>10. ASSUME w.count <= MaxAttempts,
              NEW new \in [id : 0 .. MaxCalls, client : {c}, at : {ticks}, start : {w.start}],
              allowed' = allowed \cup {new}
       PROVE  /\ AttemptsDated' /\ WindowsBounded' /\ WindowsApart'
              /\ \A d \in Clients : LastWindow(d)' /\ Opens(d)'
  <2>1. new.client = c /\ new.at = ticks /\ new.start = w.start
    OBVIOUS
  <2>2. InWindow(c, w.start)' = InWindow(c, w.start) \cup {new}
    BY <1>10, <2>1 DEF InWindow
  <2>3. \A d, s : d # c \/ s # w.start => InWindow(d, s)' = InWindow(d, s)
    BY <1>10, <2>1 DEF InWindow
  <2>4. \A d, s : InWindow(d, s) \subseteq InWindow(d, s)'
    BY <1>10 DEF InWindow
  <2>5. Cardinality(InWindow(c, w.start)') <= w.count /\ Cardinality(InWindow(c, w.start)') \in Nat
    <3> DEFINE I == InWindow(c, w.start)
    <3>1. IsFiniteSet(I) /\ Cardinality(I) \in Nat /\ Cardinality(I) <= w.count - 1
      BY <1>4
    <3>2. InWindow(c, w.start)' = I \cup {new}
      BY <2>2
    <3> HIDE DEF I
    <3>3. \/ Cardinality(I \cup {new}) = Cardinality(I)
          \/ Cardinality(I \cup {new}) = Cardinality(I) + 1
      BY <3>1, FS_AddElement
    <3> QED BY <1>1, <3>1, <3>2, <3>3
  <2>6. AttemptsDated'
    <3>1. ASSUME NEW a \in allowed
          PROVE  /\ a.start <= a.at /\ a.at < a.start + Window + Lag
                 /\ \E o \in InWindow(a.client, a.start)' : o.at <= a.start + Lag
      BY <1>7, <2>4 DEF AttemptsDated
    <3>2. new.start <= new.at /\ new.at < new.start + Window + Lag
      BY <1>1, <1>4, <2>1
    <3>3. \E o \in InWindow(new.client, new.start)' : o.at <= new.start + Lag
      <4>1. CASE w.count = 1
        <5>1. new \in InWindow(new.client, new.start)'
          BY <2>1, <2>2
        <5> QED BY <1>1, <1>4, <1>5, <2>1, <4>1, <5>1
      <4>2. CASE w.count # 1
        <5>1. PICK a \in InWindow(c, w.start) : TRUE
          BY <1>4, <4>2
        <5>2. a \in allowed /\ a.client = c /\ a.start = w.start
          BY <5>1 DEF InWindow
        <5>3. PICK o \in InWindow(c, w.start)' : o.at <= w.start + Lag
          BY <3>1, <5>2
        <5> QED BY <2>1, <5>3
      <4> QED BY <4>1, <4>2
    <3> QED BY <1>10, <3>1, <3>2, <3>3 DEF AttemptsDated
  <2>7. WindowsBounded'
    <3> SUFFICES ASSUME NEW d \in Clients, NEW s \in L!Times
                 PROVE  Cardinality(InWindow(d, s)') <= MaxAttempts
      BY DEF WindowsBounded, L!Times
    <3>1. CASE d = c /\ s = w.start
      BY <1>1, <1>10, <2>5, <3>1
    <3>2. CASE ~(d = c /\ s = w.start)
      BY <1>7, <2>3, <3>2 DEF WindowsBounded
    <3> QED BY <3>1, <3>2
  <2>8. WindowsApart'
    <3>1. ASSUME NEW a \in allowed, a.client = new.client, a.start < new.start
          PROVE  a.start + Window <= new.at /\ a.start + Window - Lag <= new.start /\ a.at <= new.at
      BY <1>3, <1>5, <1>6, <2>1, <3>1
    <3>2. ASSUME NEW a \in allowed, a.client = new.client, new.start < a.start
          PROVE  FALSE
      BY <1>1, <1>3, <1>6, <2>1, <3>2
    <3>3. ~(new.start < new.start)
      BY <1>1, <2>1
    <3> QED BY <1>7, <1>10, <3>1, <3>2, <3>3 DEF WindowsApart
  <2>9. LastWindow(c)'
    <3>1. ~(w.start < w.start) /\ w.start <= w.start
      BY <1>1
    <3> QED BY <1>1, <1>2, <1>3, <1>10, <2>1, <3>1 DEF LastWindow
  <2>10. Opens(c)'
    BY <1>1, <2>2, <2>5 DEF Opens
  <2>11. \A d \in Clients \ {c} : LastWindow(d)' /\ Opens(d)'
    BY <1>8, <1>10, <2>1, <2>3
  <2> QED BY <2>6, <2>7, <2>8, <2>9, <2>10, <2>11
<1> QED BY <1>2, <1>9, <1>10

(* Attempts of one window are at most MaxAttempts, and fewer without one.   *)
LEMMA OneWindow ==
  ASSUME LimiterInv, NEW c \in Clients, NEW T \in SUBSET allowed,
         \A a \in T : a.client = c,
         \A a, b \in T : ~(a.start < b.start)
  PROVE  /\ IsFiniteSet(T) /\ Cardinality(T) \in Nat /\ Cardinality(T) <= MaxAttempts
         /\ (\A a \in T : \E o \in InWindow(c, a.start) : o \notin T)
              => Cardinality(T) <= MaxAttempts - 1
<1> USE PartsAssumption
<1>t. L!TypeOK
  BY DEF LimiterInv
<1>1. IsFiniteSet(T) /\ Cardinality(T) \in Nat
  <2>1. IsFiniteSet(allowed)
    BY DEF LimiterInv, CallsCounted
  <2> QED BY <2>1, FS_Subset, FS_CardinalityType
<1>2. CASE T = {}
  <2>1. Cardinality(T) = 0
    BY <1>2, FS_EmptySet
  <2> QED BY <1>1, <2>1
<1>3. CASE T # {}
  <2>1. PICK a \in T : TRUE
    BY <1>3
  <2>2. a.start \in L!Times /\ \A b \in T : b.start \in L!Times
    <3>1. ticks \in 0 .. MaxTicks /\ \A b \in allowed : b.start \in 0 .. ticks
      BY <1>t, LimiterTypes
    <3> QED BY <3>1, <2>1 DEF L!Times
  <2> DEFINE I == InWindow(c, a.start)
  <2>3. T \subseteq I
    <3>1. \A b \in T : b.start = a.start
      BY <2>1, <2>2 DEF L!Times
    <3> QED BY <3>1 DEF InWindow
  <2>4. IsFiniteSet(I) /\ Cardinality(I) \in Nat /\ Cardinality(I) <= MaxAttempts
    <3>1. IsFiniteSet(allowed) /\ I \subseteq allowed
      BY DEF LimiterInv, CallsCounted, InWindow
    <3>2. Cardinality(I) <= MaxAttempts
      BY <2>2 DEF LimiterInv, WindowsBounded
    <3> QED BY <3>1, <3>2, FS_Subset, FS_CardinalityType
  <2>5. \A o \in I : o \notin T => Cardinality(T) <= MaxAttempts - 1
    <3> HIDE DEF I
    <3> SUFFICES ASSUME NEW o \in I, o \notin T
                 PROVE  Cardinality(T) <= MaxAttempts - 1
      OBVIOUS
    <3>1. IsFiniteSet(I \ {o}) /\ Cardinality(I \ {o}) = Cardinality(I) - 1
      BY <2>4, FS_RemoveElement
    <3>2. Cardinality(T) <= Cardinality(I \ {o})
      BY <2>3, <3>1, FS_Subset
    <3> QED BY <1>1, <2>4, <3>1, <3>2
  <2>6. Cardinality(T) <= Cardinality(I)
    <3> HIDE DEF I
    <3> QED BY <2>3, <2>4, FS_Subset
  <2>7. Cardinality(T) <= MaxAttempts
    <3> HIDE DEF I
    <3> QED BY <1>1, <2>4, <2>6
  <2> QED BY <1>1, <2>1, <2>5, <2>7
<1> QED BY <1>2, <1>3

(* In a stretch there are attempts of one window that began in it, of one  *)
(* that began before it, and of one that began so much earlier that who    *)
(* opened it was before it, too.                                           *)
LEMMA FewInAStretch ==
  ASSUME LimiterInv
  PROVE  L!FewAttempts
<1> USE PartsAssumption
<1>t. L!TypeOK
  BY DEF LimiterInv
<1> SUFFICES ASSUME NEW c \in Clients, NEW from \in L!Times
             PROVE  L!Cardinality({a \in allowed : a.client = c /\ a.at \in from .. from + Window - 1})
                      < (IF Lag = 0 THEN 2 ELSE 3) * MaxAttempts
  BY DEF L!FewAttempts
<1> DEFINE S == {a \in allowed : a.client = c /\ a.at \in from .. from + Window - 1}
           Its == {a \in S : a.start >= from}
           Last == {a \in S : a.start < from /\ a.start >= from - Window + Lag}
           Old == {a \in S : a.start < from - Window + Lag}
<1>1. from \in Nat /\ ticks \in 0 .. MaxTicks
  BY <1>t, LimiterTypes DEF L!Times
<1>2. \A a \in allowed : a.at \in 0 .. ticks /\ a.start \in 0 .. ticks
  BY <1>t, LimiterTypes
<1>3. /\ \A a, b \in S : a.start < b.start =>
           a.start + Window <= b.at /\ a.start + Window - Lag <= b.start /\ a.at <= b.at
      /\ \A a \in S : /\ a.at < a.start + Window + Lag
                       /\ \E o \in InWindow(c, a.start) : o.at <= a.start + Lag
  BY DEF LimiterInv, WindowsApart, AttemptsDated
<1>4. /\ IsFiniteSet(Its) /\ Cardinality(Its) \in Nat /\ Cardinality(Its) <= MaxAttempts
  <2>1. \A a, b \in Its : ~(a.start < b.start)
    BY <1>1, <1>2, <1>3
  <2> QED BY <2>1, OneWindow
<1>5. /\ IsFiniteSet(Last) /\ Cardinality(Last) \in Nat /\ Cardinality(Last) <= MaxAttempts
      /\ Lag = 0 => Cardinality(Last) <= MaxAttempts - 1
  <2>1. \A a, b \in Last : ~(a.start < b.start)
    BY <1>1, <1>2, <1>3
  <2>2. ASSUME Lag = 0, NEW a \in Last
        PROVE  \E o \in InWindow(c, a.start) : o \notin Last
    <3>1. PICK o \in InWindow(c, a.start) : o.at <= a.start + Lag
      BY <1>3
    <3>2. o \in allowed
      BY <3>1 DEF InWindow
    <3>3. o.at < from
      BY <1>1, <1>2, <2>2, <3>1, <3>2
    <3> QED BY <1>1, <1>2, <3>1, <3>2, <3>3
  <2> QED BY <2>1, <2>2, OneWindow
<1>6. /\ IsFiniteSet(Old) /\ Cardinality(Old) \in Nat /\ Cardinality(Old) <= MaxAttempts - 1
      /\ Lag = 0 => Old = {}
  <2>1. ASSUME NEW a \in Old
        PROVE  \E o \in InWindow(c, a.start) : o \in allowed /\ o.at < from
    <3>1. PICK o \in InWindow(c, a.start) : o.at <= a.start + Lag
      BY <1>3
    <3>2. o \in allowed
      BY <3>1 DEF InWindow
    <3> QED BY <1>1, <1>2, <3>1, <3>2
  <2>2. ASSUME NEW a \in Old, NEW b \in Old
        PROVE  ~(a.start < b.start)
    <3>1. PICK o \in InWindow(c, b.start) : o \in allowed /\ o.at < from
      BY <2>1
    <3>2. a.start < b.start => a.at <= o.at
      BY <3>1 DEF LimiterInv, WindowsApart, InWindow
    <3> QED BY <1>1, <1>2, <3>1, <3>2
  <2>3. \A a \in Old : \E o \in InWindow(c, a.start) : o \notin Old
    BY <1>1, <1>2, <2>1
  <2>4. Lag = 0 => Old = {}
    BY <1>1, <1>2, <1>3
  <2> QED BY <2>2, <2>3, <2>4, OneWindow
<1>7. S = (Its \cup Last) \cup Old
  BY <1>1, <1>2
<1>8. Cardinality(S) \in Nat /\ Cardinality(S) <= Cardinality(Its) + Cardinality(Last) + Cardinality(Old)
  <2> HIDE DEF S, Its, Last, Old
  <2>1. IsFiniteSet(Its \cup Last) /\ Cardinality(Its \cup Last) \in Nat
        /\ Cardinality(Its \cup Last) <= Cardinality(Its) + Cardinality(Last)
    <3>1. /\ IsFiniteSet(Its \cup Last) /\ IsFiniteSet(Its \cap Last)
          /\ Cardinality(Its \cup Last) = Cardinality(Its) + Cardinality(Last) - Cardinality(Its \cap Last)
      BY <1>4, <1>5, FS_Union, FS_Intersection
    <3>2. Cardinality(Its \cap Last) \in Nat /\ Cardinality(Its \cup Last) \in Nat
      BY <3>1, FS_CardinalityType
    <3> QED BY <1>4, <1>5, <3>1, <3>2
  <2> DEFINE U == Its \cup Last
  <2>2. IsFiniteSet(U) /\ Cardinality(U) \in Nat /\ Cardinality(U) <= Cardinality(Its) + Cardinality(Last)
    BY <2>1
  <2> HIDE DEF U
  <2>3. /\ IsFiniteSet(U \cup Old) /\ IsFiniteSet(U \cap Old)
        /\ Cardinality(U \cup Old) = Cardinality(U) + Cardinality(Old) - Cardinality(U \cap Old)
    BY <1>6, <2>2, FS_Union, FS_Intersection
  <2>4. Cardinality(U \cap Old) \in Nat /\ Cardinality(U \cup Old) \in Nat
    BY <2>3, FS_CardinalityType
  <2>5. S = U \cup Old
    BY <1>7 DEF U
  <2> QED BY <1>4, <1>5, <1>6, <2>2, <2>3, <2>4, <2>5
<1>9. Cardinality(S) < (IF Lag = 0 THEN 2 ELSE 3) * MaxAttempts
  <2>1. Lag = 0 => Cardinality(Old) = 0
    BY <1>6, FS_EmptySet
  <2> HIDE DEF S, Its, Last, Old
  <2> QED BY <1>4, <1>5, <1>6, <1>8, <2>1
<1> QED BY <1>9, SameCardinality

-----------------------------------------------------------------------------
(* A client has few attempts allowed in any stretch as long as a window    *)
(* (LoginRateLimiter.check, dashboard/security.py): fewer than two full    *)
(* windows, or three when threads are held up.  Retry-After is honest, and *)
(* a table over the limit holds no window that has ended.                  *)
THEOREM AttemptsAreFew == MCSpec => []FewAttempts
<1> USE PartsAssumption
<1>1. MCInit => LimiterInv
  <2> SUFFICES ASSUME MCInit PROVE LimiterInv
    OBVIOUS
  <2>1. /\ ticks = 0 /\ calls = 0 /\ windows = [c \in Clients |-> None]
        /\ call = [t \in Threads |-> None] /\ allowed = {} /\ refused = None
    BY DEF MCInit, L!Init
  <2>2. Waiting = {} /\ \A c, s : InWindow(c, s) = {}
    BY <2>1 DEF Waiting, InWindow
  <2>3. IsFiniteSet({}) /\ Cardinality({}) = 0
    BY FS_EmptySet
  <2>4. L!TypeOK
    BY <2>1 DEF L!TypeOK, L!Times
  <2>5. CallsCounted
    BY <2>1, <2>2, <2>3 DEF CallsCounted
  <2>6. AttemptsDated /\ WindowsApart
    BY <2>1 DEF AttemptsDated, WindowsApart
  <2>7. WindowsBounded
    <3>1. \A c, s : Cardinality(InWindow(c, s)) = 0
      BY <2>2, <2>3
    <3> QED BY <3>1 DEF WindowsBounded
  <2>8. \A c \in Clients : LastWindow(c) /\ Opens(c)
    BY <2>1 DEF LastWindow, Opens
  <2>9. L!RetryAfterIsHonest /\ L!EndedWindowsGo
    BY <2>1 DEF L!RetryAfterIsHonest, L!EndedWindowsGo, L!Known
  <2> QED BY <2>4, <2>5, <2>6, <2>7, <2>8, <2>9 DEF LimiterInv
<1>2. LimiterInv /\ [L!Next]_(L!vars) => LimiterInv'
  <2> SUFFICES ASSUME LimiterInv, [L!Next]_(L!vars)
               PROVE  LimiterInv'
    OBVIOUS
  <2>1. CASE L!Tick
    BY <2>1, LimiterTicks
  <2>2. ASSUME NEW t \in Threads, L!Check(t)
        PROVE  LimiterInv'
    <3>1. \E x, y, z : x = call[t].client /\ y = call[t].ts /\ z = L!Counted(windows[x], y)
      OBVIOUS
    <3>2. /\ AttemptsDated' /\ WindowsBounded' /\ WindowsApart'
          /\ \A d \in Clients : LastWindow(d)' /\ Opens(d)'
      BY <2>2, <3>1, CheckAllows
    <3> QED BY <2>2, <3>2, CheckAnswers DEF LimiterInv
  <2>3. ASSUME NEW t \in Threads, NEW c \in Clients, L!Call(t, c)
        PROVE  LimiterInv'
    BY <2>3, LimiterCalls
  <2>4. CASE UNCHANGED L!vars
    <3>1. UNCHANGED <<ticks, windows, call, calls, allowed, refused>>
      BY <2>4 DEF L!vars
    <3>2. L!TypeOK' /\ CallsCounted'
      BY <3>1 DEF LimiterInv, L!TypeOK, L!Times, CallsCounted, Waiting
    <3>3. AttemptsDated' /\ WindowsBounded' /\ WindowsApart'
      BY <3>1 DEF LimiterInv, AttemptsDated, WindowsBounded, WindowsApart, InWindow, L!Times
    <3>4. \A c \in Clients : LastWindow(c)' /\ Opens(c)'
      BY <3>1 DEF LimiterInv, LastWindow, Opens, InWindow
    <3>5. L!RetryAfterIsHonest' /\ L!EndedWindowsGo'
      BY <3>1 DEF LimiterInv, L!RetryAfterIsHonest, L!EndedWindowsGo, L!Known
    <3> QED BY <3>2, <3>3, <3>4, <3>5 DEF LimiterInv
  <2> QED BY <2>1, <2>2, <2>3, <2>4 DEF L!Next
<1>3. [MCNext]_<<part, vars, limiter, accounts, startup, views>> => [L!Next]_(L!vars)
  BY DEF MCNext, Sessioned, Limited, Enrolling, Starting, Viewed, limiter, L!vars
<1>4. LimiterInv => FewAttempts
  BY FewInAStretch DEF LimiterInv, FewAttempts
<1> QED BY <1>1, <1>2, <1>3, <1>4, PTL DEF MCSpec

-----------------------------------------------------------------------------
(* How the dashboard comes up: the inductive invariant.                    *)

(* What was diagnosed is so: once the report lets a launcher go on, the    *)
(* keys are there, production has its server, and of "sleep" the report    *)
(* warns.                                                                  *)
Diagnosed ==
  /\ B!Ready /\ ~launcher.check
  /\ env.FLASK_SECRET_KEY # "" /\ env.MFA_ENCRYPTION_KEY = "valid"
  /\ B!Production => env.waitress
  /\ env.MFA_BACKOFF_MODE = "sleep" => report.MFA_BACKOFF_MODE = "WARN"

StartupInv ==
  /\ B!TypeOK
  /\ phase \in {"create", "serve", "served", "no server"} => Diagnosed
  /\ phase \in {"serve", "served"} =>
       /\ env.MFA_BACKOFF_MODE # "unset"
       /\ app = [secure |-> env.FLASK_ENV = "production",
                 blocking |-> env.MFA_BACKOFF_MODE # "reject"]
  /\ phase = "raised" => env.malformed # {}
  /\ phase = "no server" => launcher.server = "waitress" /\ ~B!Production

LEMMA DiagnosisHolds ==
  ASSUME env \in B!Settings, report' = B!run_diagnostics(B!Production), B!Ready', UNCHANGED <<env, launcher>>, ~launcher.check
  PROVE  Diagnosed'
<1>1. DOMAIN report' = {"FLASK_SECRET_KEY", "MFA_ENCRYPTION_KEY", "DB_PATH", "FLASK_ENV", "server", "MFA_BACKOFF_MODE"}
  BY DEF B!run_diagnostics
<1>2. /\ B!FlaskSecret(B!Production) # "FAIL" /\ B!MfaKey(B!Production) # "FAIL"
      /\ B!ProductionServer(B!Production) # "FAIL" 
  BY <1>1 DEF B!run_diagnostics, B!Ready
<1>3. env.FLASK_SECRET_KEY # ""
  BY <1>2 DEF B!FlaskSecret
<1>4. env.MFA_ENCRYPTION_KEY = "valid"
  BY <1>2 DEF B!MfaKey
<1>5. B!Production => env.waitress
  BY <1>2, Zenon DEF B!ProductionServer
<1>6. env.MFA_BACKOFF_MODE = "sleep" => report'.MFA_BACKOFF_MODE = "WARN"
  BY DEF B!run_diagnostics, B!BackoffMode
<1> QED BY <1>3, <1>4, <1>5, <1>6, Zenon DEF Diagnosed, B!Production

LEMMA StartupSteps ==
  ASSUME StartupInv, B!Next
  PROVE  StartupInv'
<1>1. env \in B!Settings /\ launcher \in B!Launchers
  BY DEF StartupInv, B!TypeOK
<1>2. CASE B!Parse
  <2>1. phase = "parse" /\ UNCHANGED <<launcher, report, app>>
    BY <1>2 DEF B!Parse, B!Goto
  <2>2. \/ phase' = "raised" /\ env.malformed # {} /\ env' = env
        \/ phase' = "diagnose" /\ env' \in B!Settings
    <3>1. CASE launcher.by = "dashboard" /\ B!Raises({"DASHBOARD_PORT"})
      BY <1>2, <3>1 DEF B!Parse, B!Goto, B!Raises
    <3>2. CASE ~(launcher.by = "dashboard" /\ B!Raises({"DASHBOARD_PORT"}))
      <4>1. [env EXCEPT !.FLASK_ENV = "production"] \in B!Settings
        BY <1>1 DEF B!Settings
      <4>2. phase' = "diagnose" /\ (env' = [env EXCEPT !.FLASK_ENV = "production"] \/ env' = env)
        BY <1>2, <3>2, Zenon DEF B!Parse, B!Goto
      <4> QED BY <1>1, <4>1, <4>2
    <3> QED BY <3>1, <3>2
  <2>3. env' \in B!Settings /\ launcher' \in B!Launchers
    BY <1>1, <2>1, <2>2
  <2> QED BY <2>1, <2>2, <2>3 DEF StartupInv, B!TypeOK
<1>3. CASE B!Diagnose
  <2>1. phase = "diagnose" /\ UNCHANGED <<env, launcher, app>> /\ report' = B!run_diagnostics(B!Production)
    BY <1>3 DEF B!Diagnose, B!Goto
  <2>2. \/ phase' = "checked"
        \/ phase' = "create" /\ B!Ready' /\ ~launcher.check
        \/ phase' = "refused" /\ ~B!Ready'
    BY <1>3, Zenon DEF B!Diagnose, B!Goto
  <2>3. env' \in B!Settings /\ launcher' \in B!Launchers
    BY <1>1, <2>1
  <2>4. phase' = "create" => Diagnosed'
    BY <1>1, <2>1, <2>2, DiagnosisHolds
  <2> QED BY <2>1, <2>2, <2>3, <2>4 DEF StartupInv, B!TypeOK
<1>4. CASE B!Create
  <2>1. phase = "create" /\ UNCHANGED <<launcher, report>>
        /\ env' = [env EXCEPT !.MFA_BACKOFF_MODE = IF @ = "unset" THEN "reject" ELSE @]
    BY <1>4 DEF B!Create, B!Goto
  <2>2. Diagnosed
    BY <2>1 DEF StartupInv
  <2>3. env' \in B!Settings /\ env'.MFA_BACKOFF_MODE # "unset"
        /\ env'.malformed = env.malformed /\ env'.FLASK_ENV = env.FLASK_ENV /\ env'.waitress = env.waitress
        /\ env'.FLASK_SECRET_KEY = env.FLASK_SECRET_KEY /\ env'.MFA_ENCRYPTION_KEY = env.MFA_ENCRYPTION_KEY
        /\ (env'.MFA_BACKOFF_MODE = "sleep" => env.MFA_BACKOFF_MODE = "sleep")
    BY <1>1, <2>1 DEF B!Settings
  <2>4. B!Ready' = B!Ready /\ B!Production' = B!Production
    BY <2>1, <2>3 DEF B!Ready, B!Production
  <2>5. Diagnosed'
    BY <2>1, <2>2, <2>3, <2>4 DEF Diagnosed
  <2>6. \/ phase' = "raised" /\ env.malformed # {} /\ app' = app
        \/ phase' = "serve" /\ app' = [secure |-> env.FLASK_ENV = "production",
                                      blocking |-> env'.MFA_BACKOFF_MODE # "reject"]
    BY <1>4, <2>2 DEF B!Create, B!Goto, B!Raises, Diagnosed
  <2>7. launcher' \in B!Launchers
    BY <1>1, <2>1
  <2> QED BY <2>1, <2>3, <2>5, <2>6, <2>7 DEF StartupInv, B!TypeOK
<1>5. CASE B!Serve
  <2>1. phase = "serve" /\ UNCHANGED <<env, launcher, report, app>>
    BY <1>5 DEF B!Serve, B!Goto
  <2>2. Diagnosed /\ env.MFA_BACKOFF_MODE # "unset"
        /\ app = [secure |-> env.FLASK_ENV = "production",
                  blocking |-> env.MFA_BACKOFF_MODE # "reject"]
    BY <2>1 DEF StartupInv
  <2>3. \/ phase' = "no server" /\ B!Waitress /\ ~env.waitress
        \/ phase' = "served"
    BY <1>5, Zenon DEF B!Serve, B!Goto
  <2>4. phase' = "no server" => launcher.server = "waitress" /\ ~B!Production
    BY <2>2, <2>3, Zenon DEF B!Waitress, Diagnosed
  <2>5. Diagnosed' /\ B!Production' = B!Production
    BY <2>1, <2>2 DEF Diagnosed, B!Ready, B!Production
  <2>6. env' \in B!Settings /\ launcher' \in B!Launchers
    BY <1>1, <2>1
  <2> QED BY <2>1, <2>2, <2>3, <2>4, <2>5, <2>6 DEF StartupInv, B!TypeOK
<1> QED BY <1>2, <1>3, <1>4, <1>5 DEF B!Next

(* What the diagnostics call ready starts (dashboard/diagnostics.py, the   *)
(* two launchers): what is raised is a setting that is no number, a server *)
(* is missing only where a development set-up was told to use it, and what *)
(* is served was reported as it is, unless FLASK_ENV is misspelt or        *)
(* MFA_BACKOFF_MODE set to nothing or misspelt.                            *)
THEOREM ReadyStarts == MCSpec => []ReadyMeansStarts
<1>1. MCInit => StartupInv
  BY DEF MCInit, B!Init, StartupInv, B!TypeOK
<1>2. StartupInv /\ [B!Next]_(B!vars) => StartupInv'
  <2> SUFFICES ASSUME StartupInv, UNCHANGED B!vars
               PROVE  StartupInv'
    BY StartupSteps
  <2>1. UNCHANGED <<env, launcher, phase, report, app>>
    BY DEF B!vars
  <2> QED BY <2>1 DEF StartupInv, B!TypeOK, Diagnosed, B!Ready, B!Production
<1>3. [MCNext]_<<part, vars, limiter, accounts, startup, views>> => [B!Next]_(B!vars)
  BY DEF MCNext, Sessioned, Limited, Enrolling, Starting, Viewed, startup, B!vars
<1>4. StartupInv => ReadyMeansStarts
  <2> SUFFICES ASSUME StartupInv PROVE ReadyMeansStarts
    OBVIOUS
  <2>1. phase = "served" =>
          /\ B!Ready /\ ~launcher.check
          /\ B!Production => app.secure \/ env.FLASK_ENV = "Production "
          /\ app.blocking =>
               report.MFA_BACKOFF_MODE = "WARN" \/ env.MFA_BACKOFF_MODE \in {"", "other"}
    <3> SUFFICES ASSUME phase = "served"
                 PROVE  /\ B!Ready /\ ~launcher.check
                        /\ B!Production => app.secure \/ env.FLASK_ENV = "Production "
                        /\ app.blocking => \/ report.MFA_BACKOFF_MODE = "WARN"
                                           \/ env.MFA_BACKOFF_MODE \in {"", "other"}
      OBVIOUS
    <3>1. Diagnosed /\ env.MFA_BACKOFF_MODE # "unset"
      BY DEF StartupInv
    <3>3. app = [secure |-> env.FLASK_ENV = "production",
                 blocking |-> env.MFA_BACKOFF_MODE # "reject"]
      BY DEF StartupInv
    <3>4. (env.FLASK_ENV = "production" => app.secure) /\ (app.blocking => env.MFA_BACKOFF_MODE # "reject")
      BY <3>3
    <3>2. env.MFA_BACKOFF_MODE \in {"unset", "", "sleep", "reject", "other"}
      BY DEF StartupInv, B!TypeOK, B!Settings
    <3> QED BY <3>1, <3>2, <3>4, Zenon DEF Diagnosed, B!Production
  <2>2. B!TypeOK /\ (phase = "raised" => env.malformed # {})
        /\ (phase = "no server" => launcher.server = "waitress" /\ ~B!Production)
    BY DEF StartupInv
  <2> QED BY <2>1, <2>2 DEF ReadyMeansStarts, B!ReadyMeansStarts
<1> QED BY <1>1, <1>2, <1>3, <1>4, PTL DEF MCSpec

-----------------------------------------------------------------------------
(* What the pages read: the inductive invariant.                           *)

Queries ==
  {"recent", "fim", "users", "network events", "network", "ready", "levels", "open", "latest",
   "incidents"}

(* What is left of a page is a suffix of it, query by query.               *)
Left(s, t) ==
  /\ Len(s) <= Len(t)
  /\ \A i \in 1 .. Len(s) : s[i] = t[Len(t) - Len(s) + i]

(* What a counter counted is no more than what it would count; and it was  *)
(* last shown, unless its last query failed.                               *)
Queried == {e \in audit_events : e.module_source = "network_sensor"}
CountersGrow ==
  /\ counted["levels"] <= Cardinality(audit_events)
  /\ counted["network"] <= Cardinality(Queried)
  /\ counted["fim"] = 0 \/ counted["fim"] <= counts["fim"]
CountersShow ==
  \A q \in V!Counters : counted[q] <= shown[q] \/ (q \in down /\ shown[q] = 0)

(* While no query failed every row is a module's.                          *)
Heard ==
  /\ \A e \in audit_events : e.timestamp <= heard
  /\ \A r \in Readers : latest[r] <= heard

ViewTypes ==
  /\ clock \in 0 .. MaxViewTime /\ logged \in 0 .. MaxRows /\ heard \in 0 .. clock
  /\ audit_events \subseteq [id : 1 .. logged, timestamp : 0 .. clock,
                            module_source : V!Modules \cup {"dashboard_queries"}]
  /\ IsFiniteSet(audit_events)
  /\ counts \in [{"fim", "open"} -> -1 .. MaxCount]
  /\ latest \in [Readers -> 0 .. clock]
  /\ page \in [Readers -> Seq(Queries)]
  /\ shown \in [V!Counters -> Nat] /\ counted \in [V!Counters -> Nat]
  /\ failed \in BOOLEAN

ViewsInv ==
  /\ ViewTypes
  /\ \A r \in Readers : \E p \in DOMAIN V!Pages : Left(page[r], V!Pages[p])
  /\ CountersGrow /\ CountersShow
  /\ ~failed => Heard

-----------------------------------------------------------------------------
LEMMA PagesTyped ==
  \A p \in DOMAIN V!Pages : V!Pages[p] \in Seq(Queries)
<1>1. \A X : \A a, b, c, d, e \in X : <<a, b, c, d, e>> \in Seq(X)
  OBVIOUS
<1>2. \A X : \A a, b, c, d, e, f, g \in X : <<a, b, c, d, e, f, g>> \in Seq(X)
  OBVIOUS
<1>3. \A X : \A a \in X : <<a>> \in Seq(X)
  OBVIOUS
<1>0. /\ "recent" \in Queries /\ "fim" \in Queries /\ "users" \in Queries
      /\ "network events" \in Queries /\ "network" \in Queries /\ "ready" \in Queries
      /\ "levels" \in Queries /\ "open" \in Queries /\ "latest" \in Queries
      /\ "incidents" \in Queries
  BY Zenon DEF Queries
<1>4. V!Pages.home = <<"recent", "fim", "users", "network events", "network">>
      /\ V!Pages.metrics = <<"ready", "levels", "fim", "network", "users", "open", "latest">>
      /\ V!Pages.incidents = <<"incidents">>
  BY Zenon DEF V!Pages
<1>5. DOMAIN V!Pages = {"home", "metrics", "incidents"}
  BY Zenon DEF V!Pages
<1>6. V!Pages.home \in Seq(Queries)
  <2> DEFINE Five(a, b, c, d, e) == <<a, b, c, d, e>> \in Seq(Queries)
  <2>1. \A a, b, c, d, e \in Queries : Five(a, b, c, d, e)
    BY <1>1
  <2> HIDE DEF Five
  <2>2. Five("recent", "fim", "users", "network events", "network")
    BY <1>0, <2>1, Zenon
  <2> QED BY <1>4, <2>2, Zenon DEF Five
<1>7. V!Pages.metrics \in Seq(Queries)
  <2> DEFINE Seven(a, b, c, d, e, f, g) == <<a, b, c, d, e, f, g>> \in Seq(Queries)
  <2>1. \A a, b, c, d, e, f, g \in Queries : Seven(a, b, c, d, e, f, g)
    BY <1>2
  <2> HIDE DEF Seven
  <2>2. Seven("ready", "levels", "fim", "network", "users", "open", "latest")
    BY <1>0, <2>1, Zenon
  <2> QED BY <1>4, <2>2, Zenon DEF Seven
<1>8. V!Pages.incidents \in Seq(Queries)
  BY <1>0, <1>3, <1>4, Zenon
<1> QED BY <1>5, <1>6, <1>7, <1>8, Zenon

LEMMA LeftIsSuffix ==
  ASSUME NEW s \in Seq(Queries), NEW t \in Seq(Queries), Left(s, t)
  PROVE  V!IsSuffix(s, t)
<1> DEFINE a == V!Reverse(s)
           b == V!Reverse(t)
<1>1. Len(s) \in Nat /\ Len(t) \in Nat /\ Len(s) <= Len(t)
  BY DEF Left
<1>2. a \in Seq(Queries) /\ Len(a) = Len(s) /\ \A i \in 1 .. Len(s) : a[i] = s[Len(s) - i + 1]
  BY <1>1 DEF V!Reverse
<1>3. b \in Seq(Queries) /\ Len(b) = Len(t) /\ \A i \in 1 .. Len(t) : b[i] = t[Len(t) - i + 1]
  BY <1>1 DEF V!Reverse
<1> HIDE DEF a, b
<1>4. \A i \in 1 .. Len(s) : a[i] = b[i]
  <2> SUFFICES ASSUME NEW i \in 1 .. Len(s) PROVE a[i] = b[i]
    OBVIOUS
  <2>1. Len(s) - i + 1 \in 1 .. Len(s) /\ Len(t) - Len(s) + (Len(s) - i + 1) = Len(t) - i + 1
    BY <1>1
  <2>2. s[Len(s) - i + 1] = t[Len(t) - i + 1]
    BY <2>1 DEF Left
  <2> QED BY <1>1, <1>2, <1>3, <2>2
<1>5. SubSeq(a, 1, Len(a)) = SubSeq(b, 1, Len(a))
  BY <1>1, <1>2, <1>3, <1>4
<1> QED BY <1>1, <1>2, <1>3, <1>5 DEF V!IsSuffix, V!IsPrefix, a, b

LEMMA TailIsLeft ==
  ASSUME NEW s \in Seq(Queries), NEW t \in Seq(Queries), Left(s, t), s # <<>>
  PROVE  Left(Tail(s), t) /\ Tail(s) \in Seq(Queries)
<1>1. Len(s) \in Nat /\ Len(t) \in Nat /\ Len(s) >= 1 /\ Len(Tail(s)) = Len(s) - 1 /\ Tail(s) \in Seq(Queries)
  OBVIOUS
<1>2. \A i \in 1 .. Len(Tail(s)) : Tail(s)[i] = s[i + 1]
  BY <1>1
<1>3. \A i \in 1 .. Len(Tail(s)) : s[i + 1] = t[Len(t) - Len(Tail(s)) + i]
  <2> SUFFICES ASSUME NEW i \in 1 .. Len(Tail(s)) PROVE s[i + 1] = t[Len(t) - Len(Tail(s)) + i]
    OBVIOUS
  <2>1. i + 1 \in 1 .. Len(s) /\ Len(t) - Len(s) + (i + 1) = Len(t) - Len(Tail(s)) + i
    BY <1>1
  <2> QED BY <2>1 DEF Left
<1>4. Len(Tail(s)) <= Len(t)
  BY <1>1 DEF Left
<1> QED BY <1>1, <1>2, <1>3, <1>4 DEF Left

(* A bounded set of numbers has a largest.                                 *)
LEMMA LargestUpTo ==
  ASSUME NEW n \in Nat, NEW S \in SUBSET (0 .. n), S # {}
  PROVE  V!Max(S) \in S /\ \A x \in S : V!Max(S) >= x
<1> DEFINE T == {n - x : x \in S}
<1>1. T \in SUBSET Nat /\ T # {}
  <2>1. \A x \in S : n - x \in Nat
    OBVIOUS
  <2> QED BY <2>1
<1>2. PICK m \in T : \A y \in T : ~ (<<y, m>> \in OpToRel(<, Nat))
  <2> HIDE DEF T
  <2> QED BY <1>1, NatLessThanWellFounded, WFMin
<1>3. \A y \in T : m <= y
  <2>1. \A y \in T : ~ (y < m)
    <3> HIDE DEF T
    <3> QED BY <1>1, <1>2 DEF OpToRel
  <2> HIDE DEF T
  <2> QED BY <1>1, <2>1
<1>4. PICK k \in S : m = n - k
  OBVIOUS
<1>5. \A x \in S : k >= x
  <2> SUFFICES ASSUME NEW x \in S PROVE k >= x
    OBVIOUS
  <2>1. n - x \in T /\ x \in Int /\ k \in Int
    OBVIOUS
  <2>2. m <= n - x
    BY <1>3, <2>1
  <2> HIDE DEF T
  <2> QED BY <1>4, <2>1, <2>2
<1> HIDE DEF T
<1> QED BY <1>5 DEF V!Max

-----------------------------------------------------------------------------
(* A row is logged: by a module, or by the query that failed.              *)
LEMMA RowLogged ==
  ASSUME ViewsInv, NEW module \in V!Modules \cup {"dashboard_queries"}, V!Logged(module)
  PROVE  /\ logged' \in 0 .. MaxRows
         /\ audit_events' \subseteq [id : 1 .. logged', timestamp : 0 .. clock,
                                     module_source : V!Modules \cup {"dashboard_queries"}]
         /\ IsFiniteSet(audit_events')
         /\ Cardinality(audit_events) <= Cardinality(audit_events')
         /\ Cardinality(Queried) <= Cardinality(Queried')
         /\ \A e \in audit_events' : e \in audit_events \/ e.timestamp = clock
<1> USE PartsAssumption DEF V!ViewsAssumption
<1> DEFINE e == [id |-> logged + 1, timestamp |-> clock, module_source |-> module]
<1>1. /\ logged' = logged + 1 /\ logged < MaxRows /\ audit_events' = audit_events \cup {e}
      /\ logged \in 0 .. MaxRows /\ clock \in 0 .. MaxViewTime /\ IsFiniteSet(audit_events)
      /\ audit_events \subseteq [id : 1 .. logged, timestamp : 0 .. clock,
                                  module_source : V!Modules \cup {"dashboard_queries"}]
  BY DEF V!Logged, ViewsInv, ViewTypes
<1>2. logged' \in 0 .. MaxRows
  BY <1>1
<1>3. audit_events' \subseteq [id : 1 .. logged', timestamp : 0 .. clock,
                              module_source : V!Modules \cup {"dashboard_queries"}]
  <2>1. e \in [id : 1 .. logged + 1, timestamp : 0 .. clock,
               module_source : V!Modules \cup {"dashboard_queries"}]
    BY <1>1
  <2>2. \A x \in 1 .. logged : x \in 1 .. logged + 1
    BY <1>1
  <2>3. audit_events \subseteq [id : 1 .. logged + 1, timestamp : 0 .. clock,
                                module_source : V!Modules \cup {"dashboard_queries"}]
    BY <1>1, <2>2
  <2> HIDE DEF e
  <2> QED BY <1>1, <2>1, <2>3
<1>4. e.timestamp = clock
  OBVIOUS
<1> HIDE DEF e
<1>5. IsFiniteSet(audit_events')
  BY <1>1, FS_AddElement
<1>6. Cardinality(audit_events) <= Cardinality(audit_events')
  BY <1>1, <1>5, FS_Subset
<1>7. Cardinality(Queried) <= Cardinality(Queried')
  <2>1. Queried \subseteq Queried' /\ Queried' \subseteq audit_events'
    BY <1>1 DEF Queried
  <2>2. IsFiniteSet(Queried')
    BY <1>5, <2>1, FS_Subset
  <2> QED BY <2>1, <2>2, FS_Subset
<1> QED BY <1>1, <1>2, <1>3, <1>4, <1>5, <1>6, <1>7

LEMMA CountsAreNumbers ==
  ASSUME ViewsInv
  PROVE  Cardinality(audit_events) \in Nat /\ Cardinality(Queried) \in Nat
<1>1. IsFiniteSet(audit_events) /\ Queried \subseteq audit_events
  BY DEF ViewsInv, ViewTypes, Queried
<1> QED BY <1>1, FS_Subset, FS_CardinalityType

LEMMA TheSameCount == \A S : V!Cardinality(S) = Cardinality(S)
BY DEF V!Cardinality, Cardinality

(* What a reader has read and shown.                                       *)
LEMMA ReadsShow ==
  ASSUME ViewsInv, NEW r \in Readers, V!Read(r)
  PROVE  ViewsInv' /\ \A q \in V!Counters : V!Counts(q)
<1> USE PartsAssumption DEF V!ViewsAssumption
<1> DEFINE q == Head(page[r])
<1>1. /\ page[r] # <<>> /\ ~V!Missing(q) /\ page' = [page EXCEPT ![r] = Tail(@)]
      /\ latest' = [latest EXCEPT ![r] = IF q = "latest" THEN V!LatestTimestamp ELSE @]
      /\ shown' = [c \in V!Counters |-> IF c = q THEN V!Value(c) ELSE shown[c]]
      /\ counted' = [c \in V!Counters |-> IF c = q THEN V!Value(c) ELSE counted[c]]
      /\ down' = down \ {q}
      /\ UNCHANGED <<clock, audit_events, logged, counts, heard, failed>>
  BY DEF V!Read, V!store
<1>2. ViewTypes /\ CountersGrow
  BY DEF ViewsInv
<1>3. PICK p \in DOMAIN V!Pages : Left(page[r], V!Pages[p])
  BY DEF ViewsInv
<1>4. page[r] \in Seq(Queries) /\ V!Pages[p] \in Seq(Queries)
  BY <1>2, PagesTyped DEF ViewTypes
<1>5. Left(Tail(page[r]), V!Pages[p]) /\ Tail(page[r]) \in Seq(Queries)
  BY <1>1, <1>3, <1>4, TailIsLeft
<1>6. page' \in [Readers -> Seq(Queries)]
      /\ \A x \in Readers : \E y \in DOMAIN V!Pages : Left(page'[x], V!Pages[y])
  BY <1>1, <1>2, <1>5 DEF ViewTypes, ViewsInv
<1>7. /\ V!LatestTimestamp \in 0 .. clock
      /\ Heard => V!LatestTimestamp <= heard
  <2> DEFINE S == {0} \cup {e.timestamp : e \in audit_events}
  <2>1. clock \in Nat /\ heard \in 0 .. clock /\ S \in SUBSET (0 .. clock) /\ S # {}
    BY <1>2 DEF ViewTypes
  <2>2. Heard => \A x \in S : x <= heard
    BY <2>1 DEF Heard
  <2>3. V!LatestTimestamp = V!Max(S)
    BY DEF V!LatestTimestamp
  <2> HIDE DEF S
  <2>4. V!Max(S) \in S
    BY <2>1, LargestUpTo
  <2> QED BY <2>1, <2>2, <2>3, <2>4
<1>8. latest' \in [Readers -> 0 .. clock] /\ (Heard => \A x \in Readers : latest'[x] <= heard)
  BY <1>1, <1>2, <1>7 DEF ViewTypes, Heard
<1>9. \A c \in V!Counters : c = q => V!Value(c) \in Nat /\ counted[c] <= V!Value(c)
  <2>1. V!Counters = {"levels", "fim", "network"}
    BY DEF V!Counters
  <2>2. CASE q = "levels"
    <3>1. V!Value("levels") = Cardinality(audit_events)
      BY TheSameCount DEF V!Value
    <3> QED BY <2>2, <3>1, <1>2, CountsAreNumbers DEF CountersGrow
  <2>3. CASE q = "network"
    <3>1. V!Value("network") = Cardinality(Queried)
      BY TheSameCount DEF V!Value, Queried
    <3> QED BY <2>3, <3>1, <1>2, CountsAreNumbers DEF CountersGrow
  <2>4. CASE q = "fim"
    <3>1. V!Value("fim") = counts["fim"]
      BY DEF V!Value
    <3>2. counts["fim"] \in -1 .. MaxCount /\ counts["fim"] # -1
      BY <1>1, <1>2, <2>4 DEF ViewTypes, V!Missing
    <3> QED BY <2>4, <3>1, <3>2, <1>2 DEF CountersGrow
  <2> QED BY <2>1, <2>2, <2>3, <2>4
<1>10. /\ shown' \in [V!Counters -> Nat] /\ counted' \in [V!Counters -> Nat]
       /\ CountersShow' /\ \A c \in V!Counters : V!Counts(c)
  <2>1. \A c \in V!Counters : shown[c] \in Nat /\ counted[c] \in Nat
    BY <1>2 DEF ViewTypes
  <2>2. \A c \in V!Counters : counted[c] <= shown[c] \/ (c \in down /\ shown[c] = 0)
    BY DEF ViewsInv, CountersShow
  <2> HIDE DEF q
  <2>3. shown' \in [V!Counters -> Nat] /\ counted' \in [V!Counters -> Nat]
    BY <1>1, <1>9, <2>1
  <2>4. \A c \in V!Counters : V!Counts(c)
    BY <1>1, <1>9, <2>1, <2>2 DEF V!Counts
  <2>5. CountersShow'
    BY <1>1, <1>9, <2>1, <2>2 DEF CountersShow
  <2> QED BY <2>3, <2>4, <2>5
<1>11. CountersGrow'
  <2>1. V!Value("levels") = Cardinality(audit_events)
    BY TheSameCount DEF V!Value
  <2>2. V!Value("network") = Cardinality(Queried)
    BY TheSameCount DEF V!Value, Queried
  <2>3. V!Value("fim") = counts["fim"]
    BY DEF V!Value
  <2>4. \A c \in {"levels", "fim", "network"} : counted'[c] = V!Value(c) \/ counted'[c] = counted[c]
    BY <1>1 DEF V!Counters
  <2>5. Queried' = Queried
    BY <1>1 DEF Queried
  <2>6. Cardinality(audit_events) \in Nat /\ Cardinality(Queried) \in Nat
    BY CountsAreNumbers
  <2>7. counts["fim"] \in -1 .. MaxCount
    BY <1>2 DEF ViewTypes
  <2> QED BY <1>1, <1>2, <2>1, <2>2, <2>3, <2>4, <2>5, <2>6, <2>7 DEF CountersGrow
<1>12. ~failed' => Heard'
  BY <1>1, <1>8 DEF ViewsInv, Heard
<1>13. ViewTypes'
  BY <1>1, <1>2, <1>6, <1>8, <1>10 DEF ViewTypes
<1> QED BY <1>6, <1>10, <1>11, <1>12, <1>13 DEF ViewsInv

(* What the others do, and a query that fails: nothing shown grows wrong.  *)
LEMMA StoreSteps ==
  ASSUME ViewsInv,
         \/ V!Tick \/ \E module \in V!Modules : V!Log(module)
         \/ \E t \in {"fim", "open"}, n \in 0 .. MaxCount : V!Count(t, n)
         \/ \E rows \in SUBSET audit_events, n \in 0 .. MaxCount : V!Purge(rows, n)
  PROVE  ViewsInv' /\ page' = page
<1> USE PartsAssumption DEF V!ViewsAssumption
<1>1. ViewTypes /\ CountersGrow /\ CountersShow /\ (~failed => Heard)
      /\ \A r \in Readers : \E p \in DOMAIN V!Pages : Left(page[r], V!Pages[p])
  BY DEF ViewsInv
<1>n. Cardinality(audit_events) \in Nat /\ Cardinality(Queried) \in Nat
  BY CountsAreNumbers
<1>s. counted["levels"] \in Nat /\ counted["network"] \in Nat /\ counted["fim"] \in Nat
      /\ counts["fim"] \in -1 .. MaxCount
  BY <1>1 DEF ViewTypes, V!Counters
<1>2. CASE V!Tick
  <2>1. clock' = clock + 1 /\ clock < MaxViewTime
        /\ UNCHANGED <<audit_events, logged, counts, page, latest, heard, shown, counted, down, failed>>
    BY <1>2 DEF V!Tick, V!store, V!history
  <2>2. ViewTypes'
    <3>1. clock' \in 0 .. MaxViewTime /\ heard' \in 0 .. clock' /\ \A x \in 0 .. clock : x \in 0 .. clock'
      BY <1>1, <2>1 DEF ViewTypes
    <3>2. audit_events' \subseteq [id : 1 .. logged', timestamp : 0 .. clock',
                                  module_source : V!Modules \cup {"dashboard_queries"}]
      BY <1>1, <2>1, <3>1 DEF ViewTypes
    <3>3. latest' \in [Readers -> 0 .. clock']
      BY <1>1, <2>1, <3>1 DEF ViewTypes
    <3> QED BY <1>1, <2>1, <3>1, <3>2, <3>3 DEF ViewTypes
  <2> QED BY <1>1, <2>1, <2>2 DEF ViewsInv, CountersGrow, CountersShow, Queried, Heard
<1>3. ASSUME NEW module \in V!Modules, V!Log(module)
      PROVE  ViewsInv' /\ page' = page
  <2>1. V!Logged(module) /\ heard' = clock /\ UNCHANGED <<clock, counts, page, latest, shown, counted, down, failed>>
    BY <1>3 DEF V!Log
  <2>2. /\ logged' \in 0 .. MaxRows
        /\ audit_events' \subseteq [id : 1 .. logged', timestamp : 0 .. clock,
                                    module_source : V!Modules \cup {"dashboard_queries"}]
        /\ IsFiniteSet(audit_events')
        /\ Cardinality(audit_events) <= Cardinality(audit_events')
        /\ Cardinality(Queried) <= Cardinality(Queried')
        /\ \A e \in audit_events' : e \in audit_events \/ e.timestamp = clock
    BY <2>1, RowLogged
  <2>3. ViewTypes'
    BY <1>1, <2>1, <2>2 DEF ViewTypes
  <2>4. CountersGrow'
    <3>1. Queried' \subseteq audit_events'
      BY DEF Queried
    <3>2. Cardinality(audit_events') \in Nat /\ Cardinality(Queried') \in Nat
      BY <2>2, <3>1, FS_Subset, FS_CardinalityType
    <3> QED BY <1>1, <1>n, <1>s, <2>1, <2>2, <3>2 DEF CountersGrow
  <2>5. Heard'
    <3>1. \A e \in audit_events' : e.timestamp <= clock
      BY <1>1, <2>2 DEF ViewTypes
    <3>2. \A r \in Readers : latest[r] <= clock
      BY <1>1 DEF ViewTypes
    <3> QED BY <2>1, <3>1, <3>2 DEF Heard
  <2> QED BY <1>1, <2>1, <2>3, <2>4, <2>5 DEF ViewsInv, CountersShow
<1>4. ASSUME NEW t \in {"fim", "open"}, NEW n \in 0 .. MaxCount, V!Count(t, n)
      PROVE  ViewsInv' /\ page' = page
  <2>1. /\ n > counts[t] \/ (t = "open" /\ n >= 0)
        /\ counts' = [counts EXCEPT ![t] = n]
        /\ UNCHANGED <<clock, audit_events, logged, page, latest, heard, shown, counted, down, failed>>
    BY <1>4 DEF V!Count, V!history
  <2>2. counts' \in [{"fim", "open"} -> -1 .. MaxCount]
    <3>1. n \in -1 .. MaxCount
      OBVIOUS
    <3> QED BY <1>1, <2>1, <3>1 DEF ViewTypes
  <2>3. counts'["fim"] >= counts["fim"]
    BY <1>1, <1>s, <2>1 DEF ViewTypes
  <2>4. counts'["fim"] \in Int
    BY <2>2
  <2>5. ViewTypes'
    BY <1>1, <2>1, <2>2 DEF ViewTypes
  <2>6. CountersGrow'
    BY <1>1, <1>s, <2>1, <2>3, <2>4 DEF CountersGrow, Queried
  <2> QED BY <1>1, <2>1, <2>5, <2>6 DEF ViewsInv, CountersShow, Heard
<1>5. ASSUME NEW rows \in SUBSET audit_events, NEW n \in 0 .. MaxCount, V!Purge(rows, n)
      PROVE  ViewsInv' /\ page' = page
  <2>1. /\ audit_events' = audit_events \ rows
        /\ counts' = [counts EXCEPT !["fim"] = IF n < @ THEN n ELSE @]
        /\ counted' = [q \in V!Counters |-> 0]
        /\ UNCHANGED <<clock, logged, page, latest, heard, shown, down, failed>>
    BY <1>5 DEF V!Purge
  <2>2. counts' \in [{"fim", "open"} -> -1 .. MaxCount]
    BY <1>1, <1>s, <2>1 DEF ViewTypes
  <2>3. IsFiniteSet(audit_events') /\ Cardinality(audit_events') \in Nat /\ Cardinality(Queried') \in Nat
    <3>1. IsFiniteSet(audit_events) /\ audit_events' \subseteq audit_events /\ Queried' \subseteq audit_events
      BY <1>1, <2>1 DEF ViewTypes, Queried
    <3> QED BY <3>1, FS_Subset, FS_CardinalityType
  <2>4. ViewTypes'
    BY <1>1, <2>1, <2>2, <2>3 DEF ViewTypes
  <2>5. CountersGrow'
    BY <2>1, <2>3 DEF CountersGrow, V!Counters
  <2>6. ~failed' => Heard'
    BY <1>1, <2>1 DEF Heard
  <2>7. CountersShow'
    BY <1>1, <2>1 DEF CountersShow, ViewTypes
  <2> QED BY <1>1, <2>1, <2>4, <2>5, <2>6, <2>7 DEF ViewsInv
<1> QED BY <1>2, <1>3, <1>4, <1>5

LEMMA QueriesFail ==
  ASSUME ViewsInv, NEW r \in Readers, V!Fails(r)
  PROVE  ViewsInv' /\ \A q \in V!Counters : V!Counts(q)
<1> USE PartsAssumption DEF V!ViewsAssumption
<1> DEFINE zero == {Head(page[r])} \cap {"fim", "network"}
<1>1. /\ page[r] # <<>> /\ page' = [page EXCEPT ![r] = Tail(@)]
      /\ V!Logged("dashboard_queries") \/ UNCHANGED <<audit_events, logged>>
      /\ latest' = [latest EXCEPT ![r] = IF Head(page[r]) = "latest" THEN 0 ELSE @]
      /\ shown' = [c \in V!Counters |-> IF c \in zero THEN 0 ELSE shown[c]]
      /\ down' = down \cup zero
      /\ failed' = TRUE /\ UNCHANGED <<clock, counts, heard, counted>>
  BY DEF V!Fails
<1>2. ViewTypes /\ CountersGrow
  BY DEF ViewsInv
<1>3. PICK p \in DOMAIN V!Pages : Left(page[r], V!Pages[p])
  BY DEF ViewsInv
<1>4. page[r] \in Seq(Queries) /\ V!Pages[p] \in Seq(Queries)
  BY <1>2, PagesTyped DEF ViewTypes
<1>5. Left(Tail(page[r]), V!Pages[p]) /\ Tail(page[r]) \in Seq(Queries)
  BY <1>1, <1>3, <1>4, TailIsLeft
<1>6. page' \in [Readers -> Seq(Queries)]
      /\ \A x \in Readers : \E y \in DOMAIN V!Pages : Left(page'[x], V!Pages[y])
  BY <1>1, <1>2, <1>5 DEF ViewTypes, ViewsInv
<1>7. latest' \in [Readers -> 0 .. clock]
  BY <1>1, <1>2 DEF ViewTypes
<1>8. Cardinality(audit_events) \in Nat /\ Cardinality(Queried) \in Nat
  BY CountsAreNumbers
<1>9. /\ logged' \in 0 .. MaxRows
      /\ audit_events' \subseteq [id : 1 .. logged', timestamp : 0 .. clock,
                                  module_source : V!Modules \cup {"dashboard_queries"}]
      /\ IsFiniteSet(audit_events')
      /\ Cardinality(audit_events) <= Cardinality(audit_events')
      /\ Cardinality(Queried) <= Cardinality(Queried')
  <2>1. CASE V!Logged("dashboard_queries")
    BY <2>1, RowLogged
  <2>2. CASE UNCHANGED <<audit_events, logged>>
    <3>1. Queried' = Queried
      BY <2>2 DEF Queried
    <3> QED BY <1>2, <1>8, <2>2, <3>1 DEF ViewTypes
  <2> QED BY <1>1, <2>1, <2>2
<1>s. shown' \in [V!Counters -> Nat]
  BY <1>1, <1>2 DEF ViewTypes
<1>10. ViewTypes'
  BY <1>1, <1>2, <1>6, <1>7, <1>9, <1>s DEF ViewTypes
<1>11. CountersGrow'
  <2>1. Queried' \subseteq audit_events'
    BY DEF Queried
  <2>2. Cardinality(audit_events') \in Nat /\ Cardinality(Queried') \in Nat
    BY <1>9, <2>1, FS_Subset, FS_CardinalityType
  <2>3. counted["levels"] \in Nat /\ counted["network"] \in Nat /\ counted["fim"] \in Nat
    BY <1>2 DEF ViewTypes, V!Counters
  <2> QED BY <1>1, <1>2, <1>8, <1>9, <2>2, <2>3 DEF CountersGrow
<1>12. CountersShow' /\ \A c \in V!Counters : V!Counts(c)
  <2>1. \A c \in V!Counters : counted[c] <= shown[c] \/ (c \in down /\ shown[c] = 0)
    BY DEF ViewsInv, CountersShow
  <2> HIDE DEF zero
  <2> QED BY <1>1, <2>1 DEF CountersShow, V!Counts
<1> QED BY <1>1, <1>6, <1>10, <1>11, <1>12 DEF ViewsInv

LEMMA ViewSteps ==
  ASSUME ViewsInv, [V!Next]_(V!vars)
  PROVE  ViewsInv' /\ [page' # page => \A q \in V!Counters : V!Counts(q)]_(V!vars)
<1>2. ASSUME NEW r \in Readers, NEW p \in DOMAIN V!Pages, V!Request(r, p)
      PROVE  ViewsInv' /\ \A q \in V!Counters : V!Counts(q)
  <2>1. page' = [page EXCEPT ![r] = V!Pages[p]]
        /\ UNCHANGED <<clock, audit_events, logged, counts, latest, heard, shown, counted, down, failed>>
    BY <1>2 DEF V!Request, V!store, V!history
  <2>2. V!Pages[p] \in Seq(Queries)
    BY PagesTyped
  <2>3. Left(V!Pages[p], V!Pages[p])
    <3> DEFINE s == V!Pages[p]
    <3>1. Len(s) \in Nat
      BY <2>2
    <3> HIDE DEF s
    <3>2. Len(s) <= Len(s) /\ \A i \in 1 .. Len(s) : Len(s) - Len(s) + i = i
      BY <3>1
    <3>3. Left(s, s)
      BY <3>2 DEF Left
    <3> QED BY <3>3 DEF s
  <2>4. page' \in [Readers -> Seq(Queries)]
        /\ \A x \in Readers : \E y \in DOMAIN V!Pages : Left(page'[x], V!Pages[y])
    BY <2>1, <2>2, <2>3 DEF ViewsInv, ViewTypes
  <2>5. ViewTypes'
    BY <2>1, <2>4 DEF ViewsInv, ViewTypes
  <2> QED BY <2>1, <2>4, <2>5 DEF ViewsInv, CountersGrow, CountersShow, Queried, Heard, V!Counts
<1>3. CASE UNCHANGED V!vars
  <2>1. UNCHANGED <<clock, audit_events, logged, counts, page, latest, heard, shown, counted, down, failed>>
    BY <1>3 DEF V!vars, V!store, V!history
  <2> QED BY <1>3, <2>1 DEF ViewsInv, ViewTypes, CountersGrow, CountersShow, Queried, Heard
<1> QED BY <1>2, <1>3, StoreSteps, ReadsShow, QueriesFail DEF V!Next

(* The metrics tell silence from activity and count up (query_metrics,     *)
(* dashboard/queries.py): while no query failed, the time of the last      *)
(* event that is exported is never later than the last time a module       *)
(* logged, whoever reads at once; and a counter shows no less than it      *)
(* counted since retention deleted rows, or the 0 of a query that failed.  *)
THEOREM MetricsStayTrue == MCSpec => MetricsAreTrue
<1>1. MCInit => ViewsInv
  <2> SUFFICES ASSUME MCInit PROVE ViewsInv
    OBVIOUS
  <2> USE PartsAssumption DEF V!ViewsAssumption
  <2>1. /\ clock = 0 /\ audit_events = {} /\ logged = 0
        /\ counts \in [{"fim", "open"} -> {-1, 0}]
        /\ page = [r \in Readers |-> <<>>] /\ latest = [r \in Readers |-> 0]
        /\ heard = 0 /\ shown = [q \in V!Counters |-> 0]
        /\ counted = [q \in V!Counters |-> 0] /\ failed = FALSE
    BY DEF MCInit, V!Init
  <2>2. IsFiniteSet({}) /\ Cardinality({}) = 0
    BY FS_EmptySet
  <2>3. ViewTypes
    <3>1. clock \in 0 .. MaxViewTime /\ logged \in 0 .. MaxRows /\ heard \in 0 .. clock
      BY <2>1
    <3>2. counts \in [{"fim", "open"} -> -1 .. MaxCount]
      BY <2>1
    <3>3. latest \in [Readers -> 0 .. clock] /\ page \in [Readers -> Seq(Queries)]
      BY <2>1
    <3>4. shown \in [V!Counters -> Nat] /\ counted \in [V!Counters -> Nat] /\ failed \in BOOLEAN
      BY <2>1
    <3>5. IsFiniteSet(audit_events) /\ audit_events = {}
      BY <2>1, <2>2
    <3> QED BY <3>1, <3>2, <3>3, <3>4, <3>5 DEF ViewTypes
  <2>4. \A r \in Readers : \E p \in DOMAIN V!Pages : Left(page[r], V!Pages[p])
    <3>1. "home" \in DOMAIN V!Pages /\ Len(V!Pages["home"]) \in Nat
      <4>1. "home" \in DOMAIN V!Pages
        BY Zenon DEF V!Pages
      <4> QED BY <4>1, PagesTyped
    <3>2. Left(<<>>, V!Pages["home"])
      BY <3>1 DEF Left
    <3> QED BY <2>1, <3>1, <3>2
  <2>5. Queried = {}
    BY <2>1 DEF Queried
  <2>6. CountersGrow
    BY <2>1, <2>2, <2>5 DEF CountersGrow, V!Counters
  <2>7. Heard
    BY <2>1 DEF Heard
  <2>8. CountersShow
    BY <2>1 DEF CountersShow
  <2> QED BY <2>3, <2>4, <2>6, <2>7, <2>8 DEF ViewsInv
<1>2. [MCNext]_<<part, vars, limiter, accounts, startup, views>> => [V!Next]_(V!vars)
  BY DEF MCNext, Sessioned, Limited, Enrolling, Starting, Viewed, views, V!vars, V!store, V!history
<1>3. ViewsInv /\ [MCNext]_<<part, vars, limiter, accounts, startup, views>> =>
        ViewsInv' /\ [page' # page => \A q \in V!Counters : V!Counts(q)]_(V!vars)
  BY <1>2, ViewSteps
<1>4. ViewsInv => V!TypeOK /\ (~failed => V!SilenceShows)
  <2> SUFFICES ASSUME ViewsInv PROVE V!TypeOK /\ (~failed => V!SilenceShows)
    OBVIOUS
  <2>1. \A r \in Readers : \E p \in DOMAIN V!Pages : V!IsSuffix(page[r], V!Pages[p])
    BY PagesTyped, LeftIsSuffix DEF ViewsInv, ViewTypes
  <2> QED BY <2>1 DEF ViewsInv, ViewTypes, V!TypeOK, V!SilenceShows, Heard
<1> QED BY <1>1, <1>3, <1>4, PTL DEF MCSpec, MetricsAreTrue, V!MetricsAreTrue
=============================================================================
