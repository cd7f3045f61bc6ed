----------------------------- MODULE MCDashboard -----------------------------
(***************************************************************************)
(* The dashboard for TLC: its sessions, its LoginRateLimiter, the accounts *)
(* behind both, how it comes up, and what it reads for its pages.  A       *)
(* verdict of the limiter is one of Dashboard's refused logins, Dashboard  *)
(* has revocation and roles as one step each where Accounts has their      *)
(* transactions, and nothing else flows between the parts, which share no  *)
(* variable: a behaviour is one of one part.                               *)
(***************************************************************************)
EXTENDS Dashboard, TLC

CONSTANTS
  Threads, Clients, MaxAttempts, Second, Window, Lag, MaxClients, MaxCalls, MaxTicks,
  Operators, Names, RecoveryCodes, MaxEnrollments,
  Readers, Locks, MaxRows, MaxCount, MaxViewTime

VARIABLES
  part,
  ticks, windows, call, calls, allowed, refused,
  enrolled, codes, lastId, lock, at, name, secret, inserted, started, answers,
  env, launcher, phase, report, app,
  clock, audit_events, logged, counts, page, latest, heard, shown, counted, down, failed

limiter == <<ticks, windows, call, calls, allowed, refused>>
accounts == <<enrolled, codes, lastId, lock, at, name, secret, inserted, started, answers>>
startup == <<env, launcher, phase, report, app>>
views == <<clock, audit_events, logged, counts, page, latest, heard, shown, counted, down, failed>>

L == INSTANCE LoginRateLimiter WITH now <- ticks, MaxTime <- MaxTicks
A == INSTANCE Accounts WITH users <- enrolled, pc <- at, DefaultRole <- "analyst"
B == INSTANCE Startup WITH pc <- phase
V == INSTANCE ReadViews WITH now <- clock, MaxTime <- MaxViewTime

ASSUME PartsAssumption ==
  /\ L!LimiterAssumption /\ L!NoneAssumption /\ V!ViewsAssumption
  /\ A!CodesAssumption /\ A!RolesAssumption /\ A!NoneAssumption

PlainSettings == CHOOSE e \in B!Settings : TRUE
PlainLauncher == CHOOSE l \in B!Launchers : TRUE

(* A part that is not the behaviour's stays in one of its initial states.  *)
Plain(p, state) == part = p \/ state
MCInit ==
  /\ part \in {"sessions", "limiter", "accounts", "startup", "views"}
  /\ Init /\ Plain("sessions", \A u \in Users : role[u] = "admin")
  /\ L!Init /\ A!Init
  /\ \/ part = "startup"
     \/ part # "startup" /\ env = PlainSettings /\ launcher = PlainLauncher
  /\ B!Init
  /\ V!Init /\ Plain("views", \A t \in DOMAIN counts : counts[t] = 0)

Sessioned == part = "sessions" /\ Next /\ UNCHANGED <<limiter, accounts, startup, views>>
Limited == part = "limiter" /\ L!Next /\ UNCHANGED <<vars, accounts, startup, views>>
Enrolling == part = "accounts" /\ A!Next /\ UNCHANGED <<vars, limiter, startup, views>>
Starting == part = "startup" /\ B!Next /\ UNCHANGED <<vars, limiter, accounts, views>>
Viewed == part = "views" /\ V!Next /\ UNCHANGED <<vars, limiter, accounts, startup>>
MCNext ==
  /\ Sessioned \/ Limited \/ Enrolling \/ Starting \/ Viewed
  /\ UNCHANGED part
MCSpec == MCInit /\ [][MCNext]_<<part, vars, limiter, accounts, startup, views>>

(* No behaviour uses two of the sets that share their model values.        *)
Symmetry ==
  Permutations(Requests \cup Threads \cup Operators)
    \cup Permutations(Clients \cup Names)

(* What LoginRateLimiter.tla states: few attempts of a client pass in any  *)
(* stretch of time (LoginRateLimiter.check, dashboard/security.py), and a  *)
(* window ends: for who waits as long as Retry-After says, and for the     *)
(* cleanup of a full table.                                                *)
FewAttempts ==
  L!TypeOK /\ L!FewAttempts /\ L!RetryAfterIsHonest /\ L!EndedWindowsGo
(* An account is whole, its holder told the truth of it, and it does not   *)
(* come back once revoked, as Accounts.tla states it (auth/core.py).       *)
AccountsAreSound == A!AccountsAreSound
(* What the diagnostics call ready starts, but for settings that are no    *)
(* number, and as reported, but for a misspelt FLASK_ENV or an empty or    *)
(* misspelt MFA_BACKOFF_MODE, as Startup.tla states it                     *)
(* (dashboard/diagnostics.py).                                             *)
ReadyMeansStarts == B!TypeOK /\ B!ReadyMeansStarts
(* The metrics tell silence from activity, and a counter falls by          *)
(* retention or to the 0 of a failed query only, as ReadViews.tla states   *)
(* it (dashboard/queries.py).                                              *)
MetricsAreTrue == V!MetricsAreTrue
=============================================================================
