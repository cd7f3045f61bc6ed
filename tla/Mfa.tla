--------------------------------- MODULE Mfa ---------------------------------
(***************************************************************************)
(* Second-factor verification (auth/core.py): verify_token and             *)
(* use_recovery_code run by many web workers and CLI processes at once     *)
(* over the tables users, recovery_codes, auth_attempts and                *)
(* totp_consumptions, with the shared exponential backoff, revocations,    *)
(* the retention purge of the two authentication tables and a clock.       *)
(*                                                                         *)
(* Each action is one SQL transaction or one read outside a transaction;   *)
(* everything a request read stays in its own locals until the next        *)
(* action.  A fingerprint is the triple it hashes: SHA-256 and scrypt are  *)
(* taken to be free of collisions.                                         *)
(***************************************************************************)
EXTENDS Integers, FiniteSets

CONSTANTS
  Users,          (* user names                                            *)
  Enrolled,       (* those with a row in users at the start                *)
  Clients,        (* requests and CLI calls that can be in flight at once  *)
  Tokens,         (* values of a six-digit token                           *)
  RecoveryCodes,  (* values of a recovery code                             *)
  Issued,         (* the codes enroll_user gave, of the enrolled users     *)
  TotpAt,         (* TotpAt[u][s]: the token of user u in interval s       *)
  Mode,           (* Mode[c]: MFA_BACKOFF_MODE of its process, "sleep" or  *)
                  (* "reject"                                              *)
  StepLen,        (* totp.interval, in ticks                               *)
  BaseDelay, MaxDelay, Window,   (* MFA_BACKOFF_*, in ticks                *)
  ReplayWindow,   (* the 90 seconds of the fingerprint checks, in ticks    *)
  Retention,      (* retention_days of the purge, in ticks                 *)
  MaxPause,       (* ticks between reading the clock and committing        *)
  LegacyLogins,   (* logins the database may hold from before totp_step    *)
  MaxTime,        (* bound on the clock                                    *)
  MaxAttempts     (* bound on the rows ever inserted in auth_attempts      *)

ASSUME ModeAssumption == Mode \in [Clients -> {"sleep", "reject"}]
ASSUME EnrolledAssumption ==
  /\ Enrolled \subseteq Users /\ Issued \subseteq Enrolled \X RecoveryCodes
  /\ Users # {} /\ Tokens # {} /\ IsFiniteSet(Clients)
ASSUME DelayAssumption ==
  /\ StepLen \in Nat \ {0} /\ BaseDelay \in Nat \ {0} /\ MaxDelay \in Nat \ {0}
  /\ Window \in Nat /\ ReplayWindow \in Nat /\ Retention \in Nat /\ MaxPause \in Nat
  /\ MaxTime \in Nat /\ MaxAttempts \in Nat
(* The cooldown after one failure fits the window in which it is counted,  *)
(* and a day of retention outlasts both windows, a token's life and the    *)
(* five seconds a transaction may wait for the write lock.                 *)
ASSUME TimingAssumption ==
  /\ MaxDelay <= Window
  /\ Window <= Retention /\ ReplayWindow <= Retention
  /\ MaxPause + 2 * StepLen <= Retention

NoStep == -1
Times == 0 .. MaxTime
Steps == 0 .. (MaxTime \div StepLen) + 1
Secrets == Tokens \cup RecoveryCodes
Requests == [user : Users, kind : {"totp"}, secret : Tokens]
              \cup [user : Users, kind : {"recovery"}, secret : RecoveryCodes]
Fingerprint(r) == <<r.kind, r.user, r.secret>>
Attempts ==
  [id : 1 .. MaxAttempts, user : Users, ts : Times, success : BOOLEAN,
   fp : {Fingerprint(r) : r \in Requests}, step : Steps \cup {NoStep}]

(* A login from before there were steps is of a token, its step unknown;   *)
(* the fingerprint check was there already.                                *)
ASSUME LegacyAssumption ==
  /\ IsFiniteSet(LegacyLogins)
  /\ \A a \in LegacyLogins :
       a \in Attempts /\ a.success /\ a.step = NoStep /\ a.fp[1] = "totp"
  /\ \A a, b \in LegacyLogins : a.id < b.id /\ a.fp = b.fp => b.ts >= a.ts + ReplayWindow

VARIABLES
  now,            (* the wall clock                                        *)
  status,         (* users: "absent", "active" or "revoked"                *)
  recovery_codes, (* users' codes not consumed yet                         *)
  auth_attempts,  (* the attempts retention has not removed                *)
  totp_consumptions,
  recorded,       (* history: every attempt ever committed                 *)
  pc,             (* where each client is                                  *)
  request,        (* what it was called with                               *)
  backoff,        (* backoff_seconds it computed                           *)
  due,            (* when its time.sleep returns                           *)
  clock,          (* the now it read                                       *)
  step,           (* the interval its token matched, or NoStep             *)
  found,          (* whether it found its recovery code                    *)
  answer          (* the event it returned last                            *)

tables == <<status, recovery_codes, auth_attempts, totp_consumptions, recorded>>
locals == <<request, backoff, due, clock, step, found>>
vars == <<now, tables, pc, locals, answer>>

Idle(c) == pc[c] = "idle"
NoRequest == CHOOSE r \in Requests : TRUE

Init ==
  /\ now = 0
  /\ status = [u \in Users |-> IF u \in Enrolled THEN "active" ELSE "absent"]
  /\ recovery_codes = Issued
  /\ \E old \in SUBSET LegacyLogins : auth_attempts = old /\ recorded = old
  /\ totp_consumptions = {}
  /\ pc = [c \in Clients |-> "idle"]
  /\ request = [c \in Clients |-> NoRequest]
  /\ backoff = [c \in Clients |-> 0]
  /\ due = [c \in Clients |-> 0]
  /\ clock = [c \in Clients |-> 0]
  /\ step = [c \in Clients |-> NoStep]
  /\ found = [c \in Clients |-> FALSE]
  /\ answer = [c \in Clients |-> "none"]

(* The clock; a client that has read it commits within MaxPause. *)
Tick ==
  /\ now < MaxTime
  /\ \A c \in Clients : pc[c] = "commit" => now < clock[c] + MaxPause
  /\ now' = now + 1
  /\ UNCHANGED <<tables, pc, locals, answer>>

(* Client c goes on to label l; client c returns event e. *)
Goto(c, l) == pc' = [pc EXCEPT ![c] = l] /\ UNCHANGED answer
Return(c, e) ==
  /\ pc' = [pc EXCEPT ![c] = "idle"]
  /\ answer' = [answer EXCEPT ![c] = e]
  /\ request' = [request EXCEPT ![c] = NoRequest]
  /\ backoff' = [backoff EXCEPT ![c] = 0]
  /\ due' = [due EXCEPT ![c] = 0]
  /\ clock' = [clock EXCEPT ![c] = 0]
  /\ step' = [step EXCEPT ![c] = NoStep]
  /\ found' = [found EXCEPT ![c] = FALSE]

-----------------------------------------------------------------------------
(* Identity: the user is looked up on a connection of its own.             *)

Submit(c, r) ==
  /\ Idle(c)
  /\ status[r.user] = "active"
  /\ pc' = [pc EXCEPT ![c] = "count"]
  /\ answer' = [answer EXCEPT ![c] = "none"]
  /\ request' = [request EXCEPT ![c] = r]
  /\ UNCHANGED <<now, tables, backoff, due, clock, step, found>>

(* USER_NOT_FOUND and USER_REVOKED. *)
SubmitRefused(c, r) ==
  /\ Idle(c)
  /\ status[r.user] # "active"
  /\ Return(c, "AUTH_FAILURE")
  /\ UNCHANGED <<now, tables>>

-----------------------------------------------------------------------------
(* Backoff, shared by the two factors; no connection is held across it.    *)

Failures(u) == {a \in auth_attempts : a.user = u /\ ~a.success}
(* MUTANT: forgets the failures of the current second. *)
FailureCountSettled(u) ==
  Cardinality({a \in Failures(u) : a.ts > now - Window /\ a.ts < now})
FailureCount(u) == Cardinality({a \in Failures(u) : a.ts > now - Window})
LesserOf(x, y) == IF x <= y THEN x ELSE y
Delay(n) == IF n = 0 THEN 0 ELSE LesserOf(BaseDelay * 2^n, MaxDelay)

(* MAX(timestamp) of the user's failures, 0 when there is none. *)
LastFailure(u) ==
  IF Failures(u) = {} THEN 0
  ELSE CHOOSE t \in {a.ts : a \in Failures(u)} : \A a \in Failures(u) : a.ts <= t

Verification(c) == IF request[c].kind = "totp" THEN "totp" ELSE "fingerprint"

CountFailures(c) ==
  /\ pc[c] = "count"
  /\ LET delay == Delay(FailureCount(request[c].user))
     IN  /\ backoff' = [backoff EXCEPT ![c] = delay]
         /\ due' = [due EXCEPT ![c] = IF Mode[c] = "sleep" THEN now + delay ELSE 0]
         /\ Goto(c, IF delay = 0 THEN Verification(c)
                    ELSE IF Mode[c] = "sleep" THEN "sleep" ELSE "decide")
  /\ UNCHANGED <<now, tables, request, clock, step, found>>

(* MUTANT: the counting window taken for the cooldown. *)
RemainingOfWindow(c) == LastFailure(request[c].user) + Window - now
Remaining(c) == LastFailure(request[c].user) + backoff[c] - now

CooldownOver(c) ==
  /\ pc[c] = "decide"
  /\ Remaining(c) <= 0
  /\ Goto(c, Verification(c))
  /\ UNCHANGED <<now, tables, locals>>

RateLimited(c) ==
  /\ pc[c] = "decide"
  /\ Remaining(c) > 0
  /\ Return(c, "RATE_LIMITED")
  /\ UNCHANGED <<now, tables>>

(* MUTANT: does not wait. *)
WakeEarly(c) ==
  /\ pc[c] = "sleep"
  /\ Goto(c, Verification(c))
  /\ UNCHANGED <<now, tables, locals>>

Wake(c) ==
  /\ pc[c] = "sleep"
  /\ due[c] <= now
  /\ Goto(c, Verification(c))
  /\ UNCHANGED <<now, tables, locals>>

-----------------------------------------------------------------------------
(* verify_token: match the token against the current interval and its      *)
(* neighbours, in the code's order, then consume it in one transaction.    *)

MatchedStep(r, current) ==
  LET Match(s) == s >= 0 /\ TotpAt[r.user][s] = r.secret
  IN  IF Match(current) THEN current
      ELSE IF Match(current - 1) THEN current - 1
      ELSE IF Match(current + 1) THEN current + 1
      ELSE NoStep

MatchToken(c) ==
  /\ pc[c] = "totp"
  /\ clock' = [clock EXCEPT ![c] = now]
  /\ step' = [step EXCEPT ![c] = MatchedStep(request[c], now \div StepLen)]
  /\ Goto(c, "commit")
  /\ UNCHANGED <<now, tables, request, backoff, due, found>>

(* InvalidToken or another exception of the cryptography. *)
DecryptFails(c) ==
  /\ pc[c] = "totp"
  /\ Return(c, "CRYPTO_ERROR")
  /\ UNCHANGED <<now, tables>>

(* A row of auth_attempts, stamped by the database when inserted. *)
Record(c, success, s) ==
  LET row == [id |-> Cardinality(recorded) + 1, user |-> request[c].user, ts |-> now,
              success |-> success, fp |-> Fingerprint(request[c]), step |-> s]
  IN  /\ Cardinality(recorded) < MaxAttempts
      /\ auth_attempts' = auth_attempts \cup {row}
      /\ recorded' = recorded \cup {row}

(* MUTANT: the last step accepted taken for a high-water mark. *)
ConsumedUpTo(u, s) == \E k \in totp_consumptions : k.user = u /\ k.step >= s
Consumed(u, s) == \E k \in totp_consumptions : k.user = u /\ k.step = s

(* A login recorded before totp_step existed, in the last 90 seconds. *)
LegacyUse(c) ==
  \E a \in auth_attempts :
    /\ a.success /\ a.step = NoStep
    /\ a.fp = Fingerprint(request[c])
    /\ a.ts > now - ReplayWindow

(* MUTANT: trusts the lookup made before the backoff. *)
StillActiveAssumed(c) == pc[c] = "commit"
StillActive(c) == status[request[c].user] = "active"
(* MUTANT: one of the two tables is not asked. *)
ReplayedByLegacyOnly(c) == LegacyUse(c)
(* MUTANT: a login recorded without an interval does not count. *)
ReplayedByConsumptionOnly(c) == Consumed(request[c].user, step[c])
Replayed(c) == LegacyUse(c) \/ Consumed(request[c].user, step[c])

CommitRevoked(c) ==
  /\ pc[c] = "commit"
  /\ ~StillActive(c)
  /\ Return(c, "AUTH_FAILURE")
  /\ UNCHANGED <<now, tables>>

CommitReplay(c) ==
  /\ pc[c] = "commit"
  /\ StillActive(c) /\ step[c] # NoStep /\ Replayed(c)
  /\ Return(c, "REPLAY_ATTACK")
  /\ UNCHANGED <<now, tables>>

CommitSuccess(c) ==
  /\ pc[c] = "commit"
  /\ StillActive(c) /\ step[c] # NoStep /\ ~Replayed(c)
  /\ totp_consumptions' = totp_consumptions
       \cup {[user |-> request[c].user, step |-> step[c], at |-> clock[c]]}
  /\ Record(c, TRUE, step[c])
  /\ Return(c, "AUTH_SUCCESS")
  /\ UNCHANGED <<now, status, recovery_codes>>

(* MUTANT: an invalid token reserves the current interval. *)
CommitFailureReserves(c) ==
  /\ pc[c] = "commit"
  /\ StillActive(c) /\ step[c] = NoStep
  /\ totp_consumptions' = totp_consumptions
       \cup {[user |-> request[c].user, step |-> clock[c] \div StepLen, at |-> clock[c]]}
  /\ Record(c, FALSE, NoStep)
  /\ Return(c, "AUTH_FAILURE")
  /\ UNCHANGED <<now, status, recovery_codes>>

CommitFailure(c) ==
  /\ pc[c] = "commit"
  /\ StillActive(c) /\ step[c] = NoStep
  /\ Record(c, FALSE, NoStep)
  /\ Return(c, "AUTH_FAILURE")
  /\ UNCHANGED <<now, status, recovery_codes, totp_consumptions>>

-----------------------------------------------------------------------------
(* use_recovery_code: three statements outside a transaction, then the     *)
(* transaction the DELETE or the INSERT opens.                             *)

RecentlyPresented(r) ==
  \E a \in auth_attempts : a.fp = Fingerprint(r) /\ a.ts > now - ReplayWindow

FingerprintFresh(c) ==
  /\ pc[c] = "fingerprint"
  /\ ~RecentlyPresented(request[c])
  /\ Goto(c, "codes")
  /\ UNCHANGED <<now, tables, locals>>

FingerprintSeen(c) ==
  /\ pc[c] = "fingerprint"
  /\ RecentlyPresented(request[c])
  /\ Return(c, "REPLAY_ATTACK")
  /\ UNCHANGED <<now, tables>>

Held(c) == <<request[c].user, request[c].secret>> \in recovery_codes

ReadCodes(c) ==
  /\ pc[c] = "codes"
  /\ found' = [found EXCEPT ![c] = Held(c)]
  /\ Goto(c, "consume")
  /\ UNCHANGED <<now, tables, request, backoff, due, clock, step>>

(* MUTANT: the row count of the DELETE is not looked at. *)
ConsumeSuccessUncounted(c) ==
  /\ pc[c] = "consume"
  /\ found[c]
  /\ recovery_codes' = recovery_codes \ {<<request[c].user, request[c].secret>>}
  /\ Record(c, TRUE, NoStep)
  /\ Return(c, "AUTH_SUCCESS")
  /\ UNCHANGED <<now, status, totp_consumptions>>

(* DELETE ... WHERE id = ? and its row count. *)
ConsumeSuccess(c) ==
  /\ pc[c] = "consume"
  /\ found[c] /\ Held(c)
  /\ recovery_codes' = recovery_codes \ {<<request[c].user, request[c].secret>>}
  /\ Record(c, TRUE, NoStep)
  /\ Return(c, "AUTH_SUCCESS")
  /\ UNCHANGED <<now, status, totp_consumptions>>

ConsumeLost(c) ==
  /\ pc[c] = "consume"
  /\ found[c] /\ ~Held(c)
  /\ Return(c, "REPLAY_ATTACK")
  /\ UNCHANGED <<now, tables>>

ConsumeFailure(c) ==
  /\ pc[c] = "consume"
  /\ ~found[c]
  /\ Record(c, FALSE, NoStep)
  /\ Return(c, "AUTH_FAILURE")
  /\ UNCHANGED <<now, status, recovery_codes, totp_consumptions>>

-----------------------------------------------------------------------------
(* The database is locked past the busy timeout, or the process dies:      *)
(* nothing the request was about to write is written.                      *)
Abort(c) ==
  /\ ~Idle(c)
  /\ Return(c, "none")
  /\ UNCHANGED <<now, tables>>

(* revoke_user. *)
Revoke(u) ==
  /\ status[u] = "active"
  /\ status' = [status EXCEPT ![u] = "revoked"]
  /\ UNCHANGED <<now, recovery_codes, auth_attempts, totp_consumptions, recorded,
                 pc, locals, answer>>

(* MUTANT: removes every interval that is over, whatever its age. *)
PurgeUnretained(t) ==
  /\ totp_consumptions' = {k \in totp_consumptions : ~(k.step < t \div StepLen)}
  /\ auth_attempts' = {a \in auth_attempts : ~(a.ts < now - Retention)}
  /\ UNCHANGED <<now, status, recovery_codes, recorded, pc, locals, answer>>

(* purge_old_events, on the two authentication tables: the horizon of the  *)
(* consumptions was computed at a moment t before the transaction.         *)
Purge(t) ==
  /\ totp_consumptions' = {k \in totp_consumptions :
       ~(k.at < t - Retention /\ k.step < (t - Retention) \div StepLen)}
  /\ auth_attempts' = {a \in auth_attempts : ~(a.ts < now - Retention)}
  /\ UNCHANGED <<now, status, recovery_codes, recorded, pc, locals, answer>>

TotpStep(c) ==
  \/ MatchToken(c) \/ DecryptFails(c)
  \/ CommitRevoked(c) \/ CommitReplay(c) \/ CommitSuccess(c) \/ CommitFailure(c)
RecoveryStep(c) ==
  \/ FingerprintFresh(c) \/ FingerprintSeen(c) \/ ReadCodes(c)
  \/ ConsumeSuccess(c) \/ ConsumeLost(c) \/ ConsumeFailure(c)
BackoffStep(c) ==
  CountFailures(c) \/ CooldownOver(c) \/ RateLimited(c) \/ Wake(c)

Next ==
  \/ Tick
  \/ \E c \in Clients :
       \/ \E r \in Requests : Submit(c, r) \/ SubmitRefused(c, r)
       \/ BackoffStep(c) \/ TotpStep(c) \/ RecoveryStep(c) \/ Abort(c)
  \/ \E u \in Users : Revoke(u)
  \/ \E t \in 0 .. now : Purge(t)

Spec == Init /\ [][Next]_vars
=============================================================================
