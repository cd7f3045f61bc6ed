---------------------------- MODULE MfaProperties ----------------------------
(***************************************************************************)
(* What auth/README.md and docs/SECURITY.md promise of the second factor,  *)
(* stated over the whole history of attempts.                              *)
(***************************************************************************)
EXTENDS Mfa

Logins == {a \in recorded : a.success}

(* Every table and every local of every request keeps its shape. *)
TypeOK ==
  /\ now \in Times
  /\ status \in [Users -> {"absent", "active", "revoked"}]
  /\ recovery_codes \subseteq Users \X RecoveryCodes
  /\ auth_attempts \subseteq recorded /\ recorded \subseteq Attempts
  /\ totp_consumptions \subseteq [user : Users, step : Steps, at : Times]
  /\ pc \in [Clients -> {"idle", "count", "decide", "sleep", "totp", "commit",
                         "fingerprint", "codes", "consume"}]
  /\ request \in [Clients -> Requests]
  /\ backoff \in [Clients -> 0 .. MaxDelay]
  /\ due \in [Clients -> Nat]
  /\ clock \in [Clients -> Times]
  /\ step \in [Clients -> Steps \cup {NoStep}]
  /\ found \in [Clients -> BOOLEAN]
  /\ answer \in [Clients -> {"none", "AUTH_SUCCESS", "AUTH_FAILURE", "RATE_LIMITED",
                             "REPLAY_ATTACK", "CRYPTO_ERROR"}]

(* "Invalid attempts do not consume an interval": whatever was consumed, a *)
(* time step or a recovery code, was consumed by a recorded login with it; *)
(* and a token accepted just before the migration to steps is not accepted *)
(* again while its fingerprint is protected.                               *)
OnlyLoginsConsume ==
  /\ TypeOK
  /\ \A k \in totp_consumptions :
       \E a \in Logins : a.user = k.user /\ a.step = k.step
  /\ \A i \in Issued \ recovery_codes :
       \E a \in Logins : a.fp = <<"recovery", i[1], i[2]>>
  /\ \A a, b \in Logins :
       a.id < b.id /\ a.step = NoStep /\ a.fp[1] = "totp" /\ a.fp = b.fp =>
         b.ts >= a.ts + ReplayWindow

(* Backoff bounds guessing: from any failure on, for as long as the first  *)
(* cooldown lasts, a user sees at most one failure per request that can be *)
(* in flight at once, even though requests check and record separately.    *)
BurstBounded ==
  \A a \in recorded :
    ~a.success =>
      Cardinality({b \in recorded :
          /\ b.user = a.user /\ ~b.success
          /\ a.ts <= b.ts /\ b.ts < a.ts + Delay(1)})
        <= Cardinality(Clients)

(* The credential of a login: its time step or its code.  Logins recorded  *)
(* before there were steps are OnlyLoginsConsume's.                        *)
Credential(a) == IF a.step # NoStep THEN <<"step", a.user, a.step>> ELSE a.fp
Recorded == {a \in Logins : a.step # NoStep \/ a.fp[1] = "recovery"}
O == INSTANCE OneTime WITH
  Credentials <- {<<"step", u, s>> : u \in Users, s \in Steps} \cup (
                   {"recovery"} \X Users \X RecoveryCodes),
  active <- {u \in Users : status[u] = "active"},
  spent <- {Credential(a) : a \in Recorded},
  logins <- Cardinality(Recorded)

(* "Each verified interval is consumed once atomically" and "Concurrent    *)
(* requests cannot both succeed": however requests, the purge and          *)
(* revocations overlap, the two factors implement OneTime.  Every login is *)
(* one with a credential that was never used before and, if it is with a   *)
(* token, of a user who is active when the acceptance commits              *)
(* (core.py:337-340).                                                      *)
ImplementsOneTime == O!Spec

(* No request is called a replay unless what it presented was accepted or, *)
(* for a recovery code, recorded before: an honest first use raises no     *)
(* CRITICAL alert.                                                         *)
NoFalseReplayAlarm ==
  [][\A c \in Clients :
       ~Idle(c) /\ pc'[c] = "idle" /\ answer'[c] = "REPLAY_ATTACK" =>
         \/ \E a \in recorded : a.fp = Fingerprint(request[c])
         \/ \E a \in Logins : a.user = request[c].user /\ a.step = step[c]]_vars

(* "The failure-count window does not become the lockout duration":        *)
(* a request is refused only while the last failure is younger than the    *)
(* longest delay.                                                          *)
LockoutIsBounded ==
  [][\A c \in Clients :
       ~Idle(c) /\ pc'[c] = "idle" /\ answer'[c] = "RATE_LIMITED" =>
         \E a \in recorded :
           a.user = request[c].user /\ ~a.success /\ now < a.ts + MaxDelay]_vars

(* A revoked user is let in by neither factor: "Any future authentication  *)
(* attempts by a revoked user will fail immediately" (auth/README.md:87),  *)
(* and use_recovery_code is "Phased identically to verify_token".          *)
LoginNeedsActiveUser ==
  [][\A a \in recorded' \ recorded : a.success => status[a.user] = "active"]_vars
=============================================================================
