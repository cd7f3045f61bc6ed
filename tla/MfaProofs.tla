------------------------------ MODULE MfaProofs ------------------------------
(***************************************************************************)
(* Proofs about Mfa, for any users, clients, tokens, clocks and retention: *)
(* the two factors implement the one-time credentials of OneTime, however  *)
(* requests, revocations and the purge overlap; nothing else is consumed,  *)
(* and the backoff bounds both guesses and lockouts.                       *)
(***************************************************************************)
EXTENDS MfaProperties, FiniteSetTheorems, TLAPS

-----------------------------------------------------------------------------
(* The inductive invariant.                                                *)

Labels == {"idle", "count", "decide", "sleep", "totp", "commit",
           "fingerprint", "codes", "consume"}

(* The parts of the state the credentials depend on keep their shape.      *)
Shape ==
  /\ now \in Times
  /\ status \in [Users -> {"absent", "active", "revoked"}]
  /\ totp_consumptions \subseteq [user : Users, step : Steps, at : Times]
  /\ pc \in [Clients -> Labels]
  /\ request \in [Clients -> Requests \cup {NoRequest}]
  /\ clock \in [Clients -> Times]
  /\ step \in [Clients -> Steps \cup {NoStep}]

(* A request in flight is one, and is where its kind of request goes.      *)
RequestsRouted ==
  \A c \in Clients :
    /\ pc[c] # "idle" => request[c] \in Requests
    /\ pc[c] \in {"totp", "commit"} => request[c].kind = "totp"
    /\ pc[c] \in {"fingerprint", "codes", "consume"} => request[c].kind = "recovery"

(* A step about to be consumed is at most one before the clock that was    *)
(* read, and the commit is not late.                                       *)
CommitsInTime ==
  \A c \in Clients :
    pc[c] = "commit" =>
      /\ now <= clock[c] + MaxPause
      /\ step[c] # NoStep => (clock[c] \div StepLen) - 1 <= step[c]

(* What a recorded login used is a credential.                             *)
CredentialsRecorded ==
  /\ IsFiniteSet(Recorded)
  /\ \A a \in Recorded :
       /\ a.step # NoStep => a.user \in Users /\ a.step \in Steps
       /\ a.step = NoStep => a.fp \in {"recovery"} \X Users \X RecoveryCodes

(* A step that was used is still known to have been, or is too old for any *)
(* request to match it; a code that was used is gone.                      *)
TooOld(s) == s < (now - Retention) \div StepLen
Remembered(u, s) == Consumed(u, s) \/ TooOld(s)
UsedForGood ==
  \A a \in Recorded :
    /\ a.step # NoStep => Remembered(a.user, a.step)
    /\ a.step = NoStep => <<a.fp[2], a.fp[3]>> \notin recovery_codes

IInv == Shape /\ RequestsRouted /\ CommitsInTime /\ CredentialsRecorded /\ UsedForGood

-----------------------------------------------------------------------------
USE DelayAssumption DEF Times, NoStep

(* Division by the length of a step.                                       *)
LEMMA DivMonotone ==
  ASSUME NEW a \in Int, NEW b \in Int, a <= b
  PROVE  a \div StepLen <= b \div StepLen
OBVIOUS

LEMMA DivShift ==
  ASSUME NEW a \in Int
  PROVE  /\ (a - 2 * StepLen) \div StepLen = (a \div StepLen) - 2
         /\ a \div StepLen \in Int
         /\ a >= 0 => a \div StepLen >= 0
OBVIOUS

LEMMA StepsAreIntegers == \A s \in Steps : s \in Int /\ s >= 0
<1>1. MaxTime \div StepLen \in Int
  BY DivShift
<1> QED BY <1>1 DEF Steps

(* A request is of one of the two kinds.                                   *)
LEMMA KindsOfRequests ==
  ASSUME NEW r \in Requests
  PROVE  /\ r.user \in Users
         /\ \/ r.kind = "totp" /\ r.secret \in Tokens
            \/ r.kind = "recovery" /\ r.secret \in RecoveryCodes
<1>1. CASE r \in [user : Users, kind : {"totp"}, secret : Tokens]
  BY <1>1
<1>2. CASE r \in [user : Users, kind : {"recovery"}, secret : RecoveryCodes]
  BY <1>2
<1> QED BY <1>1, <1>2 DEF Requests

(* What is too old stays too old.                                          *)
LEMMA HorizonAdvances ==
  ASSUME NEW x \in Times, NEW y \in Times, x <= y, NEW s \in Int,
         s < (x - Retention) \div StepLen
  PROVE  s < (y - Retention) \div StepLen
<1>1. x - Retention \in Int /\ y - Retention \in Int /\ x - Retention <= y - Retention
  OBVIOUS
<1>2. (x - Retention) \div StepLen <= (y - Retention) \div StepLen
  BY <1>1, DivMonotone
<1>3. (x - Retention) \div StepLen \in Int /\ (y - Retention) \div StepLen \in Int
  BY <1>1, DivShift
<1> QED BY <1>2, <1>3

(* The interval the clock is in.                                           *)
LEMMA CurrentStep ==
  ASSUME NEW t \in Times
  PROVE  t \div StepLen \in Nat /\ t \div StepLen <= MaxTime \div StepLen
<1>1. t \in Int /\ MaxTime \in Int /\ 0 <= t /\ t <= MaxTime
  OBVIOUS
<1>2. t \div StepLen <= MaxTime \div StepLen
  BY <1>1, DivMonotone
<1>3. t \div StepLen \in Int /\ 0 <= t \div StepLen
  BY <1>1, DivShift
<1> QED BY <1>2, <1>3

(* A step matched is one of the three around the current one.              *)
LEMMA MatchIsNear ==
  ASSUME NEW r, NEW k \in Nat, k <= MaxTime \div StepLen, NEW s, s = MatchedStep(r, k)
  PROVE  /\ s \in Steps \cup {NoStep}
         /\ s # NoStep => k - 1 <= s
<1> DEFINE Match(x) == x >= 0 /\ TotpAt[r.user][x] = r.secret
<1>1. s = IF Match(k) THEN k ELSE IF Match(k - 1) THEN k - 1
          ELSE IF Match(k + 1) THEN k + 1 ELSE NoStep
  BY Zenon DEF MatchedStep
<1>2. \A x \in Int : Match(x) => x >= 0
  OBVIOUS
<1> HIDE DEF Match
<1>3. s = NoStep \/ (s = k /\ s >= 0) \/ (s = k - 1 /\ s >= 0) \/ (s = k + 1 /\ s >= 0)
  BY <1>1, <1>2
<1>4. MaxTime \div StepLen \in Int
  BY DivShift
<1> QED BY <1>3, <1>4 DEF Steps

(* Nobody commits a step that retention may have forgotten.                *)
LEMMA NoCommitIsTooOld ==
  ASSUME IInv, NEW c \in Clients, pc[c] = "commit", step[c] # NoStep
  PROVE  ~TooOld(step[c])
<1>1. /\ now \in Int /\ clock[c] \in Int /\ step[c] \in Int
      /\ now <= clock[c] + MaxPause /\ (clock[c] \div StepLen) - 1 <= step[c]
  BY DivShift DEF IInv, Shape, CommitsInTime, Steps
<1>2. now - Retention <= clock[c] - 2 * StepLen
  BY <1>1, TimingAssumption
<1>3. (now - Retention) \div StepLen <= (clock[c] - 2 * StepLen) \div StepLen
  BY <1>1, <1>2, DivMonotone
<1>4. (now - Retention) \div StepLen <= (clock[c] \div StepLen) - 2
  BY <1>1, <1>3, DivShift
<1>5. (now - Retention) \div StepLen \in Int /\ clock[c] \div StepLen \in Int
  BY <1>1, DivShift
<1> QED BY <1>1, <1>4, <1>5 DEF TooOld

-----------------------------------------------------------------------------
(* What a step does to the requests.                                       *)

Requested == Shape /\ RequestsRouted /\ CommitsInTime

(* A request that ends leaves the others as they were.                     *)
LEMMA ReturnStep ==
  ASSUME IInv, NEW c \in Clients, NEW e, Return(c, e), UNCHANGED <<now, status>>,
         totp_consumptions' \subseteq [user : Users, step : Steps, at : Times]
  PROVE  Requested'
<1>1. Shape'
  <2>1. 0 \in Times
    OBVIOUS
  <2> QED BY <2>1 DEF IInv, Shape, Return, Labels
<1>2. RequestsRouted'
  BY DEF IInv, Shape, RequestsRouted, Return
<1>3. CommitsInTime'
  BY DEF IInv, Shape, CommitsInTime, Return
<1> QED BY <1>1, <1>2, <1>3 DEF Requested

(* A request that goes on, to anywhere but a commit, keeps clock and step. *)
LEMMA GotoStep ==
  ASSUME IInv, NEW c \in Clients, NEW l \in Labels \ {"idle", "commit"}, Goto(c, l),
         pc[c] # "idle",
         l = "totp" => request[c].kind = "totp",
         l \in {"fingerprint", "codes", "consume"} => request[c].kind = "recovery",
         UNCHANGED <<now, tables, request, clock, step>>
  PROVE  Requested'
<1>1. Shape'
  BY DEF IInv, Shape, Goto, Labels, tables
<1>2. RequestsRouted'
  BY DEF IInv, Shape, RequestsRouted, Goto
<1>3. CommitsInTime'
  BY DEF IInv, Shape, CommitsInTime, Goto
<1> QED BY <1>1, <1>2, <1>3 DEF Requested

(* Verification is where requests of the kind go.                          *)
LEMMA VerificationRouted ==
  ASSUME NEW c \in Clients, request[c] \in Requests
  PROVE  /\ Verification(c) \in {"totp", "fingerprint"}
         /\ Verification(c) = "totp" => request[c].kind = "totp"
         /\ Verification(c) = "fingerprint" => request[c].kind = "recovery"
BY KindsOfRequests DEF Verification

LEMMA SubmitStep ==
  ASSUME IInv, NEW c \in Clients, NEW r \in Requests, Submit(c, r)
  PROVE  Requested'
<1>1. Shape'
  BY DEF IInv, Shape, Submit, Labels, tables
<1>2. RequestsRouted'
  BY DEF IInv, Shape, RequestsRouted, Submit
<1>3. CommitsInTime'
  BY DEF IInv, Shape, CommitsInTime, Submit
<1> QED BY <1>1, <1>2, <1>3 DEF Requested

LEMMA BackoffKeepsRequests ==
  ASSUME IInv, NEW c \in Clients, BackoffStep(c)
  PROVE  Requested' /\ UNCHANGED <<now, tables>>
<1>1. CASE CountFailures(c)
  <2>1. request[c] \in Requests
    BY <1>1 DEF CountFailures, IInv, RequestsRouted
  <2>2. PICK l \in {Verification(c), "sleep", "decide"} : Goto(c, l)
    BY <1>1 DEF CountFailures
  <2> QED BY <1>1, <2>1, <2>2, VerificationRouted, GotoStep DEF CountFailures, Labels
<1>2. CASE CooldownOver(c) \/ Wake(c)
  <2>1. request[c] \in Requests
    BY <1>2 DEF CooldownOver, Wake, IInv, RequestsRouted
  <2> QED BY <1>2, <2>1, VerificationRouted, GotoStep DEF CooldownOver, Wake, Labels, locals
<1>3. CASE RateLimited(c)
  BY <1>3, ReturnStep DEF RateLimited, tables, IInv, Shape
<1> QED BY <1>1, <1>2, <1>3 DEF BackoffStep

LEMMA MatchTokenStep ==
  ASSUME IInv, NEW c \in Clients, MatchToken(c)
  PROVE  Requested'
<1>1. request[c] \in Requests /\ now \in Times
  <2>1. pc[c] # "idle"
    BY DEF MatchToken
  <2> QED BY <2>1 DEF IInv, RequestsRouted, Shape
<1> DEFINE k == now \div StepLen
           s == MatchedStep(request[c], k)
<1>2. k \in Nat /\ k <= MaxTime \div StepLen
  BY <1>1, CurrentStep
<1>3. /\ clock' = [clock EXCEPT ![c] = now] /\ step' = [step EXCEPT ![c] = s]
      /\ pc' = [pc EXCEPT ![c] = "commit"] /\ pc[c] = "totp"
      /\ UNCHANGED <<now, tables, request>>
  BY DEF MatchToken, Goto
<1> HIDE DEF k
<1>4. s \in Steps \cup {NoStep} /\ (s # NoStep => k - 1 <= s)
  BY <1>2, MatchIsNear
<1> HIDE DEF s
<1>5. Shape'
  BY <1>1, <1>4, <1>3 DEF IInv, Shape, Labels, tables
<1>6. RequestsRouted'
  BY <1>3 DEF IInv, Shape, RequestsRouted
<1>7. CommitsInTime'
  <2> SUFFICES ASSUME NEW d \in Clients, pc'[d] = "commit"
               PROVE  /\ now' <= clock'[d] + MaxPause
                      /\ step'[d] # NoStep => (clock'[d] \div StepLen) - 1 <= step'[d]
    BY DEF CommitsInTime
  <2>1. CASE d = c
    <3>1. clock'[d] = now /\ step'[d] = s /\ now' = now
      BY <1>3, <2>1 DEF IInv, Shape
    <3> QED BY <1>1, <1>4, <3>1 DEF k
  <2>2. CASE d # c
    BY <1>3, <2>2 DEF IInv, Shape, CommitsInTime
  <2> QED BY <2>1, <2>2
<1> QED BY <1>5, <1>6, <1>7 DEF Requested

LEMMA ReadingKeepsRequests ==
  ASSUME IInv, NEW c \in Clients,
         \/ DecryptFails(c) \/ CommitRevoked(c) \/ CommitReplay(c)
         \/ FingerprintFresh(c) \/ FingerprintSeen(c) \/ ReadCodes(c) \/ ConsumeLost(c)
         \/ Abort(c)
  PROVE  Requested' /\ UNCHANGED <<now, tables>>
<1>1. CASE DecryptFails(c) \/ CommitRevoked(c) \/ CommitReplay(c) \/ FingerprintSeen(c)
             \/ ConsumeLost(c) \/ Abort(c)
  BY <1>1, ReturnStep DEF DecryptFails, CommitRevoked, CommitReplay, FingerprintSeen,
                          ConsumeLost, Abort, tables, IInv, Shape
<1>2. CASE FingerprintFresh(c) \/ ReadCodes(c)
  <2>1. request[c].kind = "recovery"
    BY <1>2 DEF FingerprintFresh, ReadCodes, IInv, RequestsRouted
  <2> QED BY <1>2, <2>1, GotoStep DEF FingerprintFresh, ReadCodes, Labels, locals
<1> QED BY <1>1, <1>2

-----------------------------------------------------------------------------
(* What a step does to the credentials.                                    *)

Credited == CredentialsRecorded /\ UsedForGood
Implements == [O!Next]_(O!vars)

(* Steps without a login: nothing is used, and what was is remembered.     *)
LEMMA NothingUsed ==
  ASSUME IInv, Recorded' = Recorded, status' = status, now <= now', now' \in Times,
         recovery_codes' = recovery_codes,
         \A k \in totp_consumptions :
           k \in totp_consumptions' \/ k.step < (now' - Retention) \div StepLen
  PROVE  Credited' /\ Implements
<1>1. now \in Times
  BY DEF IInv, Shape
<1>2. ASSUME NEW s \in Int, TooOld(s) PROVE TooOld(s)'
  BY <1>1, <1>2, HorizonAdvances DEF TooOld
<1>3. ASSUME NEW u, NEW s \in Int, Remembered(u, s) PROVE Remembered(u, s)'
  <2>1. CASE Consumed(u, s)
    <3>1. PICK k \in totp_consumptions : k.user = u /\ k.step = s
      BY <2>1 DEF Consumed
    <3>2. k \in totp_consumptions' \/ TooOld(s)'
      BY <3>1 DEF TooOld
    <3> QED BY <3>1, <3>2 DEF Consumed, Remembered
  <2>2. CASE TooOld(s)
    BY <1>2, <2>2 DEF TooOld, Remembered
  <2> QED BY <1>3, <2>1, <2>2 DEF Remembered
<1>4. CredentialsRecorded'
  BY DEF IInv, CredentialsRecorded
<1>5. UsedForGood'
  <2> SUFFICES ASSUME NEW a \in Recorded
               PROVE  /\ a.step # NoStep => Remembered(a.user, a.step)'
                      /\ a.step = NoStep => <<a.fp[2], a.fp[3]>> \notin recovery_codes
    BY DEF UsedForGood
  <2>1. a.step # NoStep => Remembered(a.user, a.step) /\ a.step \in Steps
    BY DEF IInv, UsedForGood, CredentialsRecorded
  <2>2. a.step # NoStep => Remembered(a.user, a.step)'
    BY <1>3, <2>1, StepsAreIntegers
  <2> QED BY <2>2 DEF IInv, UsedForGood
<1>6. Implements
  BY DEF Implements, O!vars
<1> QED BY <1>4, <1>5, <1>6 DEF Credited

(* Steps that change no table.                                             *)
LEMMA TablesUntouched ==
  ASSUME IInv, UNCHANGED tables, now <= now', now' \in Times
  PROVE  Credited' /\ Implements
<1>1. Recorded' = Recorded
  BY DEF Recorded, Logins, tables
<1> QED BY <1>1, NothingUsed DEF tables

(* A failure is no login.                                                  *)
LEMMA FailureStep ==
  ASSUME IInv, NEW c \in Clients, CommitFailure(c) \/ ConsumeFailure(c)
  PROVE  Requested' /\ Credited' /\ Implements
<1>1. PICK row : ~row.success /\ recorded' = recorded \cup {row}
  BY DEF CommitFailure, ConsumeFailure, Record
<1>2. Recorded' = Recorded
  BY <1>1 DEF Recorded, Logins
<1>3. UNCHANGED <<now, status, recovery_codes, totp_consumptions>> /\ Return(c, "AUTH_FAILURE")
  BY DEF CommitFailure, ConsumeFailure
<1>4. Requested'
  BY <1>3, ReturnStep DEF IInv, Shape
<1> QED BY <1>2, <1>3, <1>4, NothingUsed DEF IInv, Shape

(* A login with a credential that is not spent is one of OneTime.          *)
LEMMA LoginStep ==
  ASSUME IInv, NEW row, recorded' = recorded \cup {row}, row.success, status' = status,
         row.step # NoStep \/ row.fp[1] = "recovery",
         row.step # NoStep => row.user \in Users /\ row.step \in Steps /\ status[row.user] = "active",
         row.step = NoStep => row.fp \in {"recovery"} \X Users \X RecoveryCodes,
         \A a \in Recorded : Credential(a) # Credential(row)
  PROVE  Recorded' = Recorded \cup {row} /\ CredentialsRecorded' /\ Implements
<1>1. Recorded' = Recorded \cup {row}
  BY DEF Recorded, Logins
<1>2. row \notin Recorded
  OBVIOUS
<1>3. IsFiniteSet(Recorded) /\ IsFiniteSet(Recorded')
      /\ Cardinality(Recorded') = Cardinality(Recorded) + 1
  BY <1>1, <1>2, FS_AddElement DEF IInv, CredentialsRecorded
<1>4. CredentialsRecorded'
  BY <1>1, <1>3 DEF IInv, CredentialsRecorded
<1>5. O!Login(Credential(row))
  <2>1. Credential(row) \notin {Credential(a) : a \in Recorded}
    OBVIOUS
  <2>2. Credential(row)[1] = "step" => Credential(row)[2] \in {u \in Users : status[u] = "active"}
    BY DEF Credential
  <2>3. {Credential(a) : a \in Recorded'} = {Credential(a) : a \in Recorded} \cup {Credential(row)}
    BY <1>1
  <2> QED BY <1>3, <2>1, <2>2, <2>3 DEF O!Login, Credential
<1>6. Credential(row) \in {<<"step", u, s>> : u \in Users, s \in Steps}
                           \cup ({"recovery"} \X Users \X RecoveryCodes)
  BY DEF Credential
<1> QED BY <1>1, <1>4, <1>5, <1>6 DEF Implements, O!Next

-----------------------------------------------------------------------------
(* A token: the step was not consumed, and cannot have been forgotten.     *)
LEMMA CommitSuccessStep ==
  ASSUME IInv, NEW c \in Clients, CommitSuccess(c)
  PROVE  Requested' /\ Credited' /\ Implements
<1> DEFINE u == request[c].user
           s == step[c]
           k == [user |-> u, step |-> s, at |-> clock[c]]
<1>1. /\ pc[c] = "commit" /\ StillActive(c) /\ s # NoStep /\ ~Consumed(u, s)
      /\ totp_consumptions' = totp_consumptions \cup {k}
      /\ UNCHANGED <<now, status, recovery_codes>> /\ Return(c, "AUTH_SUCCESS")
  BY DEF CommitSuccess, Replayed
<1>2. PICK row : /\ row.success /\ row.user = u /\ row.step = s
                 /\ recorded' = recorded \cup {row}
  BY DEF CommitSuccess, Record
<1>3. u \in Users /\ s \in Steps /\ clock[c] \in Times /\ status[u] = "active"
  <2>1. request[c] \in Requests
    BY <1>1 DEF IInv, RequestsRouted
  <2> QED BY <1>1, <2>1, KindsOfRequests DEF IInv, Shape, StillActive
<1>4. ~TooOld(s)
  BY <1>1, NoCommitIsTooOld
<1>5. k \in [user : Users, step : Steps, at : Times]
  BY <1>3
<1>6. Requested'
  BY <1>1, <1>5, ReturnStep DEF IInv, Shape
<1> HIDE DEF u, s, k
<1>7. \A a \in Recorded : Credential(a) # Credential(row)
  <2> SUFFICES ASSUME NEW a \in Recorded, Credential(a) = Credential(row)
               PROVE  FALSE
    OBVIOUS
  <2>1. Credential(row) = <<"step", u, s>>
    BY <1>1, <1>2 DEF Credential
  <2>2. a.step # NoStep
    BY <2>1 DEF Credential, IInv, CredentialsRecorded
  <2>3. a.user = u /\ a.step = s
    BY <2>1, <2>2 DEF Credential
  <2>4. Remembered(u, s)
    BY <2>2, <2>3 DEF IInv, UsedForGood
  <2> QED BY <1>1, <1>4, <2>4 DEF Remembered
<1>8. Recorded' = Recorded \cup {row} /\ CredentialsRecorded' /\ Implements
  BY <1>1, <1>2, <1>3, <1>7, LoginStep
<1>9. UsedForGood'
  <2>1. ASSUME NEW a \in Recorded'
        PROVE  /\ a.step # NoStep => Remembered(a.user, a.step)'
               /\ a.step = NoStep => <<a.fp[2], a.fp[3]>> \notin recovery_codes'
    <3>1. CASE a = row
      <4>1. k \in totp_consumptions' /\ k.user = a.user /\ k.step = a.step
        BY <1>1, <1>2, <3>1 DEF k
      <4> QED BY <1>1, <1>2, <3>1, <4>1 DEF Remembered, Consumed
    <3>2. CASE a \in Recorded
      <4>1. Consumed(a.user, a.step) => Consumed(a.user, a.step)'
        BY <1>1 DEF Consumed
      <4>2. TooOld(a.step) => TooOld(a.step)'
        BY <1>1 DEF TooOld
      <4> QED BY <1>1, <3>2, <4>1, <4>2 DEF IInv, UsedForGood, Remembered
    <3> QED BY <1>8, <2>1, <3>1, <3>2
  <2> QED BY <2>1 DEF UsedForGood
<1> QED BY <1>6, <1>8, <1>9 DEF Credited

(* A recovery code: it was there when it was deleted.                      *)
LEMMA ConsumeSuccessStep ==
  ASSUME IInv, NEW c \in Clients, ConsumeSuccess(c)
  PROVE  Requested' /\ Credited' /\ Implements
<1> DEFINE u == request[c].user
           r == request[c].secret
<1>1. /\ pc[c] = "consume" /\ <<u, r>> \in recovery_codes
      /\ recovery_codes' = recovery_codes \ {<<u, r>>}
      /\ UNCHANGED <<now, status, totp_consumptions>> /\ Return(c, "AUTH_SUCCESS")
  BY DEF ConsumeSuccess, Held
<1>2. PICK row : /\ row.success /\ row.step = NoStep /\ row.fp = Fingerprint(request[c])
                 /\ recorded' = recorded \cup {row}
  BY DEF ConsumeSuccess, Record
<1>3. u \in Users /\ r \in RecoveryCodes /\ row.fp = <<"recovery", u, r>>
  <2>1. request[c] \in Requests /\ request[c].kind = "recovery"
    BY <1>1 DEF IInv, RequestsRouted
  <2> QED BY <1>2, <2>1, KindsOfRequests DEF Fingerprint
<1>4. Requested'
  BY <1>1, ReturnStep DEF IInv, Shape
<1> HIDE DEF u, r
<1>5. \A a \in Recorded : Credential(a) # Credential(row)
  <2> SUFFICES ASSUME NEW a \in Recorded, Credential(a) = Credential(row)
               PROVE  FALSE
    OBVIOUS
  <2>1. Credential(row) = <<"recovery", u, r>>
    BY <1>2, <1>3 DEF Credential
  <2>2. a.step = NoStep
    BY <2>1 DEF Credential
  <2>3. a.fp = <<"recovery", u, r>>
    BY <2>1, <2>2 DEF Credential
  <2>4. <<u, r>> \notin recovery_codes
    BY <2>2, <2>3 DEF IInv, UsedForGood
  <2> QED BY <1>1, <2>4
<1>6. Recorded' = Recorded \cup {row} /\ CredentialsRecorded' /\ Implements
  BY <1>1, <1>2, <1>3, <1>5, LoginStep
<1>7. UsedForGood'
  <2>1. ASSUME NEW a \in Recorded'
        PROVE  /\ a.step # NoStep => Remembered(a.user, a.step)'
               /\ a.step = NoStep => <<a.fp[2], a.fp[3]>> \notin recovery_codes'
    <3>1. CASE a = row
      BY <1>1, <1>2, <1>3, <3>1
    <3>2. CASE a \in Recorded
      BY <1>1, <3>2 DEF IInv, UsedForGood, Remembered, Consumed, TooOld
    <3> QED BY <1>6, <2>1, <3>1, <3>2
  <2> QED BY <2>1 DEF UsedForGood
<1> QED BY <1>4, <1>6, <1>7 DEF Credited

-----------------------------------------------------------------------------
(* The clock, an administrator and the purge.                              *)

LEMMA TickStep ==
  ASSUME IInv, Tick
  PROVE  Requested' /\ Credited' /\ Implements
<1>1. now \in Times /\ now < MaxTime /\ now' = now + 1
  BY DEF Tick, IInv, Shape
<1>2. now' \in Times /\ now <= now'
  BY <1>1
<1>3. Shape' /\ RequestsRouted'
  BY <1>2 DEF Tick, IInv, Shape, RequestsRouted, tables, locals
<1>4. CommitsInTime'
  <2> SUFFICES ASSUME NEW c \in Clients, pc[c] = "commit"
               PROVE  /\ now' <= clock[c] + MaxPause
                      /\ step[c] # NoStep => (clock[c] \div StepLen) - 1 <= step[c]
    BY DEF Tick, CommitsInTime, locals
  <2>1. now < clock[c] + MaxPause /\ clock[c] \in Times
    BY DEF Tick, IInv, Shape
  <2>2. now' <= clock[c] + MaxPause
    BY <1>1, <2>1
  <2> QED BY <2>2 DEF IInv, CommitsInTime
<1> QED BY <1>2, <1>3, <1>4, TablesUntouched DEF Tick, Requested

LEMMA RevokeStep ==
  ASSUME IInv, NEW u \in Users, Revoke(u)
  PROVE  Requested' /\ Credited' /\ Implements
<1>1. Requested'
  BY DEF Revoke, IInv, Requested, Shape, RequestsRouted, CommitsInTime, locals
<1>2. Recorded' = Recorded
  BY DEF Revoke, Recorded, Logins
<1>3. Credited'
  BY <1>2 DEF Revoke, IInv, Credited, CredentialsRecorded, UsedForGood, Remembered,
              Consumed, TooOld
<1>4. O!Revoke(u)
  <2> DEFINE active == {x \in Users : status[x] = "active"}
  <2>1. u \in active /\ {x \in Users : status'[x] = "active"} = active \ {u}
    BY DEF Revoke, IInv, Shape
  <2> QED BY <1>2, <2>1 DEF O!Revoke
<1> QED BY <1>1, <1>3, <1>4 DEF Implements, O!Next

LEMMA PurgeStep ==
  ASSUME IInv, NEW t \in 0 .. now, Purge(t)
  PROVE  Requested' /\ Credited' /\ Implements
<1>1. Requested'
  BY DEF Purge, IInv, Requested, Shape, RequestsRouted, CommitsInTime, locals
<1>2. Recorded' = Recorded
  BY DEF Purge, Recorded, Logins
<1>3. now \in Times /\ t \in Times /\ t <= now
  <2>1. now \in Times
    BY DEF IInv, Shape
  <2> QED BY <2>1
<1>4. ASSUME NEW k \in totp_consumptions, k \notin totp_consumptions'
      PROVE  k.step < (now - Retention) \div StepLen
  <2>1. k.step < (t - Retention) \div StepLen
    BY <1>4 DEF Purge
  <2>2. k.step \in Int
    BY StepsAreIntegers DEF IInv, Shape
  <2> QED BY <1>3, <2>1, <2>2, HorizonAdvances
<1>5. UNCHANGED <<now, status, recovery_codes>>
  BY DEF Purge
<1>6. now <= now' /\ now' \in Times
  BY <1>3, <1>5
<1>7. \A k \in totp_consumptions :
        k \in totp_consumptions' \/ k.step < (now' - Retention) \div StepLen
  BY <1>4, <1>5
<1> QED BY <1>1, <1>2, <1>5, <1>6, <1>7, NothingUsed

-----------------------------------------------------------------------------
(* Every step keeps the invariant, and is a login or a revocation of       *)
(* OneTime or invisible to it.                                             *)
LEMMA EveryStep == IInv /\ [Next]_vars => IInv' /\ Implements
<1> SUFFICES ASSUME IInv, [Next]_vars PROVE Requested' /\ Credited' /\ Implements
  BY DEF IInv, Requested, Credited
<1> now \in Times
  BY DEF IInv, Shape
<1>1. ASSUME Requested', UNCHANGED <<now, tables>>
      PROVE  Requested' /\ Credited' /\ Implements
  <2>1. now <= now' /\ now' \in Times
    BY <1>1
  <2> QED BY <1>1, <2>1, TablesUntouched
<1>2. CASE Tick
  BY <1>2, TickStep
<1>3. ASSUME NEW c \in Clients, NEW r \in Requests, Submit(c, r) \/ SubmitRefused(c, r)
      PROVE  Requested' /\ Credited' /\ Implements
  <2>1. CASE Submit(c, r)
    BY <1>1, <2>1, SubmitStep DEF Submit
  <2>2. CASE SubmitRefused(c, r)
    BY <1>1, <2>2, ReturnStep DEF SubmitRefused, tables, IInv, Shape
  <2> QED BY <1>3, <2>1, <2>2
<1>4. ASSUME NEW c \in Clients, BackoffStep(c)
      PROVE  Requested' /\ Credited' /\ Implements
  BY <1>1, <1>4, BackoffKeepsRequests
<1>5. ASSUME NEW c \in Clients, TotpStep(c)
      PROVE  Requested' /\ Credited' /\ Implements
  <2>1. CASE MatchToken(c)
    BY <1>1, <2>1, MatchTokenStep DEF MatchToken
  <2>2. CASE DecryptFails(c) \/ CommitRevoked(c) \/ CommitReplay(c)
    BY <1>1, <2>2, ReadingKeepsRequests
  <2> QED BY <1>5, <2>1, <2>2, CommitSuccessStep, FailureStep DEF TotpStep
<1>6. ASSUME NEW c \in Clients, RecoveryStep(c)
      PROVE  Requested' /\ Credited' /\ Implements
  <2>1. CASE FingerprintFresh(c) \/ FingerprintSeen(c) \/ ReadCodes(c) \/ ConsumeLost(c)
    BY <1>1, <2>1, ReadingKeepsRequests
  <2> QED BY <1>6, <2>1, ConsumeSuccessStep, FailureStep DEF RecoveryStep
<1>7. ASSUME NEW c \in Clients, Abort(c)
      PROVE  Requested' /\ Credited' /\ Implements
  BY <1>1, <1>7, ReadingKeepsRequests
<1>8. CASE UNCHANGED vars
  <2>1. Requested'
    BY <1>8 DEF vars, locals, tables, IInv, Requested, Shape, RequestsRouted, CommitsInTime
  <2> QED BY <1>1, <1>8, <2>1 DEF vars
<1> QED
  BY <1>2, <1>3, <1>4, <1>5, <1>6, <1>7, <1>8, RevokeStep, PurgeStep DEF Next

(* No login is recorded at the start but those of tokens from before there *)
(* were steps.                                                             *)
LEMMA InitStep == Init => IInv /\ O!Init
<1> SUFFICES ASSUME Init PROVE IInv /\ O!Init
  OBVIOUS
<1>1. Recorded = {}
  BY LegacyAssumption DEF Init, Recorded, Logins
<1>2. Shape
  <2>1. 0 \in Times
    OBVIOUS
  <2>2. /\ now \in Times /\ totp_consumptions \subseteq [user : Users, step : Steps, at : Times]
        /\ status \in [Users -> {"absent", "active", "revoked"}]
    BY <2>1 DEF Init
  <2>3. pc \in [Clients -> Labels] /\ clock \in [Clients -> Times]
    BY <2>1 DEF Init, Labels
  <2>4. request \in [Clients -> Requests \cup {NoRequest}]
    BY DEF Init
  <2>5. step \in [Clients -> Steps \cup {NoStep}]
    BY DEF Init
  <2> QED BY <2>2, <2>3, <2>4, <2>5 DEF Shape
<1>3. RequestsRouted /\ CommitsInTime
  BY DEF Init, RequestsRouted, CommitsInTime
<1>4. IsFiniteSet(Recorded) /\ Cardinality(Recorded) = 0
  BY <1>1, FS_EmptySet
<1>5. CredentialsRecorded /\ UsedForGood
  BY <1>1, <1>4 DEF CredentialsRecorded, UsedForGood
<1>6. O!Init
  BY <1>1, <1>4 DEF O!Init
<1> QED BY <1>2, <1>3, <1>5, <1>6 DEF IInv

(* The invariant holds in every reachable state.                           *)
THEOREM InvariantHolds == Spec => []IInv
BY InitStep, EveryStep, PTL DEF Spec

(* verify_token and use_recovery_code (auth/core.py) implement OneTime:    *)
(* every login is one with a credential that was never used before and, if *)
(* it is with a token, of a user who is active when it commits.            *)
THEOREM CredentialsAreOneTime == Spec => ImplementsOneTime
<1>1. IInv /\ [Next]_vars => [O!Next]_(O!vars)
  BY EveryStep DEF Implements
<1>2. Init => O!Init
  BY InitStep
<1> QED BY <1>1, <1>2, InvariantHolds, PTL DEF Spec, ImplementsOneTime, O!Spec

-----------------------------------------------------------------------------
(* A second invariant, of what the requests that raise an alarm have read. *)

Answers == {"none", "AUTH_SUCCESS", "AUTH_FAILURE", "RATE_LIMITED", "REPLAY_ATTACK",
            "CRYPTO_ERROR"}
AnswersShape == found \in [Clients -> BOOLEAN] /\ answer \in [Clients -> Answers]

(* What is in the tables was recorded; a step is consumed by a login.      *)
TablesFromHistory ==
  /\ auth_attempts \subseteq recorded
  /\ \A k \in totp_consumptions : \E a \in Logins : a.user = k.user /\ a.step = k.step

(* A code that was found is there, or its use is on record.                *)
Presented(c) == \E a \in recorded : a.fp = Fingerprint(request[c])
FoundThenUsed ==
  \A c \in Clients : pc[c] = "consume" /\ found[c] => Held(c) \/ Presented(c)

AlarmInv == AnswersShape /\ TablesFromHistory /\ FoundThenUsed

(* A step that records nothing and takes no code.                          *)
LEMMA HistoryKept ==
  ASSUME AlarmInv, UNCHANGED recorded, auth_attempts' \subseteq auth_attempts,
         totp_consumptions' \subseteq totp_consumptions
  PROVE  TablesFromHistory'
BY DEF AlarmInv, TablesFromHistory, Logins

(* A request that ends.                                                    *)
LEMMA ReturnKeepsFound ==
  ASSUME IInv, AlarmInv, NEW c \in Clients, NEW e \in Answers, Return(c, e),
         recorded \subseteq recorded',
         \A d \in Clients \ {c} : pc[d] = "consume" /\ found[d] /\ Held(d) =>
             <<request[d].user, request[d].secret>> \in recovery_codes'
               \/ \E a \in recorded' : a.fp = Fingerprint(request[d])
  PROVE  AnswersShape' /\ FoundThenUsed'
<1>1. AnswersShape'
  BY DEF AlarmInv, AnswersShape, Return
<1>2. FoundThenUsed'
  <2> SUFFICES ASSUME NEW d \in Clients, pc'[d] = "consume", found'[d]
               PROVE  Held(d)' \/ Presented(d)'
    BY DEF FoundThenUsed
  <2>1. d # c /\ pc[d] = "consume" /\ found[d] /\ request'[d] = request[d]
    BY DEF IInv, Shape, AlarmInv, AnswersShape, Return
  <2>2. Held(d) \/ Presented(d)
    BY <2>1 DEF AlarmInv, FoundThenUsed
  <2>3. CASE Presented(d)
    BY <2>1, <2>3 DEF Presented, Fingerprint
  <2>4. CASE Held(d)
    BY <2>1, <2>4 DEF Held, Presented, Fingerprint
  <2> QED BY <2>2, <2>3, <2>4
<1> QED BY <1>1, <1>2

(* A request that goes on, to anywhere but the consumption.                *)
LEMMA GotoKeepsFound ==
  ASSUME IInv, AlarmInv, NEW c \in Clients, NEW l \in Labels \ {"consume"}, Goto(c, l),
         UNCHANGED <<tables, request, found>>
  PROVE  AlarmInv'
<1>1. AnswersShape'
  BY DEF AlarmInv, AnswersShape, Goto
<1>2. TablesFromHistory'
  BY HistoryKept DEF tables
<1>3. FoundThenUsed'
  BY DEF IInv, Shape, AlarmInv, FoundThenUsed, Goto, Held, Presented, tables
<1> QED BY <1>1, <1>2, <1>3 DEF AlarmInv

LEMMA QuietReturn ==
  ASSUME IInv, AlarmInv, NEW c \in Clients, NEW e \in Answers, Return(c, e), UNCHANGED tables
  PROVE  AlarmInv'
<1>1. AnswersShape' /\ FoundThenUsed'
  BY ReturnKeepsFound DEF tables, Held
<1>2. TablesFromHistory'
  BY HistoryKept DEF tables
<1> QED BY <1>1, <1>2 DEF AlarmInv

(* An attempt on record.                                                   *)
LEMMA RowRecorded ==
  ASSUME NEW c, NEW s, Record(c, TRUE, s)
  PROVE  \E row :
           /\ row.fp = Fingerprint(request[c]) /\ row.user = request[c].user
           /\ row.success /\ row.step = s
           /\ recorded' = recorded \cup {row} /\ auth_attempts' = auth_attempts \cup {row}
BY DEF Record

LEMMA RecordStep ==
  ASSUME IInv, AlarmInv, NEW c \in Clients,
         CommitSuccess(c) \/ CommitFailure(c) \/ ConsumeSuccess(c) \/ ConsumeFailure(c)
  PROVE  AlarmInv'
<1>1. PICK row :
        /\ row.fp = Fingerprint(request[c]) /\ row.user = request[c].user
        /\ recorded' = recorded \cup {row} /\ auth_attempts' = auth_attempts \cup {row}
        /\ CommitSuccess(c) => row.success /\ row.step = step[c]
  <2>1. CASE CommitSuccess(c)
    <3> DEFINE s == step[c]
    <3>1. Record(c, TRUE, s)
      BY <2>1 DEF CommitSuccess
    <3> HIDE DEF s
    <3>2. PICK row :
            /\ row.fp = Fingerprint(request[c]) /\ row.user = request[c].user
            /\ row.success /\ row.step = s
            /\ recorded' = recorded \cup {row} /\ auth_attempts' = auth_attempts \cup {row}
      BY <3>1, RowRecorded
    <3>3. row.step = step[c]
      BY <3>2 DEF s
    <3> QED BY <3>2, <3>3
  <2>2. CASE ~CommitSuccess(c)
    <3>1. Record(c, FALSE, NoStep) \/ Record(c, TRUE, NoStep)
      BY <2>2 DEF CommitFailure, ConsumeSuccess, ConsumeFailure
    <3> QED BY <2>2, <3>1 DEF Record
  <2> QED BY <2>1, <2>2
<1>2. PICK e \in Answers : Return(c, e)
  BY DEF CommitSuccess, CommitFailure, ConsumeSuccess, ConsumeFailure, Answers
<1>3. TablesFromHistory'
  <2>1. auth_attempts' \subseteq recorded'
    BY <1>1 DEF AlarmInv, TablesFromHistory
  <2>2. ASSUME NEW k \in totp_consumptions'
        PROVE  \E a \in Logins' : a.user = k.user /\ a.step = k.step
    <3>1. CASE k \in totp_consumptions
      <4>1. PICK a \in Logins : a.user = k.user /\ a.step = k.step
        BY <3>1 DEF AlarmInv, TablesFromHistory
      <4>2. a \in Logins'
        BY <1>1, <4>1 DEF Logins
      <4> QED BY <4>1, <4>2
    <3>2. CASE k \notin totp_consumptions
      <4>1. CommitSuccess(c)
        BY <2>2, <3>2 DEF CommitFailure, ConsumeSuccess, ConsumeFailure
      <4>2. k.user = request[c].user /\ k.step = step[c]
        BY <2>2, <3>2, <4>1 DEF CommitSuccess
      <4>3. row \in Logins' /\ row.user = k.user /\ row.step = k.step
        BY <1>1, <4>1, <4>2 DEF Logins
      <4> QED BY <4>3
    <3> QED BY <3>1, <3>2
  <2> QED BY <2>1, <2>2 DEF TablesFromHistory
<1>4. ASSUME NEW d \in Clients \ {c}, pc[d] = "consume", found[d], Held(d)
      PROVE  \/ <<request[d].user, request[d].secret>> \in recovery_codes'
             \/ \E a \in recorded' : a.fp = Fingerprint(request[d])
  <2>1. CASE recovery_codes' = recovery_codes
    BY <1>4, <2>1 DEF Held
  <2>2. CASE recovery_codes' # recovery_codes
    <3>1. /\ ConsumeSuccess(c) /\ pc[c] = "consume"
          /\ recovery_codes' = recovery_codes \ {<<request[c].user, request[c].secret>>}
      BY <2>2 DEF CommitSuccess, CommitFailure, ConsumeSuccess, ConsumeFailure
    <3>2. CASE request[d].user = request[c].user /\ request[d].secret = request[c].secret
      <4>1. request[d].kind = "recovery" /\ request[c].kind = "recovery"
        BY <1>4, <3>1 DEF IInv, RequestsRouted
      <4>2. Fingerprint(request[d]) = row.fp
        BY <1>1, <3>2, <4>1 DEF Fingerprint
      <4> QED BY <1>1, <4>2
    <3>3. CASE <<request[d].user, request[d].secret>> # <<request[c].user, request[c].secret>>
      BY <1>4, <3>1, <3>3 DEF Held
    <3> QED BY <3>2, <3>3
  <2> QED BY <2>1, <2>2
<1>5. AnswersShape' /\ FoundThenUsed'
  BY <1>1, <1>2, <1>4, ReturnKeepsFound
<1> QED BY <1>3, <1>5 DEF AlarmInv

LEMMA AlarmStep == IInv /\ AlarmInv /\ [Next]_vars => AlarmInv'
<1> SUFFICES ASSUME IInv, AlarmInv, [Next]_vars PROVE AlarmInv'
  OBVIOUS
<1>1. CASE UNCHANGED <<tables, pc, request, found, answer>>
  BY <1>1 DEF tables, AlarmInv, AnswersShape, TablesFromHistory, Logins, FoundThenUsed, Held,
              Presented
<1>2. CASE Tick \/ UNCHANGED vars
  BY <1>1, <1>2 DEF Tick, vars, locals
<1>3. ASSUME NEW c \in Clients, NEW r \in Requests, Submit(c, r) PROVE AlarmInv'
  <2>1. AnswersShape'
    BY <1>3 DEF Submit, AlarmInv, AnswersShape, Answers
  <2>2. TablesFromHistory'
    BY <1>3, HistoryKept DEF Submit, tables
  <2>3. FoundThenUsed'
    BY <1>3 DEF Submit, IInv, Shape, AlarmInv, FoundThenUsed, Held, Presented, tables
  <2> QED BY <2>1, <2>2, <2>3 DEF AlarmInv
<1>4. ASSUME NEW c \in Clients, NEW r \in Requests, SubmitRefused(c, r) PROVE AlarmInv'
  BY <1>4, QuietReturn DEF SubmitRefused, Answers
<1>5. ASSUME NEW c \in Clients, BackoffStep(c) PROVE AlarmInv'
  <2>1. CASE CountFailures(c)
    <3>1. PICK l \in {Verification(c), "sleep", "decide"} : Goto(c, l)
      BY <2>1 DEF CountFailures
    <3> QED BY <2>1, <3>1, GotoKeepsFound DEF CountFailures, Verification, Labels
  <2>2. CASE CooldownOver(c) \/ Wake(c)
    BY <2>2, GotoKeepsFound DEF CooldownOver, Wake, Verification, Labels, locals
  <2>3. CASE RateLimited(c)
    BY <2>3, QuietReturn DEF RateLimited, Answers
  <2> QED BY <1>5, <2>1, <2>2, <2>3 DEF BackoffStep
<1>6. ASSUME NEW c \in Clients, TotpStep(c) PROVE AlarmInv'
  <2>1. CASE MatchToken(c)
    BY <2>1, GotoKeepsFound DEF MatchToken, Labels
  <2>2. CASE DecryptFails(c) \/ CommitRevoked(c) \/ CommitReplay(c)
    BY <2>2, QuietReturn DEF DecryptFails, CommitRevoked, CommitReplay, Answers
  <2> QED BY <1>6, <2>1, <2>2, RecordStep DEF TotpStep
<1>7. ASSUME NEW c \in Clients, RecoveryStep(c) PROVE AlarmInv'
  <2>1. CASE FingerprintFresh(c)
    BY <2>1, GotoKeepsFound DEF FingerprintFresh, Labels, locals
  <2>2. CASE FingerprintSeen(c) \/ ConsumeLost(c)
    BY <2>2, QuietReturn DEF FingerprintSeen, ConsumeLost, Answers
  <2>3. CASE ReadCodes(c)
    <3>1. Held(c) \in BOOLEAN
      BY DEF Held
    <3>2. AnswersShape'
      BY <2>3, <3>1 DEF ReadCodes, Goto, AlarmInv, AnswersShape
    <3>3. TablesFromHistory'
      BY <2>3, HistoryKept DEF ReadCodes, tables
    <3>4. FoundThenUsed'
      <4> SUFFICES ASSUME NEW d \in Clients, pc'[d] = "consume", found'[d]
                   PROVE  (Held(d) \/ Presented(d))'
        BY DEF FoundThenUsed
      <4>1. CASE d = c
        BY <2>3, <4>1 DEF ReadCodes, AlarmInv, AnswersShape, Held, tables
      <4>2. CASE d # c
        BY <2>3, <4>2 DEF ReadCodes, Goto, IInv, Shape, AlarmInv, AnswersShape, FoundThenUsed,
                          Held, Presented, tables
      <4> QED BY <4>1, <4>2
    <3> QED BY <3>2, <3>3, <3>4 DEF AlarmInv
  <2> QED BY <1>7, <2>1, <2>2, <2>3, RecordStep DEF RecoveryStep
<1>8. ASSUME NEW c \in Clients, Abort(c) PROVE AlarmInv'
  BY <1>8, QuietReturn DEF Abort, Answers
<1>9. ASSUME NEW u \in Users, Revoke(u) PROVE AlarmInv'
  BY <1>9 DEF Revoke, locals, AlarmInv, AnswersShape, TablesFromHistory, Logins, FoundThenUsed,
              Held, Presented
<1>10. ASSUME NEW t \in 0 .. now, Purge(t) PROVE AlarmInv'
  <2>1. TablesFromHistory'
    BY <1>10, HistoryKept DEF Purge
  <2>2. AnswersShape' /\ FoundThenUsed'
    BY <1>10 DEF Purge, locals, AlarmInv, AnswersShape, FoundThenUsed, Held, Presented
  <2> QED BY <2>1, <2>2 DEF AlarmInv
<1> QED
  BY <1>2, <1>3, <1>4, <1>5, <1>6, <1>7, <1>8, <1>9, <1>10 DEF Next

LEMMA AlarmInit == Init => AlarmInv
<1> SUFFICES ASSUME Init PROVE AlarmInv
  OBVIOUS
<1>1. found \in [Clients -> BOOLEAN]
  BY DEF Init
<1>2. answer \in [Clients -> Answers]
  BY DEF Init, Answers
<1>3. TablesFromHistory
  BY DEF Init, TablesFromHistory
<1>4. FoundThenUsed
  BY DEF Init, FoundThenUsed
<1> QED BY <1>1, <1>2, <1>3, <1>4 DEF AlarmInv, AnswersShape

(* Only three steps end a request with an alarm.                           *)
LEMMA WhoRaisesAlarms ==
  ASSUME IInv, AlarmInv, [Next]_vars, NEW c \in Clients, pc[c] # "idle", pc'[c] = "idle",
         answer'[c] = "REPLAY_ATTACK"
  PROVE  CommitReplay(c) \/ FingerprintSeen(c) \/ ConsumeLost(c)
<1>1. ASSUME NEW d \in Clients, NEW e \in Answers, Return(d, e) PROVE d = c /\ e = "REPLAY_ATTACK"
  BY <1>1 DEF Return, IInv, Shape, AlarmInv, AnswersShape
<1>2. ASSUME NEW d \in Clients, NEW l \in Labels \ {"idle"}, Goto(d, l) PROVE FALSE
  BY <1>2 DEF Goto, IInv, Shape
<1>3. pc' # pc
  OBVIOUS
<1>4. ~(Tick \/ UNCHANGED vars \/ (\E u \in Users : Revoke(u)) \/ (\E t \in 0 .. now : Purge(t)))
  BY <1>3 DEF Tick, vars, Revoke, Purge
<1>5. ASSUME NEW d \in Clients, NEW r \in Requests PROVE ~Submit(d, r) /\ ~SubmitRefused(d, r)
  <2>1. ~Submit(d, r)
    BY DEF Submit, IInv, Shape
  <2>2. ~SubmitRefused(d, r)
    BY <1>1 DEF SubmitRefused, Answers
  <2> QED BY <2>1, <2>2
<1>6. ASSUME NEW d \in Clients PROVE ~BackoffStep(d)
  <2>1. ~CountFailures(d)
    <3> SUFFICES ASSUME CountFailures(d) PROVE FALSE
      OBVIOUS
    <3>1. PICK l \in {Verification(d), "sleep", "decide"} : Goto(d, l)
      BY DEF CountFailures
    <3> QED BY <1>2, <3>1 DEF Verification, Labels
  <2>2. ~CooldownOver(d) /\ ~Wake(d)
    BY <1>2 DEF CooldownOver, Wake, Verification, Labels
  <2>3. ~RateLimited(d)
    BY <1>1 DEF RateLimited, Answers
  <2> QED BY <2>1, <2>2, <2>3 DEF BackoffStep
<1>7. ASSUME NEW d \in Clients, TotpStep(d) PROVE CommitReplay(c)
  <2>1. ~MatchToken(d)
    BY <1>2 DEF MatchToken, Labels
  <2>2. ~DecryptFails(d) /\ ~CommitRevoked(d) /\ ~CommitSuccess(d) /\ ~CommitFailure(d)
    BY <1>1 DEF DecryptFails, CommitRevoked, CommitSuccess, CommitFailure, Answers
  <2>3. CommitReplay(d)
    BY <1>7, <2>1, <2>2 DEF TotpStep
  <2>4. d = c
    BY <1>1, <2>3 DEF CommitReplay, Answers
  <2> QED BY <2>3, <2>4
<1>8. ASSUME NEW d \in Clients, RecoveryStep(d) PROVE FingerprintSeen(c) \/ ConsumeLost(c)
  <2>1. ~FingerprintFresh(d) /\ ~ReadCodes(d)
    BY <1>2 DEF FingerprintFresh, ReadCodes, Labels
  <2>2. ~ConsumeSuccess(d) /\ ~ConsumeFailure(d)
    BY <1>1 DEF ConsumeSuccess, ConsumeFailure, Answers
  <2>3. FingerprintSeen(d) \/ ConsumeLost(d)
    BY <1>8, <2>1, <2>2 DEF RecoveryStep
  <2>4. d = c
    BY <1>1, <2>3 DEF FingerprintSeen, ConsumeLost, Answers
  <2> QED BY <2>3, <2>4
<1>9. ASSUME NEW d \in Clients PROVE ~Abort(d)
  BY <1>1 DEF Abort, Answers
<1> QED BY <1>4, <1>5, <1>6, <1>7, <1>8, <1>9 DEF Next

(* No honest first use raises a CRITICAL alert (auth/core.py): what a      *)
(* request is called a replay of is on record.                             *)
THEOREM ReplayAlarmsAreTrue == Spec => NoFalseReplayAlarm
<1> DEFINE Raises(c) == ~Idle(c) /\ pc'[c] = "idle" /\ answer'[c] = "REPLAY_ATTACK"
           True(c) == \/ \E a \in recorded : a.fp = Fingerprint(request[c])
                      \/ \E a \in Logins : a.user = request[c].user /\ a.step = step[c]
<1>1. ASSUME IInv, AlarmInv, [Next]_vars, NEW c \in Clients, Raises(c) PROVE True(c)
  <2>1. CommitReplay(c) \/ FingerprintSeen(c) \/ ConsumeLost(c)
    BY <1>1, WhoRaisesAlarms DEF Idle
  <2>2. CASE CommitReplay(c)
    <3>1. LegacyUse(c) \/ Consumed(request[c].user, step[c])
      BY <2>2 DEF CommitReplay, Replayed
    <3>2. CASE LegacyUse(c)
      BY <1>1, <3>2 DEF LegacyUse, AlarmInv, TablesFromHistory
    <3>3. CASE Consumed(request[c].user, step[c])
      BY <1>1, <3>3 DEF Consumed, AlarmInv, TablesFromHistory
    <3> QED BY <3>1, <3>2, <3>3
  <2>3. CASE FingerprintSeen(c)
    BY <1>1, <2>3 DEF FingerprintSeen, RecentlyPresented, AlarmInv, TablesFromHistory
  <2>4. CASE ConsumeLost(c)
    BY <1>1, <2>4 DEF ConsumeLost, AlarmInv, FoundThenUsed, Presented
  <2> QED BY <2>1, <2>2, <2>3, <2>4
<1>2. IInv /\ AlarmInv /\ [Next]_vars => [\A c \in Clients : Raises(c) => True(c)]_vars
  BY <1>1
<1>3. Spec => []AlarmInv
  BY AlarmInit, AlarmStep, InvariantHolds, PTL DEF Spec
<1> QED BY <1>2, <1>3, InvariantHolds, PTL DEF Spec, NoFalseReplayAlarm

-----------------------------------------------------------------------------
(* A third invariant, of the whole history of attempts: what the backoff   *)
(* and the checks of a request have seen of it.                            *)

Cooldown == Delay(1)
Fails == {a \in recorded : ~a.success}
FailsOf(u) == {a \in Fails : a.user = u}
BurstOf(u, t) == {a \in FailsOf(u) : t <= a.ts /\ a.ts < t + Cooldown}
(* The requests that may still fail in the cooldown from t on.             *)
Verifying == {"totp", "commit", "fingerprint", "codes", "consume"}
Armed(u, t) ==
  {c \in Clients :
     /\ pc[c] # "idle" /\ request[c].user = u
     /\ pc[c] \in Verifying \/ (pc[c] = "sleep" /\ due[c] < t + Cooldown)}

(* Every attempt is one, and what retention removed is old.                *)
AttemptsShape ==
  /\ recovery_codes \subseteq Users \X RecoveryCodes
  /\ recorded \subseteq Attempts /\ IsFiniteSet(recorded)
  /\ \A a \in recorded : a \in auth_attempts \/ a.ts < now - Retention
  /\ \A a \in Fails : a.ts <= now

CodesUsed ==
  \A i \in Issued \ recovery_codes :
    \E a \in Logins : a.fp = <<"recovery", i[1], i[2]>>
LegacyApart ==
  \A a, b \in Logins :
    a.id < b.id /\ a.step = NoStep /\ a.fp[1] = "totp" /\ a.fp = b.fp =>
      b.ts >= a.ts + ReplayWindow

Recollected == AttemptsShape /\ CodesUsed /\ LegacyApart

(* Who is to decide after a failure remembers at least its cooldown.       *)
Delayed ==
  /\ request \in [Clients -> Requests]
  /\ backoff \in [Clients -> 0 .. MaxDelay] /\ due \in [Clients -> Nat]
  /\ \A c \in Clients :
       pc[c] = "decide" => backoff[c] >= Cooldown /\ FailsOf(request[c].user) # {}

(* From any failure on, the failures of its user in the first cooldown and *)
(* the requests that may add to them are no more than the clients.         *)
BurstsFit ==
  \A a \in Fails :
    LET burst == Cardinality(BurstOf(a.user, a.ts))
    IN  /\ burst <= Cardinality(Clients)
        /\ now < a.ts + Cooldown =>
             burst + Cardinality(Armed(a.user, a.ts)) <= Cardinality(Clients)

History == Recollected /\ Delayed /\ BurstsFit
Inv == IInv /\ AlarmInv /\ History

-----------------------------------------------------------------------------
(* The backoff.                                                            *)

LEMMA CountOfPair ==
  ASSUME NEW a, NEW b, a # b
  PROVE  Cardinality({a, b}) = 2
<1>1. IsFiniteSet({a}) /\ Cardinality({a}) = 1
  BY FS_Singleton
<1>2. Cardinality({a} \cup {b}) = 2
  BY <1>1, FS_AddElement
<1>3. {a, b} = {a} \cup {b}
  OBVIOUS
<1> QED BY <1>2, <1>3

(* The subsets of 1 .. n are 2^n: two if n is one, no fewer if it is more. *)
LEMMA PowersOfTwo ==
  /\ 2^1 = 2
  /\ \A n \in Nat : 2^n \in Nat /\ (n > 0 => 2^n >= 2)
<1> DEFINE P == {{}, {1}}
<1>1. Cardinality(P) = 2
  <2>1. {} # {1}
    OBVIOUS
  <2> QED BY <2>1, CountOfPair
<1>2. 2^1 = 2
  <2> DEFINE S == SUBSET {1}
  <2>1. IsFiniteSet({1}) /\ Cardinality({1}) = 1
    BY FS_Singleton
  <2>2. Cardinality(S) = 2^1
    BY <2>1, FS_SUBSET
  <2>3. S = P
    OBVIOUS
  <2> QED BY <1>1, <2>2, <2>3
<1>3. ASSUME NEW n \in Nat PROVE 2^n \in Nat /\ (n > 0 => 2^n >= 2)
  <2> DEFINE S == SUBSET (1 .. n)
  <2>1. IsFiniteSet(1 .. n) /\ Cardinality(1 .. n) = n
    BY FS_Interval
  <2>2. IsFiniteSet(S) /\ Cardinality(S) = 2^n
    BY <2>1, FS_SUBSET
  <2>3. 2^n \in Nat
    BY <2>2, FS_CardinalityType
  <2>4. ASSUME n > 0 PROVE 2^n >= 2
    <3>1. P \in SUBSET S
      BY <2>4
    <3>2. Cardinality(P) <= Cardinality(S)
      BY <2>2, <3>1, FS_Subset
    <3> QED BY <1>1, <2>2, <3>2
  <2> QED BY <2>3, <2>4
<1> QED BY <1>2, <1>3

LEMMA DelayBounds ==
  /\ Cooldown \in 1 .. MaxDelay
  /\ \A n \in Nat : /\ Delay(n) \in 0 .. MaxDelay
                    /\ n > 0 => Delay(n) >= Cooldown
                    /\ n = 0 => Delay(n) = 0
<1>1. ASSUME NEW p \in Nat, p >= 2
      PROVE  BaseDelay * p \in Nat /\ BaseDelay * p >= BaseDelay * 2 /\ BaseDelay * 2 >= 1
  <2>1. PICK q \in Nat : p = q + 2
    BY <1>1
  <2>2. BaseDelay * q \in Nat
    OBVIOUS
  <2>3. BaseDelay * p = BaseDelay * q + BaseDelay * 2
    BY <2>1
  <2> QED BY <2>2, <2>3
<1>2. 2^1 = 2
  BY PowersOfTwo
<1> DEFINE Base == BaseDelay * 2
<1>3. Cooldown = LesserOf(Base, MaxDelay)
  BY <1>2 DEF Cooldown, Delay
<1>4. Base \in Nat /\ Base >= 1
  OBVIOUS
<1>5. Cooldown \in 1 .. MaxDelay
  BY <1>3, <1>4 DEF LesserOf
<1>6. ASSUME NEW n \in Nat, n > 0
      PROVE  Delay(n) \in 0 .. MaxDelay /\ Delay(n) >= Cooldown
  <2> DEFINE p == BaseDelay * 2^n
  <2>1. p \in Nat /\ p >= Base
    BY <1>1, <1>6, PowersOfTwo
  <2>2. Delay(n) = LesserOf(p, MaxDelay)
    BY <1>6 DEF Delay
  <2> HIDE DEF p, Base
  <2> QED BY <1>3, <1>4, <2>1, <2>2 DEF LesserOf
<1>7. Delay(0) = 0
  BY DEF Delay
<1> QED BY <1>5, <1>6, <1>7

(* The latest of a user's failures that retention has left.                *)
LEMMA LastFailureIsLast ==
  ASSUME NEW u, Failures(u) # {}, \A a \in Failures(u) : a.ts \in Times
  PROVE  /\ \E a \in Failures(u) : LastFailure(u) = a.ts
         /\ \A a \in Failures(u) : a.ts <= LastFailure(u)
<1> DEFINE S == {a.ts : a \in Failures(u)}
           T == {MaxTime - t : t \in S}
           Less == {ss \in Nat \X Nat : ss[1] < ss[2]}
<1>1. Less = OpToRel(<, Nat)
  BY Zenon DEF OpToRel
<1>2. T \in SUBSET Nat /\ T # {} /\ S \subseteq Times
  OBVIOUS
<1>3. PICK x \in T : \A y \in T : ~(<<y, x>> \in OpToRel(<, Nat))
  BY <1>2, WFMin, NatLessThanWellFounded
<1>4. PICK t \in S : x = MaxTime - t
  OBVIOUS
<1>5. ASSUME NEW v \in S PROVE v <= t
  <2>1. MaxTime - v \in T /\ MaxTime - v \in Nat /\ x \in Nat
    BY <1>2
  <2>2. ~(<<MaxTime - v, x>> \in Less)
    BY <1>1, <1>3, <2>1
  <2>3. ~(MaxTime - v < x)
    BY <2>1, <2>2
  <2> QED BY <1>2, <1>4, <2>3
<1>6. LastFailure(u) = CHOOSE s \in S : \A a \in Failures(u) : a.ts <= s
  BY DEF LastFailure
<1>7. LastFailure(u) \in S /\ \A a \in Failures(u) : a.ts <= LastFailure(u)
  <2>1. \A a \in Failures(u) : a.ts <= t
    BY <1>5
  <2> HIDE DEF S
  <2> QED BY <1>4, <1>6, <2>1
<1> QED BY <1>7

(* A failure younger than the window is counted, and held against the user. *)
LEMMA FailureHeld ==
  ASSUME Inv, NEW a \in Fails, now < a.ts + Cooldown
  PROVE  /\ FailureCount(a.user) \in Nat \ {0}
         /\ LastFailure(a.user) \in Times /\ a.ts <= LastFailure(a.user)
         /\ a.ts \in Times
<1>1. now \in Times /\ a.ts \in Times
  BY DEF Inv, IInv, Shape, History, Recollected, AttemptsShape, Attempts, Fails
<1>2. a.ts > now - Window /\ ~(a.ts < now - Retention)
  BY <1>1, DelayBounds, TimingAssumption
<1>3. a \in Failures(a.user)
  BY <1>2 DEF Inv, History, Recollected, AttemptsShape, Fails, Failures
<1> DEFINE S == {b \in Failures(a.user) : b.ts > now - Window}
<1>4. IsFiniteSet(S)
  <2>1. S \subseteq recorded
    BY DEF Failures, Inv, AlarmInv, TablesFromHistory
  <2>2. IsFiniteSet(recorded)
    BY DEF Inv, History, Recollected, AttemptsShape
  <2> QED BY <2>1, <2>2, FS_Subset
<1>5. a \in S
  BY <1>2, <1>3
<1>6. Cardinality(S) \in Nat \ {0}
  BY <1>4, <1>5, FS_CardinalityType, FS_EmptySet
<1>7. \A b \in Failures(a.user) : b.ts \in Times
  BY DEF Failures, Inv, AlarmInv, TablesFromHistory, History, Recollected, AttemptsShape, Attempts
<1>8. LastFailure(a.user) \in Times /\ a.ts <= LastFailure(a.user)
  BY <1>3, <1>7, LastFailureIsLast
<1> QED BY <1>1, <1>6, <1>8 DEF FailureCount

LEMMA CountsAreNatural ==
  ASSUME Inv, NEW u
  PROVE  /\ FailureCount(u) \in Nat
         /\ FailureCount(u) # 0 => FailsOf(u) # {}
<1> DEFINE S == {b \in Failures(u) : b.ts > now - Window}
<1>1. S \subseteq FailsOf(u) /\ S \subseteq recorded
  BY DEF Failures, Inv, AlarmInv, TablesFromHistory, FailsOf, Fails
<1>2. IsFiniteSet(S)
  <2>1. IsFiniteSet(recorded)
    BY DEF Inv, History, Recollected, AttemptsShape
  <2> QED BY <1>1, <2>1, FS_Subset
<1>3. Cardinality(S) \in Nat /\ (Cardinality(S) = 0 <=> S = {})
  BY <1>2, FS_CardinalityType, FS_EmptySet
<1> QED BY <1>1, <1>3 DEF FailureCount

-----------------------------------------------------------------------------
(* What a step does to the history.                                        *)

(* Steps that record nothing and take no code.                             *)
LEMMA NothingRecorded ==
  ASSUME Inv, UNCHANGED <<recorded, recovery_codes>>, now <= now', now' \in Times,
         \A a \in auth_attempts : a \in auth_attempts' \/ a.ts < now - Retention
  PROVE  Recollected'
<1>1. now \in Times /\ Fails' = Fails /\ Logins' = Logins
  BY DEF Inv, IInv, Shape, Fails, Logins
<1>2. AttemptsShape'
  <2>1. \A a \in recorded : a.ts \in Times
    BY DEF Inv, History, Recollected, AttemptsShape, Attempts
  <2>2. \A a \in recorded : a \in auth_attempts' \/ a.ts < now' - Retention
    BY <1>1, <2>1 DEF Inv, History, Recollected, AttemptsShape
  <2>3. \A a \in Fails : a.ts <= now'
    BY <1>1, <2>1 DEF Inv, History, Recollected, AttemptsShape, Fails
  <2> QED BY <1>1, <2>2, <2>3 DEF Inv, History, Recollected, AttemptsShape
<1> QED BY <1>1, <1>2 DEF Inv, History, Recollected, CodesUsed, LegacyApart

(* An attempt is recorded whole, after all the others.                     *)
LEMMA NewAttempt ==
  ASSUME Inv, NEW c \in Clients, request[c] \in Requests,
         NEW b \in BOOLEAN, NEW s \in Steps \cup {NoStep}, Record(c, b, s)
  PROVE  \E row \in Attempts :
           /\ recorded' = recorded \cup {row} /\ auth_attempts' = auth_attempts \cup {row}
           /\ row.user = request[c].user /\ row.ts = now /\ row.success = b
           /\ row.fp = Fingerprint(request[c]) /\ row.step = s
<1> DEFINE n == Cardinality(recorded)
           row == [id |-> n + 1, user |-> request[c].user, ts |-> now,
                   success |-> b, fp |-> Fingerprint(request[c]), step |-> s]
<1>1. n \in Nat /\ n < MaxAttempts
  BY FS_CardinalityType DEF Record, Inv, History, Recollected, AttemptsShape
<1>2. recorded' = recorded \cup {row} /\ auth_attempts' = auth_attempts \cup {row}
  BY DEF Record
<1>3. now \in Times /\ request[c].user \in Users
  BY KindsOfRequests DEF Inv, IInv, Shape
<1> HIDE DEF n
<1>4. n + 1 \in 1 .. MaxAttempts
  BY <1>1
<1>5. row \in Attempts
  <2>1. Fingerprint(request[c]) \in {Fingerprint(r) : r \in Requests}
    OBVIOUS
  <2> HIDE DEF Fingerprint
  <2> QED BY <1>3, <1>4, <2>1 DEF Attempts
<1> QED BY <1>2, <1>5

(* What is recorded keeps its shape.                                       *)
LEMMA RowKeepsShape ==
  ASSUME Inv, NEW row \in Attempts, now' = now, row.ts = now,
         recorded' = recorded \cup {row}, auth_attempts' = auth_attempts \cup {row},
         recovery_codes' \subseteq recovery_codes
  PROVE  AttemptsShape'
<1>1. now \in Times
  BY DEF Inv, IInv, Shape
<1>2. IsFiniteSet(recorded')
  BY FS_AddElement DEF Inv, History, Recollected, AttemptsShape
<1>3. \A a \in recorded' : a \in auth_attempts' \/ a.ts < now' - Retention
  BY DEF Inv, History, Recollected, AttemptsShape
<1>4. \A a \in Fails' : a.ts <= now'
  BY <1>1 DEF Inv, History, Recollected, AttemptsShape, Fails
<1> QED BY <1>2, <1>3, <1>4 DEF Inv, History, Recollected, AttemptsShape

(* The requests that record.                                               *)
LEMMA FailureRecorded ==
  ASSUME Inv, NEW c \in Clients, CommitFailure(c) \/ ConsumeFailure(c)
  PROVE  /\ Recollected'
         /\ \E row : /\ recorded' = recorded \cup {row} /\ ~row.success
                     /\ row.user = request[c].user /\ row.ts = now
<1>1. /\ Record(c, FALSE, NoStep) /\ pc[c] # "idle"
      /\ UNCHANGED <<now, recovery_codes>>
  BY DEF CommitFailure, ConsumeFailure
<1>2. request[c] \in Requests
  BY <1>1 DEF Inv, IInv, RequestsRouted
<1>3. PICK row \in Attempts :
        /\ recorded' = recorded \cup {row} /\ auth_attempts' = auth_attempts \cup {row}
        /\ row.user = request[c].user /\ row.ts = now /\ row.success = FALSE
  <2> DEFINE b == FALSE
             s == NoStep
  <2>1. Record(c, b, s) /\ b \in BOOLEAN /\ s \in Steps \cup {NoStep}
    BY <1>1
  <2> HIDE DEF b, s
  <2>2. PICK row \in Attempts :
          /\ recorded' = recorded \cup {row} /\ auth_attempts' = auth_attempts \cup {row}
          /\ row.user = request[c].user /\ row.ts = now /\ row.success = b
    BY <1>2, <2>1, NewAttempt
  <2> QED BY <2>2 DEF b
<1>4. AttemptsShape'
  BY <1>1, <1>3, RowKeepsShape
<1>5. Logins' = Logins
  BY <1>3 DEF Logins
<1>6. CodesUsed' /\ LegacyApart'
  BY <1>1, <1>5 DEF Inv, History, Recollected, CodesUsed, LegacyApart
<1> QED BY <1>3, <1>4, <1>6 DEF Recollected

LEMMA TokenRecorded ==
  ASSUME Inv, NEW c \in Clients, CommitSuccess(c)
  PROVE  Recollected' /\ Fails' = Fails
<1> DEFINE s == step[c]
<1>1. /\ Record(c, TRUE, s) /\ pc[c] = "commit" /\ s # NoStep /\ ~LegacyUse(c)
      /\ UNCHANGED <<now, recovery_codes>>
  BY DEF CommitSuccess, Replayed
<1>2. request[c] \in Requests /\ s \in Steps \cup {NoStep}
  BY <1>1 DEF Inv, IInv, RequestsRouted, Shape
<1>3. PICK row \in Attempts :
        /\ recorded' = recorded \cup {row} /\ auth_attempts' = auth_attempts \cup {row}
        /\ row.user = request[c].user /\ row.ts = now /\ row.success = TRUE
        /\ row.fp = Fingerprint(request[c]) /\ row.step = s
  <2> HIDE DEF s
  <2> QED BY <1>1, <1>2, NewAttempt
<1> HIDE DEF s
<1>4. AttemptsShape'
  BY <1>1, <1>3, RowKeepsShape
<1>5. Logins' = Logins \cup {row} /\ Fails' = Fails
  BY <1>3 DEF Logins, Fails
<1>6. CodesUsed'
  BY <1>1, <1>5 DEF Inv, History, Recollected, CodesUsed
<1>7. ASSUME NEW a \in Logins, a.step = NoStep, a.fp = row.fp PROVE now >= a.ts + ReplayWindow
  <2>1. now \in Times /\ a \in recorded /\ a.ts \in Times
    BY DEF Inv, IInv, Shape, History, Recollected, AttemptsShape, Attempts, Logins
  <2>2. a \in auth_attempts \/ a.ts < now - Retention
    BY <2>1 DEF Inv, History, Recollected, AttemptsShape
  <2>3. a \in auth_attempts => ~(a.ts > now - ReplayWindow)
    BY <1>1, <1>3, <1>7 DEF LegacyUse, Logins
  <2> QED BY <2>1, <2>2, <2>3, TimingAssumption
<1>8. LegacyApart'
  <2> SUFFICES ASSUME NEW a \in Logins', NEW b \in Logins', a.id < b.id, a.step = NoStep,
                      a.fp[1] = "totp", a.fp = b.fp
               PROVE  b.ts >= a.ts + ReplayWindow
    BY DEF LegacyApart
  <2>1. a \in Logins
    BY <1>1, <1>3, <1>5
  <2>2. CASE b = row
    BY <1>3, <1>7, <2>1, <2>2
  <2>3. CASE b \in Logins
    BY <2>1, <2>3 DEF Inv, History, Recollected, LegacyApart
  <2> QED BY <1>5, <2>2, <2>3
<1> QED BY <1>4, <1>5, <1>6, <1>8 DEF Recollected

LEMMA CodeRecorded ==
  ASSUME Inv, NEW c \in Clients, ConsumeSuccess(c)
  PROVE  Recollected' /\ Fails' = Fails
<1> DEFINE u == request[c].user
           r == request[c].secret
<1>1. /\ Record(c, TRUE, NoStep) /\ pc[c] = "consume" /\ UNCHANGED now
      /\ recovery_codes' = recovery_codes \ {<<u, r>>}
  BY DEF ConsumeSuccess
<1>2. request[c] \in Requests /\ request[c].kind = "recovery"
  BY <1>1 DEF Inv, IInv, RequestsRouted
<1>3. PICK row \in Attempts :
        /\ recorded' = recorded \cup {row} /\ auth_attempts' = auth_attempts \cup {row}
        /\ row.user = request[c].user /\ row.ts = now /\ row.success = TRUE
        /\ row.fp = Fingerprint(request[c])
  BY <1>1, <1>2, NewAttempt
<1>4. AttemptsShape'
  BY <1>1, <1>3, RowKeepsShape
<1>5. Logins' = Logins \cup {row} /\ Fails' = Fails
  BY <1>3 DEF Logins, Fails
<1>6. row.fp = <<"recovery", u, r>>
  BY <1>2, <1>3 DEF Fingerprint
<1> HIDE DEF u, r
<1>7. CodesUsed'
  <2> SUFFICES ASSUME NEW i \in Issued, i \notin recovery_codes'
               PROVE  \E a \in Logins' : a.fp = <<"recovery", i[1], i[2]>>
    BY DEF CodesUsed
  <2>1. CASE i \in recovery_codes
    <3>1. i = <<u, r>>
      BY <1>1, <2>1
    <3> QED BY <1>5, <1>6, <3>1
  <2>2. CASE i \notin recovery_codes
    BY <1>5, <2>2 DEF Inv, History, Recollected, CodesUsed
  <2> QED BY <2>1, <2>2
<1>8. LegacyApart'
  <2>1. row.fp[1] # "totp"
    BY <1>6
  <2>2. ASSUME NEW a \in Logins', NEW b \in Logins', a.id < b.id, a.step = NoStep,
               a.fp[1] = "totp", a.fp = b.fp
        PROVE  b.ts >= a.ts + ReplayWindow
    BY <1>5, <2>1, <2>2 DEF Inv, History, Recollected, LegacyApart
  <2> QED BY <2>2 DEF LegacyApart
<1> QED BY <1>4, <1>5, <1>7, <1>8 DEF Recollected

-----------------------------------------------------------------------------
(* What a step does to the delays.                                         *)

LEMMA NoRequestIsOne == NoRequest \in Requests
<1>1. PICK u \in Users, t \in Tokens : TRUE
  BY EnrolledAssumption
<1>2. [user |-> u, kind |-> "totp", secret |-> t] \in Requests
  BY DEF Requests
<1> QED BY <1>2 DEF NoRequest

LEMMA ReturnKeepsDelays ==
  ASSUME Inv, NEW c \in Clients, NEW e, Return(c, e), Fails \subseteq Fails'
  PROVE  Delayed'
<1>1. /\ request' \in [Clients -> Requests]
      /\ backoff' \in [Clients -> 0 .. MaxDelay] /\ due' \in [Clients -> Nat]
  BY NoRequestIsOne DEF Return, Inv, History, Delayed
<1>2. ASSUME NEW d \in Clients, pc'[d] = "decide"
      PROVE  backoff'[d] >= Cooldown
  <2>1. d # c /\ pc[d] = "decide" /\ backoff'[d] = backoff[d]
    BY <1>2 DEF Return, Inv, IInv, Shape, History, Delayed
  <2> QED BY <2>1 DEF Inv, History, Delayed
<1>3. ASSUME NEW d \in Clients, pc'[d] = "decide"
      PROVE  FailsOf(request[d].user)' # {}
  <2>1. d # c /\ pc[d] = "decide" /\ request'[d] = request[d]
    BY <1>3 DEF Return, Inv, IInv, Shape, History, Delayed
  <2> QED BY <2>1 DEF Inv, History, Delayed, FailsOf
<1> QED BY <1>1, <1>2, <1>3 DEF Delayed

LEMMA GotoKeepsDelays ==
  ASSUME Inv, NEW c \in Clients, NEW l \in Labels \ {"decide"}, Goto(c, l),
         UNCHANGED <<recorded, request, backoff, due>>
  PROVE  Delayed'
<1>1. Fails' = Fails
  BY DEF Fails
<1>2. \A d \in Clients : pc'[d] = "decide" => pc[d] = "decide"
  BY DEF Goto, Inv, IInv, Shape
<1> QED BY <1>1, <1>2 DEF Inv, History, Delayed, FailsOf

LEMMA CountingDelays ==
  ASSUME Inv, NEW c \in Clients, CountFailures(c)
  PROVE  /\ Delayed'
         /\ LET delay == Delay(FailureCount(request[c].user))
            IN  /\ delay \in 0 .. MaxDelay
                /\ pc' = [pc EXCEPT ![c] = IF delay = 0 THEN Verification(c)
                                           ELSE IF Mode[c] = "sleep" THEN "sleep" ELSE "decide"]
                /\ due' = [due EXCEPT ![c] = IF Mode[c] = "sleep" THEN now + delay ELSE 0]
                /\ UNCHANGED <<now, tables, request>>
<1> DEFINE u == request[c].user
           delay == Delay(FailureCount(u))
<1>1. FailureCount(u) \in Nat /\ (FailureCount(u) # 0 => FailsOf(u) # {})
  BY CountsAreNatural
<1>2. /\ delay \in 0 .. MaxDelay /\ delay \in Nat
      /\ delay # 0 => delay >= Cooldown /\ FailsOf(u) # {}
  <2>1. \A n \in Nat : Delay(n) \in 0 .. MaxDelay /\ (n > 0 => Delay(n) >= Cooldown)
                       /\ (n = 0 => Delay(n) = 0)
    BY DelayBounds
  <2> QED BY <1>1, <2>1
<1>3. /\ pc' = [pc EXCEPT ![c] = IF delay = 0 THEN Verification(c)
                                 ELSE IF Mode[c] = "sleep" THEN "sleep" ELSE "decide"]
      /\ backoff' = [backoff EXCEPT ![c] = delay]
      /\ due' = [due EXCEPT ![c] = IF Mode[c] = "sleep" THEN now + delay ELSE 0]
      /\ UNCHANGED <<now, tables, request>>
  BY DEF CountFailures, Goto
<1> HIDE DEF u, delay
<1>4. now \in Nat /\ Fails' = Fails
  BY <1>3 DEF Inv, IInv, Shape, Fails, tables
<1>5. /\ request' \in [Clients -> Requests]
      /\ backoff' \in [Clients -> 0 .. MaxDelay] /\ due' \in [Clients -> Nat]
  BY <1>2, <1>3, <1>4 DEF Inv, History, Delayed
<1>6. ASSUME NEW d \in Clients, pc'[d] = "decide"
      PROVE  backoff'[d] >= Cooldown /\ FailsOf(request[d].user) # {}
  <2>1. CASE d = c
    <3>1. delay # 0
      BY <1>3, <1>6, <2>1 DEF Inv, IInv, Shape, Verification
    <3> QED BY <1>2, <1>3, <2>1, <3>1 DEF Inv, History, Delayed, u
  <2>2. CASE d # c
    BY <1>3, <1>6, <2>2 DEF Inv, IInv, Shape, History, Delayed
  <2> QED BY <2>1, <2>2
<1>7. Delayed'
  BY <1>3, <1>4, <1>5, <1>6 DEF Delayed, FailsOf
<1> QED BY <1>2, <1>3, <1>7 DEF u, delay

-----------------------------------------------------------------------------
(* What a step does to the bursts.                                         *)

LEMMA BurstsAreFinite ==
  ASSUME Inv, NEW u, NEW t
  PROVE  /\ IsFiniteSet(BurstOf(u, t)) /\ Cardinality(BurstOf(u, t)) \in Nat
         /\ IsFiniteSet(Armed(u, t)) /\ Cardinality(Armed(u, t)) \in Nat
         /\ Cardinality(Clients) \in Nat
<1>1. IsFiniteSet(recorded) /\ BurstOf(u, t) \subseteq recorded
  BY DEF Inv, History, Recollected, AttemptsShape, BurstOf, FailsOf, Fails
<1>2. Armed(u, t) \subseteq Clients /\ IsFiniteSet(Clients)
  BY EnrolledAssumption DEF Armed
<1>3. IsFiniteSet(BurstOf(u, t)) /\ IsFiniteSet(Armed(u, t))
  BY <1>1, <1>2, FS_Subset
<1> QED BY <1>2, <1>3, FS_CardinalityType

(* Steps that record no failure, and arm nobody in a cooldown.             *)
LEMMA NoFailureAdded ==
  ASSUME Inv, Fails' = Fails, now <= now', now' \in Times,
         \A a \in Fails :
           now' < a.ts + Cooldown => Armed(a.user, a.ts)' \subseteq Armed(a.user, a.ts)
  PROVE  BurstsFit'
<1> SUFFICES ASSUME NEW a \in Fails
             PROVE  /\ Cardinality(BurstOf(a.user, a.ts)') <= Cardinality(Clients)
                    /\ now' < a.ts + Cooldown =>
                         Cardinality(BurstOf(a.user, a.ts)')
                           + Cardinality(Armed(a.user, a.ts)') <= Cardinality(Clients)
  BY DEF BurstsFit
<1> DEFINE B == BurstOf(a.user, a.ts)
           A == Armed(a.user, a.ts)
<1>1. B' = B
  BY DEF BurstOf, FailsOf
<1>2. Cardinality(B) <= Cardinality(Clients)
  BY DEF Inv, History, BurstsFit
<1>3. ASSUME now' < a.ts + Cooldown
      PROVE  Cardinality(B) + Cardinality(A') <= Cardinality(Clients)
  <2>1. now \in Times /\ a.ts \in Times /\ Cooldown \in Nat
    BY DelayBounds DEF Inv, IInv, Shape, History, Recollected, AttemptsShape, Attempts, Fails
  <2>2. now < a.ts + Cooldown
    BY <1>3, <2>1
  <2>3. Cardinality(B) + Cardinality(A) <= Cardinality(Clients)
    BY <2>2 DEF Inv, History, BurstsFit
  <2>4. A' \subseteq A /\ IsFiniteSet(A)
    BY <1>3, BurstsAreFinite
  <2>5. IsFiniteSet(A') /\ Cardinality(A') <= Cardinality(A)
    BY <2>4, FS_Subset
  <2>6. Cardinality(B) \in Nat /\ Cardinality(A) \in Nat /\ Cardinality(A') \in Nat
        /\ Cardinality(Clients) \in Nat
    BY <2>5, BurstsAreFinite, FS_CardinalityType
  <2> HIDE DEF A, B
  <2> QED BY <2>3, <2>5, <2>6
<1> QED BY <1>1, <1>2, <1>3

(* A request that ends is armed no more, and the others as before.         *)
LEMMA ReturnDisarms ==
  ASSUME Inv, NEW c \in Clients, NEW e, Return(c, e), NEW u, NEW t
  PROVE  /\ Armed(u, t)' \subseteq Armed(u, t) /\ c \notin Armed(u, t)'
BY DEF Return, Inv, IInv, Shape, History, Delayed, Armed

(* A request that fails, one of those that might have.                     *)
LEMMA FailureFits ==
  ASSUME Inv, NEW c \in Clients, pc[c] \in Verifying, NEW e, Return(c, e), now' = now,
         NEW row, recorded' = recorded \cup {row}, ~row.success,
         row.user = request[c].user, row.ts = now
  PROVE  BurstsFit'
<1>1. Fails' = Fails \cup {row}
  BY DEF Fails
<1>2. now \in Times /\ Cooldown \in Nat /\ Cooldown > 0
  BY DelayBounds DEF Inv, IInv, Shape
<1>3. \A a \in Fails : a.ts \in Times /\ a.ts <= now
  BY DEF Inv, History, Recollected, AttemptsShape, Attempts, Fails
<1>4. ASSUME NEW a \in Fails
      PROVE  /\ Cardinality(BurstOf(a.user, a.ts)') <= Cardinality(Clients)
             /\ now < a.ts + Cooldown =>
                  Cardinality(BurstOf(a.user, a.ts)')
                    + Cardinality(Armed(a.user, a.ts)') <= Cardinality(Clients)
  <2> DEFINE B == BurstOf(a.user, a.ts)
             A == Armed(a.user, a.ts)
  <2>1. A' \subseteq A /\ c \notin A'
    BY ReturnDisarms
  <2>2. IsFiniteSet(A) /\ IsFiniteSet(B) /\ Cardinality(A) \in Nat /\ Cardinality(B) \in Nat
        /\ Cardinality(Clients) \in Nat
    BY BurstsAreFinite
  <2>3. IsFiniteSet(A') /\ Cardinality(A') <= Cardinality(A) /\ Cardinality(A') \in Nat
    BY <2>1, <2>2, FS_Subset, FS_CardinalityType
  <2>4. /\ Cardinality(B) <= Cardinality(Clients)
        /\ now < a.ts + Cooldown => Cardinality(B) + Cardinality(A) <= Cardinality(Clients)
    BY DEF Inv, History, BurstsFit
  <2>5. CASE a.user = row.user /\ now < a.ts + Cooldown
    <3>1. c \in A
      BY <2>5 DEF Armed, Verifying
    <3>2. Cardinality(A') <= Cardinality(A) - 1
      <4>1. IsFiniteSet(A \ {c}) /\ Cardinality(A \ {c}) = Cardinality(A) - 1
        BY <2>2, <3>1, FS_RemoveElement
      <4>2. A' \subseteq A \ {c}
        BY <2>1
      <4> HIDE DEF A
      <4> DEFINE A1 == A \ {c}
      <4>3. IsFiniteSet(A1) /\ A' \subseteq A1 /\ Cardinality(A1) = Cardinality(A) - 1
        BY <4>1, <4>2
      <4> HIDE DEF A1
      <4> QED BY <4>3, FS_Subset
    <3>3. B' \subseteq B \cup {row}
      BY <1>1 DEF BurstOf, FailsOf
    <3>4. Cardinality(B') <= Cardinality(B) + 1 /\ Cardinality(B') \in Nat
      <4>1. /\ IsFiniteSet(B \cup {row})
            /\ Cardinality(B \cup {row}) = IF row \in B THEN Cardinality(B) ELSE Cardinality(B) + 1
        BY <2>2, FS_AddElement
      <4>2. Cardinality(B') <= Cardinality(B \cup {row}) /\ IsFiniteSet(B')
        <5> DEFINE B1 == B \cup {row}
        <5>1. IsFiniteSet(B1) /\ B' \subseteq B1
          BY <3>3, <4>1
        <5> HIDE DEF B1
        <5>2. Cardinality(B') <= Cardinality(B1) /\ IsFiniteSet(B')
          BY <5>1, FS_Subset
        <5> QED BY <5>2 DEF B1
      <4> HIDE DEF B
      <4>3. Cardinality(B') \in Nat
        BY <4>2, FS_CardinalityType
      <4> QED BY <2>2, <4>1, <4>2, <4>3
    <3>5. Cardinality(B') <= Cardinality(Clients)
          /\ (now < a.ts + Cooldown =>
                Cardinality(B') + Cardinality(A') <= Cardinality(Clients))
      <4> HIDE DEF A, B
      <4> QED BY <2>2, <2>3, <2>4, <2>5, <3>2, <3>4
    <3> QED BY <3>5
  <2>6. CASE ~(a.user = row.user /\ now < a.ts + Cooldown)
    <3>1. B' = B
      BY <1>1, <1>2, <1>3, <2>6 DEF BurstOf, FailsOf
    <3>2. Cardinality(B') <= Cardinality(Clients)
          /\ (now < a.ts + Cooldown =>
                Cardinality(B') + Cardinality(A') <= Cardinality(Clients))
      <4> HIDE DEF A, B
      <4> QED BY <2>2, <2>3, <2>4, <3>1
    <3> QED BY <3>2
  <2> QED BY <2>5, <2>6
<1>5. /\ Cardinality(BurstOf(row.user, row.ts)') <= Cardinality(Clients)
      /\ now < row.ts + Cooldown =>
           Cardinality(BurstOf(row.user, row.ts)')
             + Cardinality(Armed(row.user, row.ts)') <= Cardinality(Clients)
  <2>1. CASE \E a \in Fails : a.user = row.user /\ a.ts = row.ts
    BY <1>4, <2>1
  <2>2. CASE ~\E a \in Fails : a.user = row.user /\ a.ts = row.ts
    <3> DEFINE B == BurstOf(row.user, row.ts)
               A == Armed(row.user, row.ts)
    <3>1. B' = {row}
      BY <1>1, <1>2, <1>3, <2>2 DEF BurstOf, FailsOf
    <3>2. Cardinality(B') = 1
      BY <3>1, FS_Singleton
    <3>3. A' \subseteq Clients \ {c}
      BY ReturnDisarms DEF Armed
    <3>4. /\ IsFiniteSet(Clients \ {c}) /\ Cardinality(Clients \ {c}) = Cardinality(Clients) - 1
          /\ Cardinality(Clients) \in Nat
      BY EnrolledAssumption, FS_RemoveElement, FS_CardinalityType
    <3>5. Cardinality(A') <= Cardinality(Clients) - 1 /\ Cardinality(A') \in Nat
      <4> DEFINE C1 == Clients \ {c}
      <4>1. IsFiniteSet(C1) /\ A' \subseteq C1 /\ Cardinality(C1) = Cardinality(Clients) - 1
        BY <3>3, <3>4
      <4> HIDE DEF C1, A
      <4>2. Cardinality(A') <= Cardinality(C1) /\ IsFiniteSet(A')
        BY <4>1, FS_Subset
      <4> QED BY <4>1, <4>2, FS_CardinalityType
    <3>6. Cardinality(B') <= Cardinality(Clients)
          /\ (now < row.ts + Cooldown =>
                Cardinality(B') + Cardinality(A') <= Cardinality(Clients))
      <4> HIDE DEF A, B
      <4> QED BY <3>2, <3>4, <3>5
    <3> QED BY <3>6
  <2> QED BY <2>1, <2>2
<1> QED BY <1>1, <1>4, <1>5 DEF BurstsFit

-----------------------------------------------------------------------------
(* Every step keeps the history.                                           *)

(* Steps of a request that change no table and arm nobody in a cooldown.   *)
LEMMA TablesAsBefore ==
  ASSUME Inv, UNCHANGED <<now, tables>>, Delayed',
         \A a \in Fails :
           now < a.ts + Cooldown => Armed(a.user, a.ts)' \subseteq Armed(a.user, a.ts)
  PROVE  History'
<1>1. Fails' = Fails /\ now' = now /\ now \in Times /\ now <= now'
  BY DEF tables, Fails, Inv, IInv, Shape
<1>2. Recollected'
  BY <1>1, NothingRecorded DEF tables
<1>3. BurstsFit'
  BY <1>1, NoFailureAdded
<1> QED BY <1>2, <1>3 DEF History

LEMMA EndingKeepsHistory ==
  ASSUME Inv, NEW c \in Clients, NEW e, Return(c, e), UNCHANGED <<now, tables>>
  PROVE  History'
<1>1. Delayed'
  BY ReturnKeepsDelays DEF tables, Fails
<1>2. \A a \in Fails : Armed(a.user, a.ts)' \subseteq Armed(a.user, a.ts)
  BY ReturnDisarms
<1> QED BY <1>1, <1>2, TablesAsBefore

(* A request among those that may fail stays one.                          *)
LEMMA VerifyingGoesOn ==
  ASSUME Inv, NEW c \in Clients, pc[c] \in Verifying, NEW l \in Verifying, Goto(c, l),
         UNCHANGED <<now, tables, request, backoff, due>>
  PROVE  History'
<1>1. Delayed'
  BY GotoKeepsDelays DEF tables, Verifying, Labels
<1>2. \A u, t : Armed(u, t)' \subseteq Armed(u, t)
  BY DEF Goto, Inv, IInv, Shape, Armed, Verifying
<1> QED BY <1>1, <1>2, TablesAsBefore

(* Nobody starts to verify, and nobody is due, in a cooldown of his user.  *)
LEMMA CountingArmsNobody ==
  ASSUME Inv, NEW c \in Clients, CountFailures(c)
  PROVE  History'
<1> DEFINE delay == Delay(FailureCount(request[c].user))
<1>1. /\ Delayed' /\ delay \in 0 .. MaxDelay
      /\ pc' = [pc EXCEPT ![c] = IF delay = 0 THEN Verification(c)
                                 ELSE IF Mode[c] = "sleep" THEN "sleep" ELSE "decide"]
      /\ due' = [due EXCEPT ![c] = IF Mode[c] = "sleep" THEN now + delay ELSE 0]
      /\ UNCHANGED <<now, tables, request>>
  BY CountingDelays
<1>2. ASSUME NEW a \in Fails, now < a.ts + Cooldown, a.user = request[c].user
      PROVE  delay >= Cooldown /\ Cooldown > 0 /\ a.ts <= now /\ a.ts \in Times
  <2>1. FailureCount(a.user) \in Nat \ {0} /\ a.ts \in Times
    BY <1>2, FailureHeld
  <2>2. delay >= Cooldown /\ Cooldown > 0
    <3>1. \A n \in Nat : n > 0 => Delay(n) >= Cooldown
      BY DelayBounds
    <3>2. Cooldown > 0
      BY DelayBounds
    <3> QED BY <1>2, <2>1, <3>1, <3>2
  <2> QED BY <2>1, <2>2 DEF Inv, History, Recollected, AttemptsShape
<1> HIDE DEF delay
<1>3. ASSUME NEW a \in Fails, now < a.ts + Cooldown, NEW d \in Armed(a.user, a.ts)'
      PROVE  d \in Armed(a.user, a.ts)
  <2>1. /\ d \in Clients /\ pc'[d] # "idle" /\ request[d].user = a.user
        /\ pc'[d] \in Verifying \/ (pc'[d] = "sleep" /\ due'[d] < a.ts + Cooldown)
    BY <1>1, <1>3 DEF Armed
  <2>2. CASE d = c
    <3>1. delay >= Cooldown /\ Cooldown > 0 /\ a.ts <= now /\ a.ts \in Times
      BY <1>2, <1>3, <2>1, <2>2
    <3>2. delay # 0 /\ now \in Times /\ Cooldown \in Nat /\ delay \in Nat
      BY <1>1, <3>1, DelayBounds DEF Inv, IInv, Shape
    <3>3. pc'[c] = IF Mode[c] = "sleep" THEN "sleep" ELSE "decide"
      BY <1>1, <3>2 DEF Inv, IInv, Shape
    <3>4. pc'[c] = "sleep" /\ due'[c] < a.ts + Cooldown /\ Mode[c] = "sleep"
      BY <2>1, <2>2, <3>3 DEF Verifying
    <3>5. due'[c] = now + delay
      BY <1>1, <3>4 DEF Inv, History, Delayed
    <3> QED BY <3>1, <3>2, <3>4, <3>5
  <2>3. CASE d # c
    <3>1. pc'[d] = pc[d] /\ due'[d] = due[d]
      BY <1>1, <2>1, <2>3 DEF Inv, IInv, Shape, History, Delayed
    <3> QED BY <2>1, <3>1 DEF Armed
  <2> QED BY <2>2, <2>3
<1> QED BY <1>1, <1>3, TablesAsBefore

LEMMA VerificationIsOne == \A c \in Clients : Verification(c) \in Verifying \cap Labels
BY DEF Verification, Verifying, Labels

(* Who decides to go on does so after the cooldown of every failure.       *)
LEMMA DecidingArmsNobody ==
  ASSUME Inv, NEW c \in Clients, CooldownOver(c)
  PROVE  History'
<1>1. /\ pc[c] = "decide" /\ Remaining(c) <= 0 /\ Goto(c, Verification(c))
      /\ UNCHANGED <<now, tables, request, backoff, due>>
  BY DEF CooldownOver, locals
<1>2. Delayed'
  <2>1. Verification(c) \in Labels \ {"decide"}
    BY DEF Verification, Labels
  <2> QED BY <1>1, <2>1, GotoKeepsDelays DEF tables
<1>3. ASSUME NEW a \in Fails, now < a.ts + Cooldown PROVE a.user # request[c].user
  <2> SUFFICES ASSUME a.user = request[c].user PROVE FALSE
    OBVIOUS
  <2>1. LastFailure(a.user) \in Times /\ a.ts <= LastFailure(a.user) /\ a.ts \in Times
    BY <1>3, FailureHeld
  <2>2. backoff[c] \in Nat /\ backoff[c] >= Cooldown /\ Cooldown \in Nat /\ now \in Times
    BY <1>1, DelayBounds DEF Inv, IInv, Shape, History, Delayed
  <2>3. LastFailure(a.user) + backoff[c] - now <= 0
    BY <1>1 DEF Remaining
  <2> QED BY <1>3, <2>1, <2>2, <2>3
<1>4. ASSUME NEW a \in Fails, now < a.ts + Cooldown, NEW d \in Armed(a.user, a.ts)'
      PROVE  d \in Armed(a.user, a.ts)
  <2>1. d # c
    BY <1>1, <1>3, <1>4 DEF Armed
  <2>2. d \in Clients /\ pc'[d] = pc[d]
    BY <1>1, <1>4, <2>1 DEF Goto, Inv, IInv, Shape, Armed
  <2> QED BY <1>1, <1>4, <2>2 DEF Armed
<1> QED BY <1>1, <1>2, <1>4, TablesAsBefore

(* Who wakes up was armed if a cooldown is not over.                       *)
LEMMA WakingArmsNobody ==
  ASSUME Inv, NEW c \in Clients, Wake(c)
  PROVE  History'
<1>1. /\ pc[c] = "sleep" /\ due[c] <= now /\ Goto(c, Verification(c))
      /\ UNCHANGED <<now, tables, request, backoff, due>>
  BY DEF Wake, locals
<1>2. Delayed'
  <2>1. Verification(c) \in Labels \ {"decide"}
    BY DEF Verification, Labels
  <2> QED BY <1>1, <2>1, GotoKeepsDelays DEF tables
<1>3. ASSUME NEW a \in Fails, now < a.ts + Cooldown, NEW d \in Armed(a.user, a.ts)'
      PROVE  d \in Armed(a.user, a.ts)
  <2>1. d \in Clients /\ request[d].user = a.user /\ pc'[d] # "idle"
    BY <1>1, <1>3 DEF Armed
  <2>2. CASE d = c
    <3>1. due[c] \in Nat /\ now \in Times /\ a.ts \in Times /\ Cooldown \in Nat
      BY DelayBounds DEF Inv, IInv, Shape, History, Delayed, Recollected, AttemptsShape,
                         Attempts, Fails
    <3>2. due[c] < a.ts + Cooldown
      BY <1>1, <1>3, <3>1
    <3> QED BY <1>1, <2>1, <2>2, <3>2 DEF Armed
  <2>3. CASE d # c
    <3>1. pc'[d] = pc[d]
      BY <1>1, <2>1, <2>3 DEF Goto, Inv, IInv, Shape
    <3> QED BY <1>1, <1>3, <3>1 DEF Armed
  <2> QED BY <2>2, <2>3
<1> QED BY <1>1, <1>2, <1>3, TablesAsBefore

(* The requests that record.                                               *)
LEMMA RecordingKeepsHistory ==
  ASSUME Inv, NEW c \in Clients,
         CommitSuccess(c) \/ CommitFailure(c) \/ ConsumeSuccess(c) \/ ConsumeFailure(c)
  PROVE  History'
<1>1. PICK e : Return(c, e) /\ pc[c] \in Verifying /\ now' = now
  BY DEF CommitSuccess, CommitFailure, ConsumeSuccess, ConsumeFailure, Verifying
<1>2. CASE CommitFailure(c) \/ ConsumeFailure(c)
  <2>1. PICK row : /\ recorded' = recorded \cup {row} /\ ~row.success
                   /\ row.user = request[c].user /\ row.ts = now
    BY <1>2, FailureRecorded
  <2>2. BurstsFit'
    BY <1>1, <2>1, FailureFits
  <2>3. Fails \subseteq Fails'
    BY <2>1 DEF Fails
  <2>4. Delayed'
    BY <1>1, <2>3, ReturnKeepsDelays
  <2> QED BY <1>2, <2>2, <2>4, FailureRecorded DEF History
<1>3. CASE CommitSuccess(c) \/ ConsumeSuccess(c)
  <2>1. Recollected' /\ Fails' = Fails
    BY <1>3, TokenRecorded, CodeRecorded
  <2>2. Delayed'
    BY <1>1, <2>1, ReturnKeepsDelays
  <2>3. now \in Times /\ now <= now'
    BY <1>1 DEF Inv, IInv, Shape
  <2>4. BurstsFit'
    BY <1>1, <2>1, <2>3, ReturnDisarms, NoFailureAdded
  <2> QED BY <2>1, <2>2, <2>4 DEF History
<1> QED BY <1>2, <1>3

(* The clock, an administrator and the purge.                              *)
LEMMA OthersKeepHistory ==
  ASSUME Inv, now' \in Times, now <= now', UNCHANGED <<recorded, recovery_codes, pc, locals>>,
         \A a \in auth_attempts : a \in auth_attempts' \/ a.ts < now - Retention
  PROVE  History'
<1>1. Fails' = Fails
  BY DEF Fails
<1>2. Delayed'
  BY <1>1 DEF Inv, History, Delayed, FailsOf, locals
<1>3. \A u, t : Armed(u, t)' = Armed(u, t)
  BY DEF Armed, locals
<1> QED BY <1>1, <1>2, <1>3, NothingRecorded, NoFailureAdded DEF History

LEMMA HistoryStep == Inv /\ [Next]_vars => History'
<1> SUFFICES ASSUME Inv, [Next]_vars PROVE History'
  OBVIOUS
<1> now \in Times
  BY DEF Inv, IInv, Shape
<1>1. CASE Tick
  <2>1. now' \in Times /\ now <= now'
    BY <1>1 DEF Tick
  <2> QED BY <1>1, <2>1, OthersKeepHistory DEF Tick, tables
<1>2. ASSUME NEW c \in Clients, NEW r \in Requests, Submit(c, r) PROVE History'
  <2>1. Delayed'
    BY <1>2 DEF Submit, Inv, IInv, Shape, History, Delayed, tables, FailsOf, Fails
  <2>2. \A u, t : Armed(u, t)' \subseteq Armed(u, t)
    BY <1>2 DEF Submit, Inv, IInv, Shape, History, Delayed, Armed, Verifying
  <2> QED BY <1>2, <2>1, <2>2, TablesAsBefore DEF Submit
<1>3. ASSUME NEW c \in Clients, NEW r \in Requests, SubmitRefused(c, r) PROVE History'
  BY <1>3, EndingKeepsHistory DEF SubmitRefused
<1>4. ASSUME NEW c \in Clients, BackoffStep(c) PROVE History'
  <2>1. CASE RateLimited(c)
    BY <2>1, EndingKeepsHistory DEF RateLimited
  <2> QED BY <1>4, <2>1, CountingArmsNobody, DecidingArmsNobody, WakingArmsNobody
          DEF BackoffStep
<1>5. ASSUME NEW c \in Clients, TotpStep(c) PROVE History'
  <2>1. CASE MatchToken(c)
    BY <2>1, VerifyingGoesOn DEF MatchToken, Verifying
  <2>2. CASE DecryptFails(c) \/ CommitRevoked(c) \/ CommitReplay(c)
    BY <2>2, EndingKeepsHistory DEF DecryptFails, CommitRevoked, CommitReplay
  <2> QED BY <1>5, <2>1, <2>2, RecordingKeepsHistory DEF TotpStep
<1>6. ASSUME NEW c \in Clients, RecoveryStep(c) PROVE History'
  <2>1. CASE FingerprintFresh(c) \/ ReadCodes(c)
    BY <2>1, VerifyingGoesOn DEF FingerprintFresh, ReadCodes, Verifying, locals
  <2>2. CASE FingerprintSeen(c) \/ ConsumeLost(c)
    BY <2>2, EndingKeepsHistory DEF FingerprintSeen, ConsumeLost
  <2> QED BY <1>6, <2>1, <2>2, RecordingKeepsHistory DEF RecoveryStep
<1>7. ASSUME NEW c \in Clients, Abort(c) PROVE History'
  BY <1>7, EndingKeepsHistory DEF Abort
<1>8. ASSUME NEW u \in Users, Revoke(u) PROVE History'
  <2>1. now' \in Times /\ now <= now'
    BY <1>8 DEF Revoke
  <2> QED BY <1>8, <2>1, OthersKeepHistory DEF Revoke
<1>9. ASSUME NEW t \in 0 .. now, Purge(t) PROVE History'
  <2>1. now' \in Times /\ now <= now'
    BY <1>9 DEF Purge
  <2>2. \A a \in auth_attempts : a \in auth_attempts' \/ a.ts < now - Retention
    BY <1>9 DEF Purge
  <2> QED BY <1>9, <2>1, <2>2, OthersKeepHistory DEF Purge
<1>10. CASE UNCHANGED vars
  <2>1. now' \in Times /\ now <= now'
    BY <1>10 DEF vars
  <2> QED BY <1>10, <2>1, OthersKeepHistory DEF vars, tables
<1> QED
  BY <1>1, <1>2, <1>3, <1>4, <1>5, <1>6, <1>7, <1>8, <1>9, <1>10 DEF Next

LEMMA HistoryInit == Init => History
<1> SUFFICES ASSUME Init PROVE History
  OBVIOUS
<1>1. recorded \subseteq LegacyLogins /\ auth_attempts = recorded
  BY DEF Init
<1>2. AttemptsShape
  <2>1. recovery_codes \subseteq Users \X RecoveryCodes
    BY EnrolledAssumption DEF Init
  <2>2. IsFiniteSet(recorded) /\ recorded \subseteq Attempts /\ Fails = {}
    BY <1>1, LegacyAssumption, FS_Subset DEF Fails
  <2> QED BY <1>1, <2>1, <2>2 DEF AttemptsShape
<1>3. CodesUsed
  BY DEF Init, CodesUsed
<1>4. LegacyApart
  BY <1>1, LegacyAssumption DEF LegacyApart, Logins
<1>5. Delayed
  BY NoRequestIsOne DEF Init, Delayed
<1>6. BurstsFit
  BY <1>1, LegacyAssumption DEF BurstsFit, Fails
<1> QED BY <1>2, <1>3, <1>4, <1>5, <1>6 DEF History, Recollected

LEMMA HistoryHolds == Spec => []Inv
<1>1. Init => Inv
  BY InitStep, AlarmInit, HistoryInit DEF Inv
<1>2. Inv /\ [Next]_vars => Inv'
  BY EveryStep, AlarmStep, HistoryStep DEF Inv
<1> QED BY <1>1, <1>2, PTL DEF Spec

(* Nothing is consumed but by a recorded login (auth/core.py:              *)
(* verify_token and use_recovery_code), whatever fails, is replayed,       *)
(* revoked or purged; and the logins of a token from before there were     *)
(* steps are ReplayWindow apart.                                           *)
THEOREM NothingConsumedInVain == Spec => []OnlyLoginsConsume
<1>1. Inv => OnlyLoginsConsume
  <2> SUFFICES ASSUME Inv PROVE OnlyLoginsConsume
    OBVIOUS
  <2>1. TypeOK
    BY DEF TypeOK, Inv, IInv, Shape, Labels, AlarmInv, AnswersShape, Answers,
           TablesFromHistory, History, Recollected, AttemptsShape, Delayed
  <2> QED BY <2>1 DEF OnlyLoginsConsume, Inv, AlarmInv, TablesFromHistory, History,
                      Recollected, CodesUsed, LegacyApart
<1> QED BY <1>1, HistoryHolds, PTL

(* The backoff bounds guessing (auth/core.py, _backoff_seconds and the     *)
(* sleep or reject of the two factors): from any failure on, no more than  *)
(* one failure per request in flight in the first cooldown, although the   *)
(* failures are counted and recorded in separate transactions.             *)
THEOREM GuessesAreBounded == Spec => []BurstBounded
<1>1. Inv => BurstBounded
  <2> SUFFICES ASSUME Inv, NEW a \in recorded, ~a.success
               PROVE  Cardinality({b \in recorded : b.user = a.user /\ ~b.success
                                     /\ a.ts <= b.ts /\ b.ts < a.ts + Delay(1)})
                        <= Cardinality(Clients)
    BY DEF BurstBounded
  <2>1. Cardinality(BurstOf(a.user, a.ts)) <= Cardinality(Clients)
    BY DEF Inv, History, BurstsFit, Fails
  <2>2. BurstOf(a.user, a.ts) = {b \in recorded : b.user = a.user /\ ~b.success
                                   /\ a.ts <= b.ts /\ b.ts < a.ts + Delay(1)}
    BY DEF BurstOf, FailsOf, Fails, Cooldown
  <2> QED BY <2>1, <2>2
<1> QED BY <1>1, HistoryHolds, PTL

(* Only one step ends a request as rate limited.                           *)
LEMMA WhoLimits ==
  ASSUME IInv, AlarmInv, [Next]_vars, NEW c \in Clients, pc[c] # "idle", pc'[c] = "idle",
         answer'[c] = "RATE_LIMITED"
  PROVE  RateLimited(c)
<1>1. ASSUME NEW d \in Clients, NEW e \in Answers, Return(d, e) PROVE d = c /\ e = "RATE_LIMITED"
  BY <1>1 DEF Return, IInv, Shape, AlarmInv, AnswersShape
<1>2. ASSUME NEW d \in Clients, NEW l \in Labels \ {"idle"}, Goto(d, l) PROVE FALSE
  BY <1>2 DEF Goto, IInv, Shape
<1>3. pc' # pc
  OBVIOUS
<1>4. ~(Tick \/ UNCHANGED vars \/ (\E u \in Users : Revoke(u)) \/ (\E t \in 0 .. now : Purge(t)))
  BY <1>3 DEF Tick, vars, Revoke, Purge
<1>5. ASSUME NEW d \in Clients, NEW r \in Requests PROVE ~Submit(d, r) /\ ~SubmitRefused(d, r)
  <2>1. ~Submit(d, r)
    BY DEF Submit, IInv, Shape
  <2>2. ~SubmitRefused(d, r)
    BY <1>1 DEF SubmitRefused, Answers
  <2> QED BY <2>1, <2>2
<1>6. ASSUME NEW d \in Clients, BackoffStep(d) PROVE RateLimited(c)
  <2>1. ~CountFailures(d)
    <3> SUFFICES ASSUME CountFailures(d) PROVE FALSE
      OBVIOUS
    <3>1. PICK l \in {Verification(d), "sleep", "decide"} : Goto(d, l)
      BY DEF CountFailures
    <3> QED BY <1>2, <3>1 DEF Verification, Labels
  <2>2. ~CooldownOver(d) /\ ~Wake(d)
    BY <1>2 DEF CooldownOver, Wake, Verification, Labels
  <2>3. RateLimited(d)
    BY <1>6, <2>1, <2>2 DEF BackoffStep
  <2>4. d = c
    BY <1>1, <2>3 DEF RateLimited, Answers
  <2> QED BY <2>3, <2>4
<1>7. ASSUME NEW d \in Clients PROVE ~TotpStep(d)
  <2>1. ~MatchToken(d)
    BY <1>2 DEF MatchToken, Labels
  <2>2. ~DecryptFails(d) /\ ~CommitRevoked(d) /\ ~CommitReplay(d)
        /\ ~CommitSuccess(d) /\ ~CommitFailure(d)
    BY <1>1 DEF DecryptFails, CommitRevoked, CommitReplay, CommitSuccess, CommitFailure, Answers
  <2> QED BY <2>1, <2>2 DEF TotpStep
<1>8. ASSUME NEW d \in Clients PROVE ~RecoveryStep(d)
  <2>1. ~FingerprintFresh(d) /\ ~ReadCodes(d)
    BY <1>2 DEF FingerprintFresh, ReadCodes, Labels
  <2>2. ~ConsumeSuccess(d) /\ ~ConsumeFailure(d) /\ ~FingerprintSeen(d) /\ ~ConsumeLost(d)
    BY <1>1 DEF ConsumeSuccess, ConsumeFailure, FingerprintSeen, ConsumeLost, Answers
  <2> QED BY <2>1, <2>2 DEF RecoveryStep
<1>9. ASSUME NEW d \in Clients PROVE ~Abort(d)
  BY <1>1 DEF Abort, Answers
<1> QED BY <1>4, <1>5, <1>6, <1>7, <1>8, <1>9 DEF Next

(* The failure-count window does not become the lockout (auth/core.py):    *)
(* who is refused as rate limited has a failure younger than the longest   *)
(* delay on record, even if retention removed it since it was counted.     *)
THEOREM LockoutsEnd == Spec => LockoutIsBounded
<1> DEFINE Refused(c) == ~Idle(c) /\ pc'[c] = "idle" /\ answer'[c] = "RATE_LIMITED"
           Young(c) == \E a \in recorded :
                         a.user = request[c].user /\ ~a.success /\ now < a.ts + MaxDelay
<1>1. ASSUME Inv, [Next]_vars, NEW c \in Clients, Refused(c) PROVE Young(c)
  <2> DEFINE u == request[c].user
  <2>1. pc[c] = "decide" /\ LastFailure(u) + backoff[c] - now > 0
    BY <1>1, WhoLimits DEF Inv, Idle, RateLimited, Remaining
  <2>2. backoff[c] \in 0 .. MaxDelay /\ now \in Times /\ FailsOf(u) # {}
    BY <1>1, <2>1 DEF Inv, IInv, Shape, History, Delayed
  <2>3. CASE Failures(u) # {}
    <3>1. \A a \in Failures(u) : a \in recorded /\ a.user = u /\ ~a.success /\ a.ts \in Times
      BY <1>1 DEF Failures, Inv, AlarmInv, TablesFromHistory, History, Recollected,
                  AttemptsShape, Attempts
    <3>2. PICK a \in Failures(u) : LastFailure(u) = a.ts
      BY <2>3, <3>1, LastFailureIsLast
    <3>3. now < a.ts + MaxDelay
      BY <2>1, <2>2, <3>1, <3>2
    <3> QED BY <3>1, <3>3
  <2>4. CASE Failures(u) = {}
    <3>1. PICK a \in FailsOf(u) : TRUE
      BY <2>2
    <3>2. a \in recorded /\ a.user = u /\ ~a.success /\ a \notin auth_attempts
      BY <2>4 DEF FailsOf, Fails, Failures
    <3>3. a.ts < now - Retention /\ a.ts \in Times
      BY <1>1, <3>2 DEF Inv, History, Recollected, AttemptsShape, Attempts
    <3>4. LastFailure(u) = 0
      BY <2>4 DEF LastFailure
    <3> QED BY <2>1, <2>2, <3>3, <3>4, TimingAssumption
  <2> QED BY <2>3, <2>4
<1>2. Inv /\ [Next]_vars => [\A c \in Clients : Refused(c) => Young(c)]_vars
  BY <1>1
<1> QED BY <1>2, HistoryHolds, PTL DEF Spec, LockoutIsBounded
=============================================================================
