-------------------------------- MODULE MCMfa --------------------------------
(* Mfa for TLC: one user, two clients, tokens that repeat across steps.    *)
EXTENDS MfaProperties, TLC

CONSTANTS u1, t1, t2, r1, web, cli

MCIssued == {<<u1, r1>>}
(* Digits repeat: intervals 0 and 2 show the same token. *)
MCTotpAt == [u \in Users |-> [s \in 0 .. 8 |-> IF s = 0 \/ s = 2 THEN t1 ELSE t2]]
(* The dashboard rejects, the command line sleeps. *)
MCMode == [c \in Clients |-> IF c = web THEN "reject" ELSE "sleep"]
MCLegacy == {[id |-> 1, user |-> u1, ts |-> 0, success |-> TRUE,
              fp |-> <<"totp", u1, t1>>, step |-> NoStep]}

(* Past Burst, what is left to see is retention: the dashboard alone, with *)
(* few attempts on record.                                                 *)
CONSTANT Burst
Explored ==
  \/ now <= Burst
  \/ Idle(cli) /\ answer[cli] = "none" /\ Cardinality(recorded) < MaxAttempts
=============================================================================
