------------------------------- MODULE OneTime -------------------------------
(***************************************************************************)
(* What the second factor promises (auth/README.md), of no particular      *)
(* tables, requests or clocks: a credential, which is a user's time step   *)
(* or a recovery code, logs a user in once.  Who has been revoked is let   *)
(* in by no time step; a recovery code that was already being checked      *)
(* still counts.                                                           *)
(***************************************************************************)
EXTENDS Naturals

CONSTANTS Users, Credentials (* of the form <<kind, user, what>> *)

VARIABLES
  active, (* the users who have not been revoked                           *)
  spent,  (* the credentials that were used                                *)
  logins  (* how many logins there were with them                          *)

vars == <<active, spent, logins>>

Init == active \subseteq Users /\ spent = {} /\ logins = 0

Login(c) ==
  /\ c \notin spent
  /\ c[1] = "step" => c[2] \in active
  /\ spent' = spent \cup {c} /\ logins' = logins + 1
  /\ UNCHANGED active

Revoke(u) == u \in active /\ active' = active \ {u} /\ UNCHANGED <<spent, logins>>

Next == (\E c \in Credentials : Login(c)) \/ (\E u \in Users : Revoke(u))

Spec == Init /\ [][Next]_vars
=============================================================================
