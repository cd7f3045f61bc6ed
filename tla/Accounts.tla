------------------------------- MODULE Accounts -------------------------------
(***************************************************************************)
(* The accounts of the MFA store (auth/core.py): enroll_user, revoke_user  *)
(* and set_user_role, called by operators in processes of their own that   *)
(* share one SQLite file.  A write transaction begins with its first       *)
(* write; a second writer waits for it and may give up.  What an account   *)
(* is good for at a login is module Mfa.                                   *)
(***************************************************************************)
EXTENDS Integers, FiniteSets

CONSTANTS
  Operators,      (* processes                                             *)
  Names,          (* usernames                                             *)
  Roles,
  DefaultRole,    (* 'analyst'                                             *)
  RecoveryCodes,  (* MFA_RECOVERY_CODES_COUNT, clamped to 1..50            *)
  None,
  MaxEnrollments  (* bound on the enrollments                              *)

CodesAssumption == RecoveryCodes \in Nat \ {0} /\ MaxEnrollments \in Nat
RolesAssumption == DefaultRole \in Roles

Enrollments == 1 .. MaxEnrollments
(* A user row; its secret is named for the enrollment that made it.        *)
UserRows == [id : Enrollments, secret : Enrollments, role : Roles, active : BOOLEAN]
NoneAssumption == None \notin Operators \cup UserRows

VARIABLES
  users,    (* committed: per name, its row or None                        *)
  codes,    (* committed: [user_id, secret, n]                             *)
  lastId,   (* the last user id given out                                  *)
  lock,     (* who is in a write transaction, or None                      *)
  pc,       (* "idle", "enroll", "insert", "codes", "revoke"               *)
  name,     (* the username of the call, or None                           *)
  secret,   (* the enrollment of the call                                  *)
  inserted, (* how many codes its transaction has inserted                 *)
  started,  (* how many enrollments there were                             *)
  answers   (* history: [secret, name, answer] of those that ended         *)

store == <<users, codes, lastId>>
operator == <<pc, name, secret, inserted>>
vars == <<store, lock, operator, started, answers>>

Init ==
  /\ users = [n \in Names |-> None] /\ codes = {} /\ lastId = 0
  /\ lock = None
  /\ pc = [p \in Operators |-> "idle"]
  /\ name = [p \in Operators |-> None]
  /\ secret = [p \in Operators |-> None]
  /\ inserted = [p \in Operators |-> 0]
  /\ started = 0 /\ answers = {}

(* The call ends; its transaction, if it has one, is over. *)
Return(p) ==
  /\ pc' = [pc EXCEPT ![p] = "idle"]
  /\ name' = [name EXCEPT ![p] = None]
  /\ secret' = [secret EXCEPT ![p] = None]
  /\ inserted' = [inserted EXCEPT ![p] = 0]
  /\ lock' = IF lock = p THEN None ELSE lock

Answer(p, answer) ==
  answers' = answers \cup {[secret |-> secret[p], name |-> name[p], answer |-> answer]}

(* enroll_user: a secret and its codes are made. *)
Enroll(p, n) ==
  /\ pc[p] = "idle" /\ started < MaxEnrollments
  /\ started' = started + 1
  /\ pc' = [pc EXCEPT ![p] = "enroll"]
  /\ name' = [name EXCEPT ![p] = n]
  /\ secret' = [secret EXCEPT ![p] = started + 1]
  /\ UNCHANGED <<store, lock, inserted, answers>>

(* SELECT id FROM users, outside any transaction. *)
SelectExisting(p) ==
  /\ pc[p] = "enroll" /\ users[name[p]] # None
  /\ Answer(p, "exists")
  /\ Return(p)
  /\ UNCHANGED <<store, started>>

SelectNone(p) ==
  /\ pc[p] = "enroll" /\ users[name[p]] = None
  /\ pc' = [pc EXCEPT ![p] = "insert"]
  /\ UNCHANGED <<store, lock, name, secret, inserted, started, answers>>

(* INSERT INTO users trips the UNIQUE constraint: rolled back. *)
InsertConflict(p) ==
  /\ pc[p] = "insert" /\ lock = None /\ users[name[p]] # None
  /\ Answer(p, "exists")
  /\ Return(p)
  /\ UNCHANGED <<store, started>>

(* MUTANT: no UNIQUE constraint; the later row hides the earlier. *)
InsertUserAnyway(p) ==
  /\ pc[p] = "insert" /\ lock = None
  /\ lock' = p
  /\ pc' = [pc EXCEPT ![p] = "codes"]
  /\ UNCHANGED <<store, name, secret, inserted, started, answers>>

InsertUser(p) ==
  /\ pc[p] = "insert" /\ lock = None /\ users[name[p]] = None
  /\ lock' = p
  /\ pc' = [pc EXCEPT ![p] = "codes"]
  /\ UNCHANGED <<store, name, secret, inserted, started, answers>>

InsertCode(p) ==
  /\ pc[p] = "codes" /\ inserted[p] < RecoveryCodes
  /\ inserted' = [inserted EXCEPT ![p] = @ + 1]
  /\ UNCHANGED <<store, lock, pc, name, secret, started, answers>>

Row(p) == [id |-> lastId + 1, secret |-> secret[p], role |-> DefaultRole, active |-> TRUE]
CodesOf(p, n) == [user_id : {lastId + 1}, secret : {secret[p]}, n : 1 .. n]

(* MUTANT: committed before its codes are all there. *)
CommitEarly(p) ==
  /\ pc[p] = "codes"
  /\ lastId' = lastId + 1
  /\ users' = [users EXCEPT ![name[p]] = Row(p)]
  /\ codes' = codes \cup CodesOf(p, inserted[p])
  /\ Answer(p, "uri")
  /\ Return(p)
  /\ UNCHANGED started

(* The row and its codes appear together; the caller gets them. *)
Commit(p) ==
  /\ pc[p] = "codes" /\ inserted[p] = RecoveryCodes
  /\ lastId' = lastId + 1
  /\ users' = [users EXCEPT ![name[p]] = Row(p)]
  /\ codes' = codes \cup CodesOf(p, RecoveryCodes)
  /\ Answer(p, "uri")
  /\ Return(p)
  /\ UNCHANGED started

(* The lock is not had in time, or a statement fails: rolled back. *)
EnrollFails(p) ==
  /\ pc[p] \in {"insert", "codes"}
  /\ Answer(p, "error")
  /\ Return(p)
  /\ UNCHANGED <<store, started>>

(* revoke_user finds an active user: anything else returns at once. *)
RevokeBegin(p, n) ==
  /\ pc[p] = "idle" /\ users[n] # None /\ users[n].active
  /\ pc' = [pc EXCEPT ![p] = "revoke"]
  /\ name' = [name EXCEPT ![p] = n]
  /\ UNCHANGED <<store, lock, secret, inserted, started, answers>>

(* MUTANT: the flag is turned over. *)
RevokeToggles(p) ==
  /\ pc[p] = "revoke" /\ lock = None
  /\ users' = [users EXCEPT ![name[p]].active = ~@]
  /\ Return(p)
  /\ UNCHANGED <<codes, lastId, started, answers>>

Revoke(p) ==
  /\ pc[p] = "revoke" /\ lock = None
  /\ users' = [users EXCEPT ![name[p]].active = FALSE]
  /\ Return(p)
  /\ UNCHANGED <<codes, lastId, started, answers>>

(* set_user_role, one UPDATE, whether or not the user is active. *)
SetRole(n, role) ==
  /\ users[n] # None /\ lock = None
  /\ users' = [users EXCEPT ![n].role = role]
  /\ UNCHANGED <<codes, lastId, lock, operator, started, answers>>

(* The process is killed; SQLite rolls its transaction back. *)
Crash(p) ==
  /\ pc[p] # "idle"
  /\ Return(p)
  /\ UNCHANGED <<store, started, answers>>

Next ==
  \/ \E p \in Operators :
       \/ SelectExisting(p) \/ SelectNone(p) \/ InsertConflict(p) \/ InsertUser(p)
       \/ InsertCode(p) \/ Commit(p) \/ EnrollFails(p) \/ Revoke(p) \/ Crash(p)
       \/ \E n \in Names : Enroll(p, n) \/ RevokeBegin(p, n)
  \/ \E n \in Names, role \in Roles : SetRole(n, role)

Spec == Init /\ [][Next]_vars

-----------------------------------------------------------------------------
Enrolled == {n \in Names : users[n] # None}

(* Every variable has its type; who is past its first write has the lock.  *)
TypeOK ==
  /\ users \in [Names -> UserRows \cup {None}]
  /\ codes \subseteq [user_id : Enrollments, secret : Enrollments, n : 1 .. RecoveryCodes]
  /\ lastId \in 0 .. MaxEnrollments /\ started \in 0 .. MaxEnrollments
  /\ lock \in Operators \cup {None}
  /\ pc \in [Operators -> {"idle", "enroll", "insert", "codes", "revoke"}]
  /\ name \in [Operators -> Names \cup {None}]
  /\ secret \in [Operators -> Enrollments \cup {None}]
  /\ inserted \in [Operators -> 0 .. RecoveryCodes]
  /\ answers \subseteq [secret : Enrollments, name : Names, answer : {"exists", "error", "uri"}]
  /\ \A p \in Operators : pc[p] = "codes" <=> lock = p

(* An account is of one enrollment: the codes in the table are, for each   *)
(* user, all those that go with the secret in its row - however            *)
(* enrollments of one name overlap, fail or are killed.                    *)
AccountsAreWhole ==
  codes = UNION {[user_id : {users[n].id}, secret : {users[n].secret}, n : 1 .. RecoveryCodes] :
                   n \in Enrolled}

(* Who is shown a secret and codes holds those of the account; who is told *)
(* that the user exists, or of an error, left nothing behind.              *)
AnswersAreTrue ==
  \A a \in answers :
    /\ a.answer = "uri" => a.name \in Enrolled /\ users[a.name].secret = a.secret
    /\ a.answer = "exists" => a.name \in Enrolled
    /\ a.answer # "uri" => \A n \in Enrolled : users[n].secret # a.secret

(* Soft-delete is for good: a revoked user is never active again, whoever  *)
(* revokes, promotes or enrolls the name at the same time.                 *)
RevokedForGood ==
  [][\A n \in Enrolled : ~users[n].active => users'[n] # None /\ ~users'[n].active]_vars

(* What happens to an account happens to all of it, and to who asked: it   *)
(* is whole, its holder and the others were told the truth of it, and it   *)
(* does not come back.                                                     *)
AccountsAreSound == [](TypeOK /\ AccountsAreWhole /\ AnswersAreTrue) /\ RevokedForGood
=============================================================================
