--------------------------------- MODULE Fim ---------------------------------
(***************************************************************************)
(* The file integrity monitor (fim/monitor.py): checks that overlap (cron  *)
(* and by hand), an operator who (re)baselines, and a disk that changes    *)
(* under both.  A file's digest stands for its content; one that cannot be *)
(* opened has none.  Every read of the disk and every transaction is an    *)
(* action of its own.                                                      *)
(***************************************************************************)
EXTENDS Integers, FiniteSets

CONSTANTS
  Paths,          (* files that may exist                                  *)
  Contents,       (* what a file may hold                                  *)
  NoDigest,       (* calculate_sha256 returned None                        *)
  Roots,          (* the directories of critical_dirs                      *)
  Under,          (* Under[r]: the paths a listing of root r may show      *)
  LoudRoots,      (* roots whose created_severity is CRITICAL              *)
  CriticalFiles,  (* the paths of critical_files                           *)
  Checkers,       (* check_integrity calls that may overlap                *)
  MaxEvents,      (* bound on the events ever persisted                    *)
  MaxChanges      (* bound on the changes of the disk                      *)

ASSUME NoDigestAssumption == NoDigest \notin Contents
ASSUME UnderAssumption ==
  Under \in [Roots -> SUBSET Paths] /\ LoudRoots \subseteq Roots /\ CriticalFiles \subseteq Paths
ASSUME BoundsAssumption == Paths # {} /\ MaxEvents \in Nat /\ MaxChanges \in Nat

VARIABLES
  disk,            (* what each path holds, NoDigest when nothing is there *)
  readable,        (* the paths whose files may be opened                  *)
  changes,         (* how often the disk changed                           *)
  file_baselines,  (* the digest of each path, NoDigest without a row      *)
  fim_directories, (* the roots registered                                 *)
  fim_events,      (* the events persisted, each with its audit row        *)
  alerts,          (* the events handed to send_security_alert             *)
  accepted,        (* history: <<path, digest>> an operator baselined      *)
  pc, todo, roots, known, event,   (* the locals of each check             *)
  touched,         (* history: paths whose file or baseline something else *)
                   (* changed since the check began                        *)
  handled,         (* history: paths it reported, or failed to persist     *)
  baselining, hashes, hashed   (* the operator's baseline in progress      *)

database == <<file_baselines, fim_directories, fim_events, alerts, accepted>>
files == <<disk, readable, changes>>
operator == <<baselining, hashes, hashed>>
locals == <<pc, todo, roots, known, event, touched, handled>>
vars == <<files, database, locals, operator>>

NoEvent == [path |-> CHOOSE p \in Paths : TRUE, kind |-> "none", digest |-> NoDigest, loud |-> FALSE]

calculate_sha256(p) == IF p \in readable THEN disk[p] ELSE NoDigest
Exists(p) == disk[p] # NoDigest
Baselined == {p \in Paths : file_baselines[p] # NoDigest}

Init ==
  /\ disk \in [Paths -> Contents \cup {NoDigest}]
  /\ readable = Paths
  /\ changes = 0
  /\ file_baselines = [p \in Paths |-> NoDigest]
  /\ fim_directories = {} /\ fim_events = {} /\ alerts = {} /\ accepted = {}
  /\ pc = [c \in Checkers |-> "idle"]
  /\ todo = [c \in Checkers |-> {}] /\ roots = [c \in Checkers |-> {}]
  /\ known = [c \in Checkers |-> {}] /\ event = [c \in Checkers |-> NoEvent]
  /\ touched = [c \in Checkers |-> {}] /\ handled = [c \in Checkers |-> {}]
  /\ baselining = FALSE /\ hashes = [p \in Paths |-> NoDigest] /\ hashed = {}

-----------------------------------------------------------------------------
(* The disk: files are written, removed, made unreadable and readable.     *)

Touch(p) ==
  /\ changes < MaxChanges
  /\ changes' = changes + 1
  /\ touched' = [c \in Checkers |-> touched[c] \cup {p}]
  /\ UNCHANGED <<database, pc, todo, roots, known, event, handled, operator>>

Write(p, content) ==
  /\ disk[p] # content
  /\ disk' = [disk EXCEPT ![p] = content]
  /\ Touch(p) /\ UNCHANGED readable

Chmod(p) ==
  /\ Exists(p)
  /\ readable' = IF p \in readable THEN readable \ {p} ELSE readable \cup {p}
  /\ Touch(p) /\ UNCHANGED disk

-----------------------------------------------------------------------------
(* initialize_baselines: hash every configured file, then store what could *)
(* be read in one transaction.                                             *)

Configured == {p \in Paths : p \in CriticalFiles \/ \E r \in Roots : p \in Under[r] /\ Exists(p)}
Hashed == {p \in Paths : hashes[p] # NoDigest}

BaselineBegin ==
  /\ ~baselining
  /\ baselining' = TRUE
  /\ hashed' = Paths \ Configured
  /\ UNCHANGED <<files, database, locals, hashes>>

BaselineHash(p) ==
  /\ baselining /\ p \notin hashed
  /\ hashes' = [hashes EXCEPT ![p] = calculate_sha256(p)]
  /\ hashed' = hashed \cup {p}
  /\ UNCHANGED <<files, database, locals, baselining>>

BaselineStore ==
  /\ baselining /\ hashed = Paths
  /\ file_baselines' = [p \in Paths |-> IF p \in Hashed THEN hashes[p] ELSE file_baselines[p]]
  /\ fim_directories' = Roots
  /\ accepted' = accepted \cup {<<p, hashes[p]>> : p \in Hashed}
  /\ touched' = [c \in Checkers |-> Paths]
  /\ baselining' = FALSE /\ hashed' = {}
  /\ hashes' = [p \in Paths |-> NoDigest]
  /\ UNCHANGED <<files, fim_events, alerts, pc, todo, roots, known, event, handled>>

-----------------------------------------------------------------------------
(* check_integrity, first half: every baseline against the disk.           *)

CheckBegin(c) ==
  /\ pc[c] = "idle"
  /\ pc' = [pc EXCEPT ![c] = "files"]
  /\ todo' = [todo EXCEPT ![c] = {<<p, file_baselines[p]>> : p \in Baselined}]
  /\ touched' = [touched EXCEPT ![c] = {}]
  /\ handled' = [handled EXCEPT ![c] = {}]
  /\ UNCHANGED <<files, database, roots, known, event, operator>>

(* MUTANT: a file that cannot be hashed is taken to be unchanged. *)
UnchangedOrGone(c, p, stored) ==
  /\ pc[c] = "files" /\ <<p, stored>> \in todo[c]
  /\ calculate_sha256(p) \in {stored, NoDigest}
  /\ todo' = [todo EXCEPT ![c] = @ \ {<<p, stored>>}]
  /\ UNCHANGED <<files, database, pc, roots, known, event, touched, handled, operator>>

Unchanged(c, p, stored) ==
  /\ pc[c] = "files" /\ <<p, stored>> \in todo[c]
  /\ calculate_sha256(p) = stored
  /\ todo' = [todo EXCEPT ![c] = @ \ {<<p, stored>>}]
  /\ UNCHANGED <<files, database, pc, roots, known, event, touched, handled, operator>>

Breach(c, p, stored) ==
  /\ pc[c] = "files" /\ <<p, stored>> \in todo[c]
  /\ calculate_sha256(p) # stored
  /\ event' = [event EXCEPT ![c] =
       [path |-> p, digest |-> NoDigest, loud |-> TRUE,
        kind |-> IF calculate_sha256(p) = NoDigest THEN "DELETED" ELSE "MODIFIED"]]
  /\ todo' = [todo EXCEPT ![c] = @ \ {<<p, stored>>}]
  /\ pc' = [pc EXCEPT ![c] = "dispatch"]
  /\ UNCHANGED <<files, database, roots, known, touched, handled, operator>>

(* A row of fim_events and one of audit_events, in one transaction. *)
_persist_fim_event(c) ==
  /\ Cardinality(fim_events) < MaxEvents
  /\ fim_events' = fim_events \cup
       {[n |-> Cardinality(fim_events) + 1, path |-> event[c].path, kind |-> event[c].kind,
         digest |-> event[c].digest, loud |-> event[c].loud, by |-> c]}

Dispatch(c) ==
  /\ pc[c] = "dispatch"
  /\ _persist_fim_event(c)
  /\ pc' = [pc EXCEPT ![c] = "notify"]
  /\ UNCHANGED <<files, file_baselines, fim_directories, alerts, accepted,
                 todo, roots, known, event, touched, handled, operator>>

(* The loop that found the event goes on. *)
Resume(c) ==
  /\ pc' = [pc EXCEPT ![c] = IF event[c].kind = "CREATED" THEN "list" ELSE "files"]
  /\ event' = [event EXCEPT ![c] = NoEvent]

(* MUTANT: the baseline is kept though its event was not. *)
PersistFailsFolds(c) ==
  /\ pc[c] \in {"dispatch", "create"}
  /\ handled' = [handled EXCEPT ![c] = @ \cup {event[c].path}]
  /\ file_baselines' = [file_baselines EXCEPT ![event[c].path] =
       IF event[c].digest = NoDigest THEN @ ELSE event[c].digest]
  /\ Resume(c)
  /\ UNCHANGED <<files, fim_directories, fim_events, alerts, accepted,
                 todo, roots, known, touched, operator>>

(* The transaction raised: rolled back, logged, and the loop goes on. *)
PersistFails(c) ==
  /\ pc[c] \in {"dispatch", "create"}
  /\ handled' = [handled EXCEPT ![c] = @ \cup {event[c].path}]
  /\ Resume(c)
  /\ UNCHANGED <<files, database, todo, roots, known, touched, operator>>

(* _notify: a CRITICAL event, the one this check persisted last. *)
Notify(c) ==
  /\ pc[c] = "notify"
  /\ alerts' = alerts \cup
       {e \in fim_events : e.loud /\ e.by = c /\ \A f \in fim_events : f.by = c => f.n <= e.n}
  /\ handled' = [handled EXCEPT ![c] = @ \cup {event[c].path}]
  /\ Resume(c)
  /\ UNCHANGED <<files, file_baselines, fim_directories, fim_events, accepted,
                 todo, roots, known, touched, operator>>

-----------------------------------------------------------------------------
(* Second half, _check_directories_for_created: todo now holds the paths a *)
(* listing showed, each with NoDigest.                                     *)

ReadKnown(c) ==
  /\ pc[c] = "files" /\ todo[c] = {}
  /\ pc' = [pc EXCEPT ![c] = "list"]
  /\ roots' = [roots EXCEPT ![c] = fim_directories]
  /\ known' = [known EXCEPT ![c] = Baselined]
  /\ UNCHANGED <<files, database, todo, event, touched, handled, operator>>

List(c, r) ==
  /\ pc[c] = "list" /\ todo[c] = {} /\ r \in roots[c]
  /\ roots' = [roots EXCEPT ![c] = @ \ {r}]
  /\ todo' = [todo EXCEPT ![c] = {<<p, r>> : p \in {q \in Under[r] : Exists(q)}}]
  /\ UNCHANGED <<files, database, pc, known, event, touched, handled, operator>>

Skip(c, p, r) ==
  /\ pc[c] = "list" /\ <<p, r>> \in todo[c]
  /\ p \in known[c]
  /\ todo' = [todo EXCEPT ![c] = @ \ {<<p, r>>}]
  /\ UNCHANGED <<files, database, pc, roots, known, event, touched, handled, operator>>

HashNew(c, p, r) ==
  /\ pc[c] = "list" /\ <<p, r>> \in todo[c]
  /\ p \notin known[c]
  /\ event' = [event EXCEPT ![c] =
       [path |-> p, kind |-> "CREATED", digest |-> calculate_sha256(p), loud |-> r \in LoudRoots]]
  /\ todo' = [todo EXCEPT ![c] = @ \ {<<p, r>>}]
  /\ pc' = [pc EXCEPT ![c] = "create"]
  /\ UNCHANGED <<files, database, roots, known, touched, handled, operator>>

(* Another check folded it in meanwhile. *)
CreateSkipped(c) ==
  /\ pc[c] = "create"
  /\ event[c].path \in Baselined
  /\ Resume(c)
  /\ UNCHANGED <<files, database, todo, roots, known, touched, handled, operator>>

(* MUTANT: trusts the baselines read when the directories were. *)
CreateUnchecked(c) ==
  /\ pc[c] = "create"
  /\ _persist_fim_event(c)
  /\ file_baselines' = [file_baselines EXCEPT ![event[c].path] = event[c].digest]
  /\ known' = [known EXCEPT ![c] = IF event[c].digest = NoDigest THEN @
                                  ELSE @ \cup {event[c].path}]
  /\ pc' = [pc EXCEPT ![c] = "notify"]
  /\ touched' = [d \in Checkers |-> IF d = c THEN touched[d]
                                    ELSE touched[d] \cup {event[c].path}]
  /\ UNCHANGED <<files, fim_directories, alerts, accepted, todo, roots, event,
                 handled, operator>>

(* The event and, for a file that could be read, its baseline. *)
Create(c) ==
  /\ pc[c] = "create"
  /\ event[c].path \notin Baselined
  /\ _persist_fim_event(c)
  /\ file_baselines' = [file_baselines EXCEPT ![event[c].path] = event[c].digest]
  /\ known' = [known EXCEPT ![c] = IF event[c].digest = NoDigest THEN @
                                  ELSE @ \cup {event[c].path}]
  /\ pc' = [pc EXCEPT ![c] = "notify"]
  /\ touched' = [d \in Checkers |-> IF d = c THEN touched[d]
                                    ELSE touched[d] \cup {event[c].path}]
  /\ UNCHANGED <<files, fim_directories, alerts, accepted, todo, roots, event,
                 handled, operator>>

CheckEnd(c) ==
  /\ pc[c] = "list" /\ todo[c] = {} /\ roots[c] = {}
  /\ pc' = [pc EXCEPT ![c] = "idle"]
  /\ known' = [known EXCEPT ![c] = {}]
  /\ touched' = [touched EXCEPT ![c] = {}]
  /\ handled' = [handled EXCEPT ![c] = {}]
  /\ UNCHANGED <<files, database, todo, roots, event, operator>>

(* The process dies between two steps. *)
Killed(c) ==
  /\ pc[c] # "idle"
  /\ pc' = [pc EXCEPT ![c] = "idle"]
  /\ todo' = [todo EXCEPT ![c] = {}] /\ roots' = [roots EXCEPT ![c] = {}]
  /\ known' = [known EXCEPT ![c] = {}] /\ event' = [event EXCEPT ![c] = NoEvent]
  /\ touched' = [touched EXCEPT ![c] = {}] /\ handled' = [handled EXCEPT ![c] = {}]
  /\ UNCHANGED <<files, database, operator>>

Check(c) ==
  \/ CheckBegin(c) \/ ReadKnown(c) \/ CheckEnd(c) \/ Killed(c)
  \/ Dispatch(c) \/ PersistFails(c) \/ Notify(c) \/ Create(c) \/ CreateSkipped(c)
  \/ \E p \in Paths, d \in Contents : Unchanged(c, p, d) \/ Breach(c, p, d)
  \/ \E r \in Roots : List(c, r) \/ \E p \in Paths : Skip(c, p, r) \/ HashNew(c, p, r)

Next ==
  \/ \E p \in Paths : \/ \E d \in Contents \cup {NoDigest} : Write(p, d)
                      \/ Chmod(p) \/ BaselineHash(p)
  \/ BaselineBegin \/ BaselineStore
  \/ \E c \in Checkers : Check(c)

Spec == Init /\ [][Next]_vars
=============================================================================
