--------------------------------- MODULE Demo ---------------------------------
(***************************************************************************)
(* The demonstration (demo/attack_chain.py) beside a running system: it    *)
(* imports an attack chain, tampers with a directory it watches itself,    *)
(* has the integrity monitor find the damage and sweeps, on the tables     *)
(* that the correlator service sweeps and another integrity check writes   *)
(* to at the same time.  It can be killed at any step, and run again.      *)
(*                                                                         *)
(* The rules and the sweeps are Correlation's, with their defaults, in     *)
(* ticks of 30 seconds; a check is coarser than in Fim, and like in Fim a  *)
(* file may refuse to be opened and an event to be stored.                 *)
(***************************************************************************)
EXTENDS Integers, FiniteSets

CONSTANTS
  None, host, Start,
  MaxRuns, MaxChecks, MaxTime,   (* bounds on runs, checks by cron, time   *)
  MaxFaults                      (* and on reads refused and events lost   *)

DemoAssumption ==
  /\ MaxRuns \in Nat /\ MaxChecks \in Nat /\ Start \in Nat /\ MaxTime \in Nat
  /\ MaxFaults \in Nat
  /\ Start >= 12 /\ None \notin {"original", "tampered", "planted"}

Attacker == "203.0.113.66"
Files == {"credentials.txt", "implant.bat"}
Six == {"brute_force_burst", "password_spray", "auth_success_after_failures",
        "recon_then_auth", "network_then_fim", "ioc_match"}

VARIABLES
  now, audit_events, logged, incidents, opened, pc, loaded_at, candidates, due, skipped,
  step,           (* of run_demo                                           *)
  run,            (* how many times it was started                         *)
  own_list,       (* the operator has set IOC_IP_LIST_PATH                 *)
  disk,           (* the files of protected_live: their content, or None   *)
  file_baselines,
  watched,        (* protected_live is in fim_directories                  *)
  found,          (* the rows of fim_events: path, type, run, number       *)
  before,         (* how many there were before the tampering              *)
  pending,        (* the events a check has still to write                 *)
  checks,         (* how far a check is, and how many there were           *)
  faults,         (* the reads refused and the transactions that failed    *)
  lost,           (* history: what this run's own baselining and check     *)
                  (* could not read or store, as <<path, type>>            *)
  summary         (* fim_events_created and incident_rules, or None        *)

correlation ==
  <<now, audit_events, logged, incidents, opened, pc, loaded_at, candidates, due, skipped>>
fim == <<file_baselines, watched, found, pending, checks, faults, lost>>
vars == <<correlation, step, run, own_list, disk, fim, before, summary>>

Engine(Indicators) == INSTANCE Correlation WITH
  Daemons <- {"correlator"}, Manual <- {"demo"}, Shapes <- {}, Fallible <- {},
  BruteForceThreshold <- 5, BruteForceWindow <- 10, SprayThreshold <- 5, SprayWindow <- 10,
  SuccessThreshold <- 5, SuccessWindow <- 20, ChainWindow <- 60, Lookback <- 120,
  Interval <- 2, Retention <- 86400, MaxLag <- 0, MaxPause <- 1, MaxSkips <- 0, MaxEvents <- 0
table == <<audit_events, logged>>
sweeps == <<incidents, opened, pc, loaded_at, candidates, due, skipped>>

Row(n, ts, name, category, entity, source) ==
  [id |-> Cardinality(logged) + n, ts |-> ts, name |-> name, category |-> category,
   critical |-> category # "auth", entity |-> entity, source |-> source, host |-> host]
Stored(rows) == audit_events' = audit_events \cup rows /\ logged' = logged \cup rows

SPRAY_USERS == <<"alice", "bob", "carol", "dave", "svc_backup">>
(* The scan at 0 s, five failures of admin from 60 s and one of each other *)
(* user from 210 s, every 30 s, and the login at 360 s: the base time.     *)
Failure(n, at, user) == Row(n, at, "AUTH_FAILURE", "auth", user, Attacker)
(* MUTANT: the login lands before the burst is over. *)
EarlyLogin(base) == Row(12, base - 7, "AUTH_SUCCESS", "auth", "admin", Attacker)
Login(base) == Row(12, base, "AUTH_SUCCESS", "auth", "admin", Attacker)
build_records(base) ==
  {Row(1, base - 12, "syn_scan", "network", Attacker, Attacker), Login(base)}
    \cup {Failure(1 + i, base - 11 + i, "admin") : i \in 1 .. 5}
    \cup {Failure(6 + i, base - 6 + i, SPRAY_USERS[i]) : i \in 1 .. 5}

Idle == [at |-> "idle", n |-> 0]
Init ==
  /\ now = Start
  /\ audit_events = {} /\ logged = {} /\ incidents = {} /\ opened = {}
  /\ pc = [s \in Engine({})!Sweepers |-> "idle"] /\ loaded_at = [s \in Engine({})!Sweepers |-> 0]
  /\ candidates = [s \in Engine({})!Sweepers |-> {}]
  /\ due = [s \in Engine({})!Sweepers |-> Start] /\ skipped = [s \in Engine({})!Sweepers |-> 0]
  /\ step = "done" /\ run = 0 /\ own_list \in BOOLEAN
  /\ disk = [f \in Files |-> None] /\ file_baselines = [f \in Files |-> None]
  /\ watched = FALSE /\ found = {} /\ before = 0
  /\ pending = [c \in {"demo", "cron"} |-> {}]
  /\ checks = [c \in {"demo", "cron"} |-> Idle]
  /\ faults = 0 /\ lost = {}
  /\ summary = None

-------------------------------------------------------------------------------
(* Files may refuse to be opened (a lock, a permission) at any reading: a  *)
(* digest is None then, as it is of a file that is not there.              *)

Digest(f, refused) == IF f \in refused THEN None ELSE disk[f]
Refusals == {refused \in SUBSET {f \in Files : disk[f] # None} :
               faults + Cardinality(refused) <= MaxFaults}
Refused(by, refused) ==
  /\ faults' = faults + Cardinality(refused)
  /\ lost' = IF by = "demo" THEN lost \cup {<<f, "MODIFIED">> : f \in refused} ELSE lost

(* An integrity check of c, the demo's or another: what differs from its   *)
(* baseline first, then what is new in a watched directory.                *)

Compare(c) == \E refused \in Refusals :
  /\ pending' = [pending EXCEPT ![c] =
       {[path |-> f, digest |-> None,
         type |-> IF Digest(f, refused) = None THEN "DELETED" ELSE "MODIFIED"] :
          f \in {f \in Files : file_baselines[f] \notin {None, Digest(f, refused)}}}]
  /\ checks' = [checks EXCEPT ![c] = [at |-> "compared", n |-> @.n + 1]]
  /\ Refused(c, refused)
  /\ UNCHANGED <<file_baselines, watched, found>>
(* The event of a new file that cannot be read is told without its digest. *)
List(c) == \E refused \in Refusals :
  /\ checks[c].at = "compared" /\ pending[c] = {}
  /\ pending' = [pending EXCEPT ![c] =
       {[path |-> f, digest |-> Digest(f, refused), type |-> "CREATED"] :
          f \in {f \in Files : watched /\ disk[f] # None /\ file_baselines[f] = None}}]
  /\ checks' = [checks EXCEPT ![c].at = "listed"]
  /\ faults' = faults + Cardinality(refused)
  /\ UNCHANGED <<table, file_baselines, watched, found, lost>>
(* The rows of the event, and the baseline of a new file that was read,    *)
(* unless another check has stored it.                                     *)
Persist(c, e) ==
  /\ e \in pending[c]
  /\ pending' = [pending EXCEPT ![c] = @ \ {e}]
  /\ IF e.type = "CREATED" /\ file_baselines[e.path] # None
       THEN UNCHANGED <<table, file_baselines, found>>
       ELSE /\ Stored({Row(1, now, "FIM", "fim", e.path, None)})
            /\ found' = found \cup {[path |-> e.path, type |-> e.type, run |-> run,
                                     n |-> Cardinality(found) + 1]}
            /\ file_baselines' = IF e.type = "CREATED"
                                   THEN [file_baselines EXCEPT ![e.path] = e.digest]
                                   ELSE file_baselines
  /\ UNCHANGED <<watched, checks, faults, lost>>
(* The transaction raised: rolled back and logged, and the check goes on.  *)
PersistFails(c, e) ==
  /\ e \in pending[c] /\ faults < MaxFaults
  /\ pending' = [pending EXCEPT ![c] = @ \ {e}]
  /\ faults' = faults + 1
  /\ lost' = IF c = "demo" THEN lost \cup {<<e.path, e.type>>} ELSE lost
  /\ UNCHANGED <<table, file_baselines, watched, found, checks>>
Checked(c) ==
  /\ checks[c].at = "listed" /\ pending[c] = {}
  /\ checks' = [checks EXCEPT ![c].at = "idle"]
  /\ UNCHANGED <<table, file_baselines, watched, found, pending, faults, lost>>
Proceed(c) ==
  List(c) \/ (\E e \in pending[c] : Persist(c, e) \/ PersistFails(c, e)) \/ Checked(c)

OtherCheck ==
  /\ \/ checks["cron"].at = "idle" /\ checks["cron"].n < MaxChecks
        /\ Compare("cron") /\ UNCHANGED table
     \/ Proceed("cron")
  /\ UNCHANGED <<now, sweeps, step, run, own_list, disk, before, summary>>

-------------------------------------------------------------------------------
(* run_demo, step by step. *)

Goto(from, to) == step = from /\ step' = to
scratch == <<disk, fim, before>>
OnTable(A) == A /\ UNCHANGED <<now, sweeps>>

Begin ==
  /\ step \in {"done", "killed"} /\ run < MaxRuns
  /\ step' = "import" /\ run' = run + 1 /\ summary' = None /\ lost' = {}
  /\ UNCHANGED <<correlation, own_list, disk, before,
                 file_baselines, watched, found, pending, checks, faults>>

(* insert_audit_records, in one transaction (EventImport). *)
Import ==
  /\ Goto("import", "clear")
  /\ OnTable(Stored(build_records(now)))
  /\ UNCHANGED <<run, own_list, scratch, summary>>

(* _reset_scratch_dir: what an earlier run left, file by file, then the    *)
(* copy.                                                                   *)
Unlink(f) ==
  /\ step = "clear" /\ disk[f] # None
  /\ disk' = [disk EXCEPT ![f] = None]
  /\ UNCHANGED <<correlation, step, run, own_list, fim, before, summary>>
Copy ==
  /\ Goto("clear", "forget") /\ \A f \in Files : disk[f] = None
  /\ disk' = [disk EXCEPT !["credentials.txt"] = "original"]
  /\ UNCHANGED <<correlation, run, own_list, fim, before, summary>>

(* MUTANT: the baselines of an earlier run stay. *)
ForgetNothing ==
  /\ Goto("forget", "baseline")
  /\ UNCHANGED <<correlation, run, own_list, scratch, summary>>
Forget ==
  /\ Goto("forget", "baseline")
  /\ file_baselines' = [f \in Files |-> None]
  /\ UNCHANGED <<correlation, run, own_list, disk, watched, found, pending, checks, faults, lost,
                 before, summary>>

(* initialize_baselines on the scratch directory: what can be read. *)
Baseline ==
  /\ Goto("baseline", "count")
  /\ \E refused \in Refusals :
       /\ file_baselines' = [f \in Files |-> IF Digest(f, refused) = None THEN file_baselines[f]
                                                                         ELSE disk[f]]
       /\ Refused("demo", refused)
  /\ watched' = TRUE
  /\ UNCHANGED <<correlation, run, own_list, disk, found, pending, checks, before, summary>>

Count ==
  /\ Goto("count", "tamper") /\ before' = Cardinality(found)
  /\ UNCHANGED <<correlation, run, own_list, disk, fim, summary>>
Tamper ==
  /\ Goto("tamper", "plant") /\ disk' = [disk EXCEPT !["credentials.txt"] = "tampered"]
  /\ UNCHANGED <<correlation, run, own_list, fim, before, summary>>
Plant ==
  /\ Goto("plant", "check") /\ disk' = [disk EXCEPT !["implant.bat"] = "planted"]
  /\ UNCHANGED <<correlation, run, own_list, fim, before, summary>>

(* check_integrity, and the second count. *)
Check ==
  /\ \/ Goto("check", "checking") /\ Compare("demo") /\ UNCHANGED table
     \/ Goto("checking", "checking") /\ Proceed("demo")
  /\ UNCHANGED <<now, sweeps, run, own_list, disk, before, summary>>
CountAgain ==
  /\ Goto("checking", "listed") /\ checks["demo"].at = "idle"
  /\ summary' = [fim |-> Cardinality(found) - before, rules |-> None]
  /\ UNCHANGED <<correlation, run, own_list, scratch>>

(* os.environ.setdefault: a list of the operator's stays the list. *)
Sweep ==
  /\ Goto("listed", "insert")
  /\ IF own_list THEN Engine({})!Load("demo", {}) ELSE Engine({Attacker})!Load("demo", {})
  /\ UNCHANGED <<run, own_list, scratch, summary>>
NoSweep ==
  /\ Goto("listed", "done")
  /\ UNCHANGED <<correlation, run, own_list, scratch, summary>>
Insert ==
  /\ Goto("insert", "report") /\ Engine({})!Insert("demo")
  /\ UNCHANGED <<run, own_list, scratch, summary>>
(* The rules of the incidents of the last 300 seconds. *)
Report ==
  /\ Goto("report", "done")
  /\ summary' = [summary EXCEPT !.rules = {i.key[1] : i \in {i \in incidents : i.created >= now - 10}}]
  /\ UNCHANGED <<correlation, run, own_list, scratch>>

(* The process is killed, or a step of it raises. *)
Kill ==
  /\ step \notin {"done", "killed"} /\ step' = "killed"
  /\ pc' = [pc EXCEPT !["demo"] = "idle"]
  /\ candidates' = [candidates EXCEPT !["demo"] = {}]
  /\ loaded_at' = [loaded_at EXCEPT !["demo"] = 0]
  /\ pending' = [pending EXCEPT !["demo"] = {}]
  /\ checks' = [checks EXCEPT !["demo"].at = "idle"]
  /\ UNCHANGED <<now, table, incidents, opened, due, skipped, run, own_list, disk,
                 file_baselines, watched, found, faults, lost, before, summary>>

(* The correlator service, whose environment has no list with the attacker *)
(* and whose sweeps that fail change nothing.                              *)
Correlator ==
  /\ Engine({})!Load("correlator", {}) \/ Engine({})!Insert("correlator")
  /\ UNCHANGED <<step, run, own_list, scratch, summary>>
Tick == Engine({})!Tick /\ UNCHANGED <<step, run, own_list, scratch, summary>>

Next ==
  \/ Begin \/ Import \/ (\E f \in Files : Unlink(f)) \/ Copy \/ Forget \/ Baseline \/ Count
  \/ Tamper \/ Plant \/ Check \/ CountAgain \/ Sweep \/ NoSweep \/ Insert \/ Report \/ Kill
  \/ Correlator \/ OtherCheck \/ Tick

Spec == Init /\ [][Next]_vars

-------------------------------------------------------------------------------
(* The two events the damage of a run is to leave. *)
Damage == {<<"credentials.txt", "MODIFIED">>, <<"implant.bat", "CREATED">>}

(* "Expected incidents after a sweep" (attack_chain.py:18-20): whatever    *)
(* the correlator and another check did meanwhile, a run that sweeps       *)
(* reports these six rules and no other, but for the watchlist's where the *)
(* operator has a list, and that of the files where the run could read or  *)
(* store nothing of its damage; and a sweep after it finds nothing new,    *)
(* unless it is of damage this run did not tell and a later check did.     *)
ShowsTheChain ==
  step = "done" /\ summary # None /\ summary.rules # None =>
    LET Expected == Six \ (IF own_list THEN {"ioc_match"} ELSE {})
    IN  /\ summary.rules \subseteq Expected
        /\ Expected \ summary.rules \subseteq
             (IF Damage \subseteq lost THEN {"network_then_fim"} ELSE {})
        /\ \A rule \in summary.rules \ (IF lost = {} THEN {} ELSE {"network_then_fim"}) :
             \A c \in Engine({Attacker})!RunRule(rule, audit_events) : \E i \in incidents : i.key = c.key

(* The damage a run does is found by a real check: a run that ends has its *)
(* changed file and its planted file in fim_events, after any number of    *)
(* runs before it, killed ones included, and beside checks that fail; but  *)
(* for the one its own baselining or check could not open (MODIFIED), and  *)
(* what it could not store: those failures are logged and it goes on.      *)
DamageIsFound ==
  step = "done" /\ summary # None =>
    \A d \in Damage \ lost : \E e \in found : e.run = run /\ <<e.path, e.type>> = d
===============================================================================
