-------------------------------- MODULE Startup --------------------------------
(***************************************************************************)
(* How the dashboard comes up: the diagnostics of the environment          *)
(* (dashboard/diagnostics.py), the two launchers they gate, python -m      *)
(* dashboard (dashboard/__main__.py) and the starter of python -m ids run  *)
(* (ids/services.py), and what they do not see of the application factory  *)
(* (dashboard/__init__.py, auth/crypto.py).  A setting is a member of a    *)
(* set of spellings the code tells apart; "" is what is set to nothing,    *)
(* and what is not set where the code treats both alike.                   *)
(***************************************************************************)
EXTENDS FiniteSets

Settings ==
  [FLASK_SECRET_KEY : {"", "placeholder", "short", "long"},
   MFA_ENCRYPTION_KEY : {"", "placeholder", "malformed", "valid"},
   DB_PATH : {"writable", "read-only", "no directory"},
   FLASK_ENV : {"development", "production", "Production ", "staging"},
   MFA_BACKOFF_MODE : {"unset", "", "sleep", "reject", "other"},
   malformed : SUBSET {"DASHBOARD_PORT", "MAX_CONTENT_LENGTH_BYTES"},  (* no numbers *)
   waitress : BOOLEAN]                                                 (* installed  *)
Launchers ==
  [by : {"dashboard"}, production : BOOLEAN, check : BOOLEAN, server : {"auto", "waitress", "flask"}]
    \cup [by : {"ids"}, production : BOOLEAN, check : {FALSE}, server : {"auto"}]

VARIABLES
  env,       (* os.environ                                                 *)
  launcher,  (* who starts it, with which arguments                        *)
  pc,        (* "parse", "diagnose", "create", "serve" or how it ended:    *)
             (* "checked", "refused", "raised", "served", "no server"      *)
  report,    (* the status of every check made                             *)
  app        (* what create_app configured: [secure, blocking]             *)

vars == <<env, launcher, pc, report, app>>

Init ==
  /\ env \in Settings /\ launcher \in Launchers
  /\ pc = "parse" /\ report = <<>> /\ app = <<>>

(* strip().lower() *)
Production == env.FLASK_ENV \in {"production", "Production "}

FlaskSecret(production) ==
  CASE env.FLASK_SECRET_KEY \in {"", "placeholder"} -> "FAIL"
    [] env.FLASK_SECRET_KEY = "short" -> "WARN" [] OTHER -> "OK"
(* MUTANT: the key is not tried. *)
MfaKeyPresent(production) ==
  IF env.MFA_ENCRYPTION_KEY \in {"", "placeholder"} THEN "FAIL" ELSE "OK"
MfaKey(production) == IF env.MFA_ENCRYPTION_KEY = "valid" THEN "OK" ELSE "FAIL"
DbPath(production) ==
  CASE env.DB_PATH = "read-only" -> "FAIL" [] env.DB_PATH = "no directory" -> "WARN"
    [] OTHER -> "OK"
FlaskEnv(production) ==
  IF env.FLASK_ENV = "staging" \/ (env.FLASK_ENV = "development" /\ production) THEN "WARN" ELSE "OK"
ProductionServer(production) == IF production /\ ~env.waitress THEN "FAIL" ELSE "OK"
(* Only "sleep" is known to hold logins up; auth/core.py sleeps on all but *)
(* "reject".                                                               *)
BackoffMode(production) == IF env.MFA_BACKOFF_MODE = "sleep" THEN "WARN" ELSE "OK"

run_diagnostics(production) ==
  [FLASK_SECRET_KEY |-> FlaskSecret(production), MFA_ENCRYPTION_KEY |-> MfaKey(production),
   DB_PATH |-> DbPath(production), FLASK_ENV |-> FlaskEnv(production),
   server |-> ProductionServer(production), MFA_BACKOFF_MODE |-> BackoffMode(production)]
Ready == \A check \in DOMAIN report : report[check] # "FAIL"

Goto(l) == pc' = l /\ UNCHANGED launcher
Raises(malformed) == malformed \cap env.malformed # {}

(* The default of --port is converted whether or not it is given; then     *)
(* --production is written to the environment.                             *)
Parse ==
  /\ pc = "parse"
  /\ IF launcher.by = "dashboard" /\ Raises({"DASHBOARD_PORT"})
       THEN Goto("raised") /\ UNCHANGED env
       ELSE Goto("diagnose") /\ env' = IF launcher.production
                                         THEN [env EXCEPT !.FLASK_ENV = "production"] ELSE env
  /\ UNCHANGED <<report, app>>

Diagnose ==
  /\ pc = "diagnose"
  /\ report' = run_diagnostics(Production)
  /\ Goto(IF launcher.check THEN "checked" ELSE IF Ready' THEN "create" ELSE "refused")
  /\ UNCHANGED <<env, app>>

(* create_app, and the import of auth.crypto under it; the starter of ids  *)
(* converts the port after it.  setdefault leaves what is set to nothing.  *)
Create ==
  LET port == IF launcher.by = "ids" THEN {"DASHBOARD_PORT"} ELSE {} IN
  /\ pc = "create"
  /\ env' = [env EXCEPT !.MFA_BACKOFF_MODE = IF @ = "unset" THEN "reject" ELSE @]
  /\ IF \/ env.FLASK_SECRET_KEY = "" \/ env.MFA_ENCRYPTION_KEY # "valid"
        \/ Raises({"MAX_CONTENT_LENGTH_BYTES"} \cup port)
       THEN Goto("raised") /\ UNCHANGED app
       ELSE /\ Goto("serve")
            /\ app' = [secure |-> env.FLASK_ENV = "production",
                       blocking |-> env'.MFA_BACKOFF_MODE # "reject"]
  /\ UNCHANGED report

(* _resolve_server and the import of waitress; in the thread of ids a      *)
(* failure is a warning.                                                   *)
Waitress == launcher.server = "waitress" \/ (launcher.server = "auto" /\ Production)
Serve ==
  /\ pc = "serve"
  /\ Goto(IF Waitress /\ ~env.waitress THEN "no server" ELSE "served")
  /\ UNCHANGED <<env, report, app>>

Next == Parse \/ Diagnose \/ Create \/ Serve
Spec == Init /\ [][Next]_vars

--------------------------------------------------------------------------------
TypeOK ==
  /\ env \in Settings /\ launcher \in Launchers
  /\ pc \in {"parse", "diagnose", "create", "serve",
             "checked", "refused", "raised", "served", "no server"}
  /\ pc = "refused" => ~Ready

(* A misconfiguration "is reported clearly and aborts before the socket    *)
(* opens" (dashboard/__main__.py:9), but for three: a setting that is no   *)
(* number raises although the report says READY, a FLASK_ENV spelt         *)
(* otherwise is production to the report and the launchers only, and a     *)
(* MFA_BACKOFF_MODE that is set to nothing or misspelt holds logins up     *)
(* unreported.  Else what is served in production has its cookies secured, *)
(* a login is held up only where the report warns of it, and a server is   *)
(* missing only where a development set-up was told to use it.             *)
ReadyMeansStarts ==
  /\ pc = "raised" => env.malformed # {}
  /\ pc = "no server" => launcher.server = "waitress" /\ ~Production
  /\ pc = "served" =>
       /\ Ready /\ ~launcher.check
       /\ Production => app.secure \/ env.FLASK_ENV = "Production "
       /\ app.blocking =>
            report.MFA_BACKOFF_MODE = "WARN" \/ env.MFA_BACKOFF_MODE \in {"", "other"}

(* "Each starter returns a running threading.Thread on success or None     *)
(* when the component cannot start safely" (ids/services.py:3).            *)
StartersReturn == launcher.by = "ids" => pc # "raised"
================================================================================
