---------------------------- MODULE Normalization ----------------------------
(***************************************************************************)
(* The way of an event into the correlator: it is dispatched, as a row of  *)
(* audit_events whose message is made for readers (auth/core.py,           *)
(* network/dispatch.py, fim/monitor.py), and detection/normalize.py finds  *)
(* its name and entity in that row again.  Beside the rows of events are   *)
(* those of log lines.                                                     *)
(*                                                                         *)
(* A message is the set of phrases it has, those of the names in it        *)
(* included, and who it says it is about.  What searches find in the text  *)
(* of a name are constants.                                                *)
(***************************************************************************)
EXTENDS FiniteSets

CONSTANTS
  Users, Paths, Sources, (* usernames, file paths, addresses               *)
  OneWord,               (* usernames and paths with no space, no quote    *)
                         (* and no full stop at the end, as _USERNAME_RE   *)
                         (* of dashboard/routes.py has them                *)
  Says,                  (* the phrases a username or path has in itself   *)
  Quoted,                (* of a username what "user '([^']+)'" finds, the *)
                         (* text before its first quote, or None           *)
  Dotted,                (* of an address what _IP_RE finds: itself, or of *)
                         (* an IPv6 one None or what else is in the text   *)
  Word,                  (* Word[p][t][m]: the first word behind the first *)
                         (* m in the message of the path p and the type t, *)
                         (* its last full stops stripped; None for no word *)
  host, None

(* What is looked for and has a space in it, so is in no single word. *)
Sentences == {"authenticated successfully", "Replay attack", "Rate limited",
              "Authentication failed", "new file created", "integrity breach"}
Markers == {"directory: ", "file ", " in "}
(* The marker that a message has before its path. *)
Own == [MODIFIED |-> " in ", DELETED |-> "file ", CREATED |-> "directory: "]

NormalizationAssumption ==
  /\ None \notin Users \cup Paths \cup Sources
  /\ \A x \in OneWord : Says[x] \cap (Sentences \cup Markers) = {}
  /\ \A u \in Users \cap OneWord : Quoted[u] = u
  /\ \A p \in Paths \cap OneWord, t \in DOMAIN Own : Word[p][t][Own[t]] = p

(* The auth events: name, level, reason_code.                              *)
AuthKinds ==
  {<<"AUTH_FAILURE", "WARNING", r>> : r \in {"USER_NOT_FOUND", "USER_REVOKED", "INVALID_TOTP"}}
  \cup {<<"RATE_LIMITED", "WARNING", "RATE_LIMITED">>,
        <<"REPLAY_ATTACK", "CRITICAL", "TOKEN_REUSED_WINDOW">>,
        <<"AUTH_SUCCESS", "INFO", "VALID_RECOVERY_CODE">>,
        <<"CRYPTO_ERROR", "CRITICAL", "fernet_invalid_token">>,
        <<"SYSTEM_ERROR", "ERROR", "unknown_crypto_error">>,
        <<"USER_REVOKED", "WARNING", "USER_REVOKED">>,
        <<"ROLE_CHANGED", "INFO", "ROLE_CHANGED">>}
Detectors == {"syn_scan", "icmp_sweep", "dns_ioc_query", "arp_spoofing"}
NoneAssumption ==
  None \notin {"MODIFIED", "DELETED", "CREATED", "RATE_LIMITED"} \cup Detectors

Event(category, name, level, reason, entity, source) ==
  [category |-> category, name |-> name, level |-> level, reason |-> reason,
   entity |-> entity, source |-> source]
Events ==
  {Event("auth", k[1], k[2], k[3], u, s) : k \in AuthKinds, u \in Users, s \in Sources \cup {None}}
  \cup {Event("network", d, IF d = "icmp_sweep" THEN "WARNING" ELSE "CRITICAL", None, s, s) :
          d \in Detectors, s \in Sources}
  \cup {Event("fim", t, l, None, p, None) :
          t \in {"MODIFIED", "DELETED", "CREATED"}, l \in {"WARNING", "CRITICAL"}, p \in Paths}
(* What the same modules log about themselves. *)
Lines ==
  {Event("line", m, l, None, p, None) :
     m \in {"fim_monitor", "detection_engine"}, l \in {"INFO", "ERROR"}, p \in Paths}
  \cup {Event("line", "network_sensor", l, None, s, None) : l \in {"INFO", "ERROR"}, s \in Sources}

VARIABLES
  event, (* the event that was dispatched, or the line that was logged     *)
  row    (* its row in audit_events                                        *)

vars == <<event, row>>

Phrases(e) ==
  CASE e.name = "AUTH_FAILURE" -> {"Authentication failed", "user"}
    [] e.name = "RATE_LIMITED" -> {"rate limited", "user"}
    [] e.name = "REPLAY_ATTACK" -> {"Replay attack", "user"}
    [] e.name = "AUTH_SUCCESS" -> {"authenticated successfully", "User"}
    [] e.name = "USER_REVOKED" -> {"revoked", "User"}
    [] e.name \in {"CRYPTO_ERROR", "SYSTEM_ERROR", "ROLE_CHANGED"} -> {"user"}
    [] e.name \in Detectors -> {"DetectionEvent"}
    [] e.name = "MODIFIED" -> {"integrity breach", " in "}
    [] e.name = "DELETED" -> {"deleted", "file "}
    [] e.name = "CREATED" -> {"new file created"} \cup Markers
    [] OTHER -> {}

NoContext == [reason |-> None, detector |-> None, source |-> None, type |-> None,
              path |-> None, host |-> None]
Context(e) ==
  CASE e.category = "auth" -> [NoContext EXCEPT !.reason = e.reason, !.source = e.source, !.host = host]
    [] e.category = "network" -> [NoContext EXCEPT !.detector = e.name, !.source = e.source, !.host = host]
    [] e.category = "fim" -> [NoContext EXCEPT !.type = e.name, !.path = e.entity, !.host = host]
    [] OTHER -> NoContext
Module(e) ==
  CASE e.category = "auth" -> "auth_core" [] e.category = "network" -> "network_sensor"
    [] e.category = "fim" -> "fim_monitor" [] OTHER -> e.name

Row(e, context) ==
  [module |-> Module(e), level |-> e.level, context |-> context,
   says |-> Phrases(e) \cup (IF Module(e) = "network_sensor" THEN {} ELSE Says[e.entity]),
   subject |-> e.entity, type |-> e.name, detector |-> IF e.category = "network" THEN e.name ELSE None]

-------------------------------------------------------------------------------
(* detection/normalize.py *)

FIM == [MODIFIED |-> "FIM_MODIFIED", DELETED |-> "FIM_DELETED", CREATED |-> "FIM_CREATED"]
Normalized(category, name, entity, level, source, from) ==
  [category |-> category, name |-> name, entity |-> entity, level |-> level,
   source |-> source, host |-> from]

Or(value, fallback) == IF value = None THEN fallback ELSE value

(* MUTANT: the word "user" is looked for in lower case only. *)
UserCaseSensitive(r) == IF "user" \in r.says THEN Quoted[r.subject] ELSE None
User(r) == IF r.says \cap {"user", "User"} # {} THEN Quoted[r.subject] ELSE None

(* from_auth_event, which reads the message too, from_detection_event and  *)
(* from_fim_event                                                          *)
FromEvent(e) ==
  Normalized(e.category, IF e.category = "fim" THEN FIM[e.name] ELSE e.name,
             IF e.category = "auth" THEN User(Row(e, Context(e))) ELSE e.entity,
             e.level, e.source, host)

AuthName(r) ==
  CASE "authenticated successfully" \in r.says -> "AUTH_SUCCESS"
    [] "Replay attack" \in r.says -> "REPLAY_ATTACK"
    [] r.context.reason = "RATE_LIMITED" \/ "Rate limited" \in r.says -> "RATE_LIMITED"
    [] OTHER -> IF "Authentication failed" \in r.says THEN "AUTH_FAILURE"
                ELSE IF "revoked" \in r.says THEN "USER_REVOKED" ELSE "AUTH_EVENT"

FimName(r) ==
  IF r.context.type # None THEN FIM[r.context.type]
  ELSE IF "new file created" \in r.says THEN "FIM_CREATED"
  ELSE IF "deleted" \in r.says THEN "FIM_DELETED"
  ELSE IF r.says \cap {"integrity breach", "modified"} # {} THEN "FIM_MODIFIED" ELSE "FIM_EVENT"
After(r, m) == IF m \in r.says THEN Word[r.subject][r.type][m] ELSE None
(* MUTANT: the markers are tried from the shortest on. *)
FimEntityShortest(r) ==
  IF r.context.type # None THEN r.context.path
  ELSE Or(After(r, " in "), Or(After(r, "file "), After(r, "directory: ")))
(* The first marker in the message with a word behind it. *)
FimEntity(r) ==
  IF r.context.type # None THEN r.context.path
  ELSE Or(After(r, "directory: "), Or(After(r, "file "), After(r, " in ")))

(* MUTANT: every row is taken to be of this host. *)
HostOfEvery(r) == host
HostOf(r) == r.context.host

_classify_audit_row(r) ==
  CASE r.module = "network_sensor" ->
         <<"network", Or(r.context.detector, Or(r.detector, "network_event")),
           Or(r.context.source, Dotted[r.subject])>>
    [] r.module = "auth_core" -> <<"auth", AuthName(r), User(r)>>
    [] r.module = "fim_monitor" -> <<"fim", FimName(r), FimEntity(r)>>
    [] OTHER -> <<"system", "SYSTEM_EVENT", None>>
from_audit_row(r) ==
  LET c == _classify_audit_row(r) IN
  Normalized(c[1], c[2], c[3], r.level, r.context.source, HostOf(r))

-------------------------------------------------------------------------------
Init == \E e \in Events : event = e /\ row = Row(e, Context(e))

(* What is dispatched or logged next. *)
Dispatched(e) == event' = e /\ row' = Row(e, Context(e))
(* A log line has no context; nor have old rows of events, nor those whose *)
(* context is no JSON.                                                     *)
Logged(e) == event' = e /\ row' = Row(e, NoContext)

Next ==
  \/ \E e \in Events : Dispatched(e)
  \/ \E e \in Events \cup Lines : Logged(e)
Spec == Init /\ [][Next]_vars
-------------------------------------------------------------------------------
TypeOK == event \in Events \cup Lines /\ row.context.host \in {host, None}

(* What the rules of Correlation tell apart of a row. *)
ByName == {"AUTH_FAILURE", "RATE_LIMITED", "AUTH_SUCCESS", "REPLAY_ATTACK",
           "syn_scan", "icmp_sweep", "arp_spoofing"}
Chained(n) == n.host # None /\ (n.category = "fim" \/ (n.category = "network" /\ n.level = "CRITICAL"))
Seen(n) == [n EXCEPT !.name = IF n.name \in ByName THEN n.name ELSE "other"]

HasContext == row.context # NoContext
(* Of a row with context a path and an address are read there. *)
ReadWhole(e) ==
  CASE e.category = "network" -> HasContext \/ Dotted[e.entity] = e.entity
    [] e.category = "fim" -> HasContext \/ e.entity \in OneWord
    [] OTHER -> e.entity \in OneWord

(* The rules see in a row what the event was: its category, severity,      *)
(* source and host, who it is about, and its name if a rule looks for it.  *)
(* A row without its context keeps category, entity and, but for           *)
(* RATE_LIMITED, that name.  What a name has in itself can mislead in two  *)
(* ways only: the entity is cut, as the same normalizer cuts the event's,  *)
(* where it has a quote, or without context a space; and an auth event has *)
(* another name where the username has one of the sentences looked for,    *)
(* as none has that the login form accepts.                                *)
RowsTellTheEvent ==
  event.category # "line" =>
    LET n == from_audit_row(row)
        m == FromEvent(event)
    IN  /\ n.category = m.category
        /\ HasContext => [n EXCEPT !.name = m.name] = m
        /\ ReadWhole(event) => n.entity = event.entity
        /\ (event.category = "auth" =>
              /\ Says[event.entity] \cap Sentences = {}
              /\ HasContext \/ m.name # "RATE_LIMITED") => Seen(n).name = Seen(m).name

(* The name of a file event is its type, read in context or in the message *)
(* of a path that does not say itself "deleted" or "new file created".     *)
FilesAreNamed ==
  /\ event.category = "fim"
  /\ HasContext \/ Says[event.entity] \cap {"deleted", "new file created"} = {}
  => from_audit_row(row).name = FIM[event.name]

(* A log line is no event to any rule but ioc_match, which takes every row *)
(* of a listed address: no name a rule looks for and no part of a chain,   *)
(* though "Access error on" a path may read like one.                      *)
LinesAreNoEvents ==
  event.category = "line" => LET n == from_audit_row(row) IN n.name \notin ByName /\ ~Chained(n)
===============================================================================
