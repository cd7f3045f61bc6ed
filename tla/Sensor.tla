-------------------------------- MODULE Sensor --------------------------------
(***************************************************************************)
(* The sniffer's callback (network/sensor.py): a packet goes to every      *)
(* detector in turn; an event is looked up in the sensor's deduplicator,   *)
(* persisted (network/dispatch.py, logs/logger.py) and then mailed         *)
(* (alerts/email_alert.py) unless the throttle holds it back or SMTP       *)
(* fails.  The process may be killed between any two steps; its tables     *)
(* die with it.  What the detectors see in a packet is left open here:     *)
(* their windows are other modules.                                        *)
(***************************************************************************)
EXTENDS DedupTable

CONSTANTS
  Detectors,     (* how many there are: 4                                  *)
  Entities,      (* the hosts they name                                    *)
  Details,       (* the counts in their messages                           *)
  DedupWindow,   (* EVENT_DEDUP_WINDOW_SECONDS, 0 for off                  *)
  AlertWindow,   (* ALERT_DEDUP_WINDOW_SECONDS, 0 for off                  *)
  None,          (* no event                                               *)
  MaxEvents,     (* bound on the events raised                             *)
  MaxTime        (* bound on the clock                                     *)

SensorAssumption ==
  /\ Detectors \in Nat \ {0}
  /\ DedupWindow \in Nat /\ AlertWindow \in Nat
  /\ MaxEvents \in Nat /\ MaxTime \in Nat

Times == 0 .. MaxTime
Events == [id : 1 .. MaxEvents, detector : 1 .. Detectors, entity : Entities, detail : Details]
NoneAssumption == None \notin Events
(* audit_events, else the fail-safe file or, last, standard error.         *)
Stores == {"row", "line"}

VARIABLES
  now,       (* time.monotonic()                                           *)
  pc,        (* "idle", "detect", "dedup", "log", "throttle", "send"       *)
  detector,  (* the detector whose turn it is                              *)
  event,     (* its event                                                  *)
  dedup,     (* the sensor's table                                         *)
  throttle,  (* the table of the alert module                              *)
  raised,    (* how many events the detectors raised                       *)
  stores,    (* the events each store holds                                *)
  mailbox,   (* the events mailed                                          *)
  fresh,     (* history: <<event, time>> found no duplicate                *)
  silenced,  (* history: <<event, time>> dropped as a duplicate            *)
  paged      (* history: <<event, time>> the throttle of this run let pass *)

process == <<pc, detector, event, dedup, throttle>>
outside == <<raised, stores, mailbox>>
history == <<fresh, silenced, paged>>
vars == <<now, process, outside, history>>

Init ==
  /\ now = 0
  /\ pc = "idle" /\ detector = 1 /\ event = None
  /\ dedup = {} /\ throttle = {}
  /\ raised = 0 /\ stores = [s \in Stores |-> {}] /\ mailbox = {}
  /\ fresh = {} /\ silenced = {} /\ paged = {}

Tick ==
  /\ now < MaxTime
  /\ now' = now + 1
  /\ UNCHANGED <<process, outside, history>>

Sniff ==
  /\ pc = "idle"
  /\ pc' = "detect"
  /\ UNCHANGED <<now, detector, event, dedup, throttle, outside, history>>

(* On to the next detector, or to the next packet. *)
Continue ==
  /\ event' = None
  /\ detector' = IF detector < Detectors THEN detector + 1 ELSE 1
  /\ pc' = IF detector < Detectors THEN "detect" ELSE "idle"

(* No event; or an exception, which is logged and ends there. *)
NothingDetected ==
  /\ pc = "detect"
  /\ Continue
  /\ UNCHANGED <<now, dedup, throttle, outside, history>>

Detect(entity, detail) ==
  /\ pc = "detect"
  /\ raised < MaxEvents
  /\ raised' = raised + 1
  /\ event' = [id |-> raised + 1, detector |-> detector, entity |-> entity, detail |-> detail]
  /\ pc' = IF DedupWindow > 0 THEN "dedup" ELSE "log"
  /\ UNCHANGED <<now, detector, dedup, throttle, stores, mailbox, history>>

Sighting(e) == [fp |-> <<e.detector, e.entity>>, ts |-> now]
AlertSighting(e) == [fp |-> <<e.detector, e.entity, e.detail>>, ts |-> now]

(* MUTANT: a duplicate prolongs the silence. *)
DuplicateSliding(table) ==
  /\ pc = "dedup"
  /\ Repeats(table, Sighting(event), DedupWindow)
  /\ dedup' = Registered(table, Sighting(event))
  /\ silenced' = silenced \cup {<<event, now>>}
  /\ Continue
  /\ UNCHANGED <<now, throttle, outside, fresh, paged>>

Duplicate(table) ==
  /\ pc = "dedup"
  /\ Repeats(table, Sighting(event), DedupWindow)
  /\ dedup' = table
  /\ silenced' = silenced \cup {<<event, now>>}
  /\ Continue
  /\ UNCHANGED <<now, throttle, outside, fresh, paged>>

NotDuplicate(table) ==
  /\ pc = "dedup"
  /\ ~Repeats(table, Sighting(event), DedupWindow)
  /\ dedup' = Registered(table, Sighting(event))
  /\ fresh' = fresh \cup {<<event, now>>}
  /\ pc' = "log"
  /\ UNCHANGED <<now, detector, event, throttle, outside, silenced, paged>>

(* log_detection, which never raises (logs/logger.py). *)
Log(store) ==
  /\ pc = "log"
  /\ stores' = [stores EXCEPT ![store] = @ \cup {event}]
  /\ pc' = "throttle"
  /\ UNCHANGED <<now, detector, event, dedup, throttle, raised, mailbox, history>>

Throttled(table) ==
  /\ pc = "throttle"
  /\ AlertWindow > 0 /\ Repeats(table, AlertSighting(event), AlertWindow)
  /\ throttle' = table
  /\ Continue
  /\ UNCHANGED <<now, dedup, outside, history>>

(* MUTANT: the throttle forgets what it let pass. *)
NotThrottledUnregistered(table) ==
  /\ pc = "throttle"
  /\ AlertWindow = 0 \/ ~Repeats(table, AlertSighting(event), AlertWindow)
  /\ throttle' = table
  /\ paged' = paged \cup {<<event, now>>}
  /\ pc' = "send"
  /\ UNCHANGED <<now, detector, event, dedup, outside, fresh, silenced>>

(* An alert is registered before it is known whether SMTP takes it. *)
NotThrottled(table) ==
  /\ pc = "throttle"
  /\ AlertWindow = 0 \/ ~Repeats(table, AlertSighting(event), AlertWindow)
  /\ throttle' = IF AlertWindow = 0 THEN throttle ELSE Registered(table, AlertSighting(event))
  /\ paged' = paged \cup {<<event, now>>}
  /\ pc' = "send"
  /\ UNCHANGED <<now, detector, event, dedup, outside, fresh, silenced>>

(* The message is handed to the SMTP server. *)
Send ==
  /\ pc = "send"
  /\ mailbox' = mailbox \cup {event}
  /\ Continue
  /\ UNCHANGED <<now, dedup, throttle, raised, stores, history>>

(* No credentials, no connection, refused: logged, never raised. *)
SendFails ==
  /\ pc = "send"
  /\ Continue
  /\ UNCHANGED <<now, dedup, throttle, outside, history>>

(* The process is killed and started again. *)
Restart ==
  /\ pc' = "idle" /\ detector' = 1 /\ event' = None
  /\ dedup' = {} /\ throttle' = {} /\ paged' = {}
  /\ UNCHANGED <<now, outside, fresh, silenced>>

Next ==
  \/ Tick \/ Sniff \/ NothingDetected \/ Send \/ SendFails \/ Restart
  \/ \E entity \in Entities, detail \in Details : Detect(entity, detail)
  \/ \E table \in Evict(dedup, now, DedupWindow) : Duplicate(table) \/ NotDuplicate(table)
  \/ \E store \in Stores : Log(store)
  \/ \E table \in Evict(throttle, now, AlertWindow) : Throttled(table) \/ NotThrottled(table)

Spec == Init /\ [][Next]_vars

-----------------------------------------------------------------------------
Evidence == UNION {stores[s] : s \in Stores}

(* Every variable has its type; between packets it is the first detector's *)
(* turn, and an event is held exactly while it is worked on.               *)
TypeOK ==
  /\ now \in Times
  /\ pc \in {"idle", "detect", "dedup", "log", "throttle", "send"}
  /\ detector \in 1 .. Detectors /\ (pc = "idle" => detector = 1)
  /\ event \in Events \cup {None}
  /\ event # None <=> pc \in {"dedup", "log", "throttle", "send"}
  /\ dedup \subseteq [fp : (1 .. Detectors) \X Entities, ts : Times]
  /\ throttle \subseteq [fp : (1 .. Detectors) \X Entities \X Details, ts : Times]
  /\ raised \in 0 .. MaxEvents
  /\ stores \in [Stores -> SUBSET Events]
  /\ mailbox \subseteq Events
  /\ fresh \cup silenced \cup paged \subseteq Events \X Times

(* "Persist evidence before attempting outbound alert delivery"            *)
(* (network/sensor.py:74), wherever the process is killed: what is mailed  *)
(* has its evidence, and what was dropped as a duplicate has that of an    *)
(* event of its detector and host, found fresh less than a window before.  *)
EvidenceFirst ==
  /\ mailbox \subseteq Evidence
  /\ \A d \in silenced : \E f \in fresh :
       /\ f[1] \in Evidence
       /\ f[1].detector = d[1].detector /\ f[1].entity = d[1].entity
       /\ f[2] <= d[2] /\ d[2] - f[2] < DedupWindow

(* Alerts that say the same are a window apart, "to stop alert storms"     *)
(* (docs/DEPLOYMENT.md:89), while the process lives and its table is not   *)
(* full.                                                                   *)
StormsAreStopped ==
  MaxEvents < MaxEntries =>
    \A p, q \in paged :
      AlertSighting(p[1]) = AlertSighting(q[1]) /\ p[2] <= q[2] =>
        p = q \/ AlertWindow <= q[2] - p[2]
=============================================================================
