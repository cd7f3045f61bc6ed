------------------------------ MODULE Supervisor ------------------------------
(***************************************************************************)
(* python -m ids run (ids/__main__.py, ids/orchestrator.py and             *)
(* ids/services.py): the main thread starts the requested components one   *)
(* after the other, each a daemon thread, then polls them until all have   *)
(* stopped or the operator presses Ctrl+C.  The correlator's loop is       *)
(* modelled with its event; of the sensor and the dashboard only that      *)
(* their threads may end.  Daemon threads die with the process.            *)
(***************************************************************************)
EXTENDS Integers, Sequences, SequencesExt

CONSTANTS
  Order,      (* the components in the order launch() takes them           *)
  Correlator  (* the one that has a stop_event                             *)

OrderAssumption ==
  /\ Order \in Seq(ToSet(Order)) /\ IsInjective(Order)
  /\ Correlator \in ToSet(Order)

Components == ToSet(Order)

VARIABLES
  main,       (* "launch", "look", "asleep", "stopping", "exiting", or how *)
              (* it ended: "stopped", "nothing started", "traceback"       *)
  requested,  (* the components asked for on the command line              *)
  left,       (* the components launch() still has to see                  *)
  started,    (* RunReport.started, in order                               *)
  skipped,    (* RunReport.skipped                                         *)
  looking,    (* the threads any() has not looked at in this poll          *)
  alive,      (* the threads that run                                      *)
  stop_event, (* whether the correlator's event is set                     *)
  sweeper,    (* the correlator's loop: "none", "check", "sweep", "wait"   *)
  asked       (* history: whether Ctrl+C was pressed                       *)

report == <<requested, left, started, skipped>>
threads == <<alive, stop_event, sweeper>>
vars == <<main, report, looking, threads, asked>>

Ends == {"stopped", "nothing started", "traceback"}
Running == main \notin Ends

Init ==
  /\ main = "launch" /\ requested \in SUBSET Components \ {{}}
  /\ left = Order
  /\ started = <<>> /\ skipped = {}
  /\ looking = <<>> /\ alive = {} /\ stop_event = FALSE /\ sweeper = "none"
  /\ asked = FALSE

-------------------------------------------------------------------------------
(* launch() *)
(* What was not asked for is passed over. *)
PassOver ==
  /\ main = "launch" /\ left # <<>> /\ Head(left) \notin requested
  /\ left' = Tail(left)
  /\ UNCHANGED <<main, requested, started, skipped, looking, threads, asked>>

(* The starter returns a running thread. *)
Start ==
  /\ main = "launch" /\ left # <<>> /\ Head(left) \in requested
  /\ left' = Tail(left)
  /\ started' = Append(started, Head(left)) /\ alive' = alive \cup {Head(left)}
  /\ sweeper' = IF Head(left) = Correlator THEN "check" ELSE sweeper
  /\ UNCHANGED <<main, requested, skipped, looking, stop_event, asked>>

(* The starter returns None: no consent, no privileges, diagnostics that   *)
(* fail.  The correlator's never does.                                     *)
Skip ==
  /\ main = "launch" /\ left # <<>> /\ Head(left) \in requested \ {Correlator}
  /\ left' = Tail(left)
  /\ skipped' = skipped \cup {Head(left)}
  /\ UNCHANGED <<main, requested, started, looking, threads, asked>>

(* The starter raises: a setting that is no number, a locked store, no     *)
(* scapy.  Nothing catches it.                                             *)
StartRaises ==
  /\ main = "launch" /\ left # <<>> /\ Head(left) \in requested
  /\ main' = "traceback"
  /\ UNCHANGED <<report, looking, threads, asked>>

Launched ==
  /\ main = "launch" /\ left = <<>>
  /\ main' = IF started = <<>> THEN "nothing started" ELSE "look"
  /\ looking' = started
  /\ UNCHANGED <<report, threads, asked>>

-------------------------------------------------------------------------------
(* supervise() *)
(* MUTANT: the poll ends at the first thread that has stopped. *)
LookForDead ==
  /\ main = "look" /\ looking # <<>>
  /\ IF Head(looking) \notin alive
       THEN main' = "stopped" /\ UNCHANGED looking
       ELSE /\ looking' = Tail(looking)
            /\ main' = IF Tail(looking) = <<>> THEN "asleep" ELSE "look"
  /\ UNCHANGED <<report, threads, asked>>
(* MUTANT: the poll sleeps whatever it finds. *)
LookAndSleep ==
  /\ main = "look" /\ looking # <<>>
  /\ main' = "asleep" /\ UNCHANGED looking
  /\ UNCHANGED <<report, threads, asked>>
(* any(thread.is_alive() ...) stops at the first that is alive. *)
Look ==
  /\ main = "look" /\ looking # <<>>
  /\ IF Head(looking) \in alive
       THEN main' = "asleep" /\ UNCHANGED looking
       ELSE /\ looking' = Tail(looking)
            /\ main' = IF Tail(looking) = <<>> THEN "stopped" ELSE "look"
  /\ UNCHANGED <<report, threads, asked>>

Wake ==
  /\ main = "asleep" /\ main' = "look"
  /\ looking' = started
  /\ UNCHANGED <<report, threads, asked>>

(* MUTANT: Ctrl+C during the sleep is swallowed. *)
InterruptOnlyLooks ==
  /\ Running /\ asked' = TRUE
  /\ main' = CASE main = "look" -> "stopping" [] main = "asleep" -> "look"
               [] OTHER -> "traceback"
  /\ UNCHANGED <<report, looking, threads>>
(* Ctrl+C.  Only supervise() expects it, and only once. *)
Interrupt ==
  /\ Running /\ asked' = TRUE
  /\ main' = IF main \in {"look", "asleep"} THEN "stopping" ELSE "traceback"
  /\ UNCHANGED <<report, looking, threads>>

Stop ==
  /\ main = "stopping" /\ main' = "exiting"
  /\ stop_event' = (Correlator \in ToSet(started))
  /\ UNCHANGED <<report, looking, alive, sweeper, asked>>

(* The process ends without waiting for its threads. *)
Exit ==
  /\ main = "exiting" /\ main' = "stopped"
  /\ UNCHANGED <<report, looking, threads, asked>>

-------------------------------------------------------------------------------
(* The threads, while the process lives.                                   *)
(* The server or the sniffer returns or raises. *)
ThreadEnds(c) ==
  /\ Running /\ c \in alive \ {Correlator}
  /\ alive' = alive \ {c}
  /\ UNCHANGED <<main, report, looking, stop_event, sweeper, asked>>

CheckStop ==
  /\ Running /\ sweeper = "check"
  /\ IF stop_event THEN sweeper' = "none" /\ alive' = alive \ {Correlator}
                   ELSE sweeper' = "sweep" /\ UNCHANGED alive
  /\ UNCHANGED <<main, report, looking, stop_event, asked>>

(* MUTANT: an exception of a sweep leaves the loop. *)
SweepEndsOrKills ==
  /\ Running /\ sweeper = "sweep"
  /\ \/ sweeper' = "wait" /\ UNCHANGED alive
     \/ sweeper' = "none" /\ alive' = alive \ {Correlator}
  /\ UNCHANGED <<main, report, looking, stop_event, asked>>
(* sweep() returns or raises; an exception is a warning, and the loop goes *)
(* on.                                                                     *)
SweepEnds ==
  /\ Running /\ sweeper = "sweep" /\ sweeper' = "wait"
  /\ UNCHANGED <<main, report, looking, alive, stop_event, asked>>

(* stop_event.wait returns: the interval has passed or the event is set. *)
Waited ==
  /\ Running /\ sweeper = "wait" /\ sweeper' = "check"
  /\ UNCHANGED <<main, report, looking, alive, stop_event, asked>>

-------------------------------------------------------------------------------
Launch == PassOver \/ Start \/ Skip \/ StartRaises \/ Launched
Loop == CheckStop \/ SweepEnds \/ Waited

Next ==
  \/ Launch
  \/ Look \/ Wake \/ Interrupt \/ Stop \/ Exit
  \/ \E c \in Components : ThreadEnds(c)
  \/ Loop

Spec == Init /\ [][Next]_vars

-------------------------------------------------------------------------------
TypeOK ==
  /\ main \in {"launch", "look", "asleep", "stopping", "exiting"} \cup Ends
  /\ requested \in SUBSET Components /\ skipped \in SUBSET requested
  /\ ToSet(started) \subseteq requested /\ IsInjective(started)
  /\ alive \subseteq ToSet(started) \ skipped
  /\ main = "look" => looking # <<>> /\ IsSuffix(looking, started)
  /\ sweeper \in {"none", "check", "sweep", "wait"}
  /\ (sweeper # "none") <=> (Correlator \in alive)
  /\ stop_event => asked /\ Correlator \in ToSet(started)

(* Nobody's Ctrl+C, nobody's exception: supervise() then returns only when *)
(* every component has stopped, although it looks at them one by one while *)
(* they run (supervise() of ids/orchestrator.py).                          *)
ReturnsWhenAllStopped == main = "stopped" /\ ~asked => alive = {}

(* Ctrl+C ends the process, whenever it comes and whatever the components  *)
(* are doing.                                                              *)
StopsWhenAsked == asked ~> ~Running

(* When the last component has stopped, the process ends by itself.        *)
EndsWithComponents == (left = <<>> /\ alive = {}) ~> ~Running

(* A correlator that was started sweeps again and again as long as the     *)
(* process lives, whatever its sweeps raise (_loop of ids/services.py).    *)
KeepsSweeping ==
  Correlator \in ToSet(started) ~> (sweeper = "sweep" \/ ~Running)
=============================================================================
