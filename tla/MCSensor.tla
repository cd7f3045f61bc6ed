------------------------------ MODULE MCSensor ------------------------------
(***************************************************************************)
(* The network sensor for TLC: a deduplicator under its own callers, the   *)
(* sensor's callback over its tables, the windows of its detectors, and    *)
(* the watchlist of names in the processes that read it.  Sensor leaves    *)
(* open what the detectors see, and calls its tables from one thread: the  *)
(* parts share nothing, so a behaviour is one of one part.                 *)
(***************************************************************************)
EXTENDS Deduplicator, Sequences, TLC

CONSTANTS
  Detectors, Entities, Details, DedupWindow, AlertWindow, AlertEntries, MaxEvents, MaxSeconds,
  Sources, Targets, Threshold, Skew, MaxPackets, MaxTicks,
  Macs, MaxChanges, MaxAnnouncements,
  live, replay, Processes, ListWindow, Hosts, evil, c2, Domains, Above, ListEntries, MaxDays

VARIABLES
  part,
  clock, at, detector, event, dedup, throttle, raised, stores, mailbox, fresh, silenced, paged,
  ticks, deque, counts, scan, unreported,
  history, flapping, announced,
  days, list, intel, reported, known, held, alerted, asked

sensor ==
  <<clock, at, detector, event, dedup, throttle, raised, stores, mailbox, fresh, silenced, paged>>
scans == <<deque, counts, scan, unreported>>
arp == <<history, flapping, announced>>
names == <<days, list, intel, reported, known, held, alerted, asked>>
cache == <<now, seen, pc, call, passed, strained>>

S == INSTANCE Sensor WITH now <- clock, pc <- at, MaxEntries <- AlertEntries,
                          MaxTime <- MaxSeconds
N == INSTANCE ScanDetector WITH now <- ticks, event <- scan, MaxTime <- MaxTicks
A == INSTANCE ArpDetector WITH now <- ticks, event <- flapping, unreported <- announced,
                               MaxPackets <- MaxAnnouncements, MaxTime <- MaxTicks
W == INSTANCE DnsWatchlist WITH
  now <- days, MaxTime <- MaxDays, MaxEntries <- ListEntries, file <- list, dedup <- known,
  Window <- ListWindow

ASSUME SensorAssumption ==
  /\ S!SensorAssumption /\ S!NoneAssumption /\ AlertEntries \in Nat
  /\ N!ScanAssumption /\ A!ArpAssumption
  /\ W!DnsAssumption /\ W!NoneAssumption

(* For the run: a replay has no deduplicator; c2 is a part of evil.        *)
MCWindow == (live :> 2) @@ (replay :> 0)
MCAbove == (evil :> {evil}) @@ (c2 :> {c2, evil})

MCInit ==
  /\ part \in {"cache", "sensor", "scans", "arp", "names"}
  /\ Init /\ S!Init /\ N!Init /\ A!Init
  /\ W!Init /\ (part = "names" \/ list = {})
Cached == part = "cache" /\ Next /\ UNCHANGED <<sensor, ticks, scans, arp, names>>
Sensed == part = "sensor" /\ S!Next /\ UNCHANGED <<cache, ticks, scans, arp, names>>
Scanned == part = "scans" /\ N!Next /\ UNCHANGED <<cache, sensor, arp, names>>
Announced == part = "arp" /\ A!Next /\ UNCHANGED <<cache, sensor, scans, names>>
Named == part = "names" /\ W!Next /\ UNCHANGED <<cache, sensor, ticks, scans, arp>>
MCNext == (Cached \/ Sensed \/ Scanned \/ Announced \/ Named) /\ UNCHANGED part
MCSpec == MCInit /\ [][MCNext]_<<part, vars, sensor, ticks, scans, arp, names>>

(* No behaviour uses two of the sets that share their model values. *)
Symmetry ==
  Permutations(Fingerprints \cup Targets \cup Macs) \cup Permutations(Callers \cup Details)

(* What is mailed or silenced has its evidence, and alerts that say the    *)
(* same are a window apart, as Sensor.tla states it (network/sensor.py,    *)
(* alerts/email_alert.py).                                                 *)
EvidenceFirst == S!TypeOK /\ S!EvidenceFirst /\ S!StormsAreStopped
(* A scan detector reports scans, and every scan, as ScanDetector.tla      *)
(* states it (syn_detector.py, icmp_detector.py)...                        *)
ScansAreReported == N!TypeOK /\ N!ReportsAreScans /\ N!NoScanMissed
(* ...and the ARP detector changes that were seen, and all but one of a    *)
(* window, as ArpDetector.tla states it (arp_detector.py).                 *)
FlapsAreReported == A!TypeOK /\ A!ReportsAreFlaps /\ A!OneChangeEscapes
(* Who asks for a listed name is alerted, as DnsWatchlist.tla states it    *)
(* (dns_detector.py).                                                      *)
ListedHostsAreAlerted == W!TypeOK /\ W!ListedHostsAreAlerted
=============================================================================
