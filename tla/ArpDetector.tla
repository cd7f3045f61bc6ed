----------------------------- MODULE ArpDetector -----------------------------
(***************************************************************************)
(* ArpDetector (network/detectors/arp_detector.py), for one IP address:    *)
(* the MAC addresses it was announced with, by the monotonic clock.        *)
(***************************************************************************)
EXTENDS Integers, SequencesExt

CONSTANTS
  Macs,
  MaxChanges,  (* ARP_SPOOF_MAX_CHANGES                                    *)
  Window,      (* ARP_SPOOF_WINDOW_MINUTES                                 *)
  None,        (* no event                                                 *)
  MaxPackets,  (* bound on the packets since the last event                *)
  MaxTime      (* bound on the clock                                       *)

ArpAssumption ==
  MaxChanges \in Nat /\ Window \in Nat /\ MaxPackets \in Nat /\ MaxTime \in Nat

VARIABLES
  now,         (* time.monotonic()                                         *)
  history,     (* entries [at, mac]                                        *)
  event,       (* what the last packet raised                              *)
  unreported   (* ghost: every packet since the last event, as [at, mac]   *)

vars == <<now, history, event, unreported>>

Entries == [at : 0 .. MaxTime, mac : Macs]

Init == now = 0 /\ history = <<>> /\ event = None /\ unreported = <<>>

Tick ==
  /\ now < MaxTime
  /\ now' = now + 1
  /\ UNCHANGED <<history, event, unreported>>

(* How many entries leave the head of the history.                         *)
Expired(entries) ==
  Cardinality({i \in DOMAIN entries : \A j \in 1 .. i : entries[j].at < now - Window})
(* MUTANT: nothing expires. *)
NoneExpired(entries) == entries
Unexpired(entries) == SubSeq(entries, Expired(entries) + 1, Len(entries))

(* MUTANT: a MAC that came before is not appended again. *)
WithUnseen(entries, mac) ==
  IF \E i \in DOMAIN entries : entries[i].mac = mac
  THEN entries ELSE Append(entries, [at |-> now, mac |-> mac])
With(entries, mac) ==
  IF entries # <<>> /\ Last(entries).mac = mac
  THEN entries ELSE Append(entries, [at |-> now, mac |-> mac])

Report(entries, since) ==
  /\ event' = [changes |-> Len(entries) - 1, since |-> since]
  /\ history' = <<>>
  /\ unreported' = <<>>

(* process_packet: an ARP packet from mac. *)
ProcessPacket(mac) ==
  LET entries == With(Unexpired(history), mac)
      since == Append(unreported, [at |-> now, mac |-> mac])
  IN  /\ UNCHANGED now
      /\ IF Len(entries) - 1 > MaxChanges
         THEN Report(entries, since)
         ELSE event' = None /\ history' = entries /\ unreported' = since

Next ==
  \/ Tick
  \/ Len(unreported) < MaxPackets /\ \E mac \in Macs : ProcessPacket(mac)

Spec == Init /\ [][Next]_vars

-----------------------------------------------------------------------------
(* The changes of MAC at or after a time in a sequence of packets.         *)
ChangesSince(packets, time) ==
  Cardinality({i \in 2 .. Len(packets) :
                 packets[i].mac # packets[i - 1].mac /\ packets[i].at >= time})

(* Every variable has its type; the history is in the order of time, and   *)
(* ends with the MAC of the last packet.                                   *)
TypeOK ==
  /\ now \in 0 .. MaxTime
  /\ history \in Seq(Entries) /\ unreported \in Seq(Entries)
  /\ \A i \in 2 .. Len(history) :
       history[i - 1].at <= history[i].at /\ history[i - 1].mac # history[i].mac
  /\ event \in {None} \cup [changes : Nat, since : Seq(Entries)]
  /\ history # <<>> <=> unreported # <<>>
  /\ history # <<>> => Last(history).mac = Last(unreported).mac

(* "MAC changed N times within window" (arp_detector.py:45): an event      *)
(* never reports a change that was not seen in a window, or that an        *)
(* earlier one reported.                                                   *)
ReportsAreFlaps ==
  event # None =>
    /\ event.changes > MaxChanges
    /\ event.changes <= ChangesSince(event.since, Last(event.since).at - Window)

(* At most one change of a window goes uncounted: no more than one above   *)
(* the limit are seen without an event.                                    *)
OneChangeEscapes == ChangesSince(unreported, now - Window) <= MaxChanges + 1
=============================================================================
