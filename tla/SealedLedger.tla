---------------------------- MODULE SealedLedger ----------------------------
(***************************************************************************)
(* What sealing the audit log promises, with no tables, locks or purges: a *)
(* history of segments, each a set of entries, that is only ever extended  *)
(* by one non-empty segment of entries newer than all sealed before.       *)
(***************************************************************************)
EXTENDS Naturals, Sequences

VARIABLE ledger

Init == ledger = <<>>

(* Every entry of the new segment is newer than every entry sealed. *)
Newer(segment) ==
  \A k \in DOMAIN ledger : \A old \in ledger[k], new \in segment :
    old.event_id < new.event_id

Seal ==
  /\ Len(ledger') = Len(ledger) + 1
  /\ LET segment == ledger'[Len(ledger')]
     IN  /\ ledger' = Append(ledger, segment)
         /\ segment # {}
         /\ Newer(segment)

Spec == Init /\ [][Seal]_ledger
=============================================================================
