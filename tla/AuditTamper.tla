----------------------------- MODULE AuditTamper -----------------------------
(***************************************************************************)
(* The audit chain on a disk somebody else can write: one edit, outside    *)
(* the program, of a sealed row, of a retention hash or of a checkpoint.   *)
(* The module docstring of logs/integrity.py promises that modifications,  *)
(* deletions and insertions in a sealed range are reported; the jobs of    *)
(* AuditChain go on running before and after the edit.  Three edits leave  *)
(* nothing to report and are told apart: a NULL column for an empty one, a *)
(* border moved within a gap of the ids, and the removal of the newest     *)
(* checkpoint.  Edits of several columns made to agree are not modelled.   *)
(***************************************************************************)
EXTENDS AuditChain

SeqExt == INSTANCE SequencesExt

VARIABLES
  damage,     (* what the edit did to the evidence: none, exposed, hidden  *)
  suspect     (* what it had done to the snapshot being verified           *)

tamperVars == <<vars, damage, suspect>>

TamperInit == Init /\ damage = "none" /\ suspect = "none"

(* The ranges sealed. *)
SealedId(i) ==
  \E k \in DOMAIN checkpoints :
    checkpoints[k].from_id <= i /\ i <= checkpoints[k].through_id

Edit(done) ==
  /\ damage = "none"
  /\ WriteLockFree
  /\ damage' = done
  /\ UNCHANGED <<now, lastId, pending, jobVars, verifyVars, suspect>>

(* Any columns of a row, its id too.  '' for NULL and NULL for '' have the *)
(* same fingerprint, so that the row still says what was sealed.           *)
ModifySealedRow ==
  \E r \in audit_events, new \in Row :
    /\ SealedId(r.id) /\ new # r
    /\ new.id <= lastId
    /\ \A s \in audit_events \ {r} : s.id # new.id
    /\ audit_events' = (audit_events \ {r}) \cup {new}
    /\ Edit(IF RowFingerprint(new) = RowFingerprint(r) THEN "none" ELSE "exposed")
    /\ UNCHANGED <<retention, checkpoints>>

DeleteSealedRow ==
  /\ \E r \in audit_events : SealedId(r.id) /\ audit_events' = audit_events \ {r}
  /\ Edit("exposed")
  /\ UNCHANGED <<retention, checkpoints>>

(* In a gap of a range, or beside the retention hash of its id. *)
InsertSealedRow ==
  /\ \E new \in Row :
       /\ SealedId(new.id)
       /\ \A r \in audit_events : r.id # new.id
       /\ audit_events' = audit_events \cup {new}
  /\ Edit("exposed")
  /\ UNCHANGED <<retention, checkpoints>>

DropRetentionHash ==
  /\ \E h \in retention : retention' = retention \ {h}
  /\ Edit("exposed")
  /\ UNCHANGED <<audit_events, checkpoints>>

RewriteRetentionHash ==
  /\ \E h \in retention, other \in Fingerprint :
       /\ other # h.fingerprint
       /\ retention' = (retention \ {h}) \cup {[h EXCEPT !.fingerprint = other]}
  /\ Edit("exposed")
  /\ UNCHANGED <<audit_events, checkpoints>>

(* In a gap of a range, or beside the row of its id. *)
InsertRetentionHash ==
  /\ \E new \in Entries :
       /\ SealedId(new.event_id)
       /\ \A h \in retention : h.event_id # new.event_id
       /\ retention' = retention \cup {new}
  /\ Edit("exposed")
  /\ UNCHANGED <<audit_events, checkpoints>>

(* Hashes to put into a checkpoint: those of other seals and made up ones. *)
Forgeries ==
  {GENESIS, <<{}>>} \cup {checkpoints[k].chain_hash : k \in DOMAIN checkpoints}

ForgeSeal(k) ==
  /\ \E forged \in Forgeries, n \in 0 .. MaxId :
       checkpoints' \in {[checkpoints EXCEPT ![k].chain_hash = forged],
                         [checkpoints EXCEPT ![k].prev_chain_hash = forged],
                         [checkpoints EXCEPT ![k].row_count = n]}
  /\ checkpoints' # checkpoints
  /\ Edit("exposed")
  /\ UNCHANGED <<audit_events, retention>>

(* The rows and the hashes a checkpoint speaks of. *)
Covered(cp) ==
  <<RowsIn(audit_events, cp.from_id, cp.through_id),
    RetiredIn(retention, cp.from_id, cp.through_id)>>

(* A border moved within a gap of the ids leaves its checkpoint what it    *)
(* covered; moved farther it takes in or loses an entry.                   *)
MoveBorder(k) ==
  \E i \in Ids :
    LET cp  == checkpoints[k]
    IN  \E new \in {[cp EXCEPT !.from_id = i], [cp EXCEPT !.through_id = i]} :
          /\ new # cp
          /\ checkpoints' = [checkpoints EXCEPT ![k] = new]
          /\ Edit(IF Covered(new) = Covered(cp) THEN "hidden" ELSE "exposed")
          /\ UNCHANGED <<audit_events, retention>>

(* Nothing after the newest checkpoint says that it existed. *)
DeleteCheckpoint(k) ==
  /\ checkpoints' = SeqExt!RemoveAt(checkpoints, k)
  /\ Edit(IF k = Len(checkpoints) THEN "hidden" ELSE "exposed")
  /\ UNCHANGED <<audit_events, retention>>

(* Two checkpoints exchange their ids, and so their places. *)
ReorderCheckpoints(k, m) ==
  /\ k < m
  /\ checkpoints' = [checkpoints EXCEPT ![k] = checkpoints[m], ![m] = checkpoints[k]]
  /\ Edit("exposed")
  /\ UNCHANGED <<audit_events, retention>>

TamperNext ==
  \/ /\ Next
     /\ suspect' = IF vpc # "checking" /\ vpc' = "checking" THEN damage ELSE suspect
     /\ UNCHANGED damage
  \/ ModifySealedRow \/ DeleteSealedRow \/ InsertSealedRow
  \/ DropRetentionHash \/ RewriteRetentionHash \/ InsertRetentionHash
  \/ \E k \in DOMAIN checkpoints :
       \/ ForgeSeal(k) \/ MoveBorder(k) \/ DeleteCheckpoint(k)
       \/ \E m \in DOMAIN checkpoints : ReorderCheckpoints(k, m)

TamperSpec == TamperInit /\ [][TamperNext]_tamperVars

(* Tamper evidence: a verification whose snapshot was taken after an edit  *)
(* that changes what a seal says or what it covers ends with a failure,    *)
(* even when a purge has since moved the edited row to the retention       *)
(* hashes or a seal has extended the chain; and it ends clean when nothing *)
(* was touched, or a NULL only made empty.  Of a border moved in a gap and *)
(* of the newest checkpoint removed nothing is claimed.                    *)
TamperingIsDetected ==
  vpc = "done" =>
    /\ suspect = "exposed" => ~report.ok
    /\ suspect = "none" => report.ok
=============================================================================
