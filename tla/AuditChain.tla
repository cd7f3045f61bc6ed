----------------------------- MODULE AuditChain -----------------------------
(***************************************************************************)
(* The audit trail of the intrusion detection system: the structured       *)
(* logger that appends rows (logs/logger.py), the sealing and verification *)
(* of the hash chain over them (logs/integrity.py) and the retention purge *)
(* that removes old rows (logs/maintenance.py).                            *)
(*                                                                         *)
(* The tables are sets of records.  SQLite gives the transactions: one     *)
(* writer at a time (BEGIN IMMEDIATE), readers see the last commit, and a  *)
(* connection closed before COMMIT leaves nothing behind.  SHA-256 is      *)
(* taken to be free of collisions: a fingerprint is the tuple of columns   *)
(* it hashes, with '' for NULL (their separator is taken not to occur in   *)
(* what is logged), and a running hash is the sequence of segments folded  *)
(* into it.  Rows are folded in id order and ids are unique within a       *)
(* segment, so the set of fingerprints of a segment determines the fold.   *)
(***************************************************************************)
EXTENDS Integers, Sequences, FiniteSets, FiniteSetsExt

CONSTANTS
  Loggers,      (* threads and processes that log                          *)
  Jobs,         (* operators and schedulers that run seal or purge         *)
  Messages,     (* what a row says: level, module and message              *)
  Contexts,     (* and its context_data, where it has one                  *)
  NULL,         (* the context_data of a row that has none                 *)
  Retention,    (* retention_days, in ticks of the clock                   *)
  MaxId,        (* bound on the rows ever inserted                         *)
  MaxTime       (* bound on the clock                                      *)

ASSUME RetentionAssumption == Retention \in Nat \ {0}
ASSUME NullAssumption == NULL # "" /\ NULL \notin Contexts
ASSUME BoundsAssumption == MaxId \in Nat /\ MaxTime \in Nat

Times == 0 .. MaxTime
Ids == 1 .. MaxId
Logged == Contexts \cup {NULL}
Stored == Logged \cup {""}
Row == [id : Ids, ts : Times, msg : Messages, context : Stored]

VARIABLES
  now,             (* time.time()                                          *)
  audit_events,    (* committed table: a set of rows                       *)
  retention,       (* committed table audit_retention_hashes               *)
  checkpoints,     (* committed table audit_checkpoints, in id order       *)
  lastId,          (* sqlite_sequence: the largest id ever given           *)
  pending,         (* log records created, not yet inserted                *)
  pc,              (* where each job is                                    *)
  horizon,         (* purge: the horizon it computed                       *)
  batch,           (* purge, seal: the rows its transaction selected       *)
  vpc,             (* where the verifier is                                *)
  view,            (* the snapshot its transaction reads                   *)
  vk,              (* the checkpoint it checks next                        *)
  report           (* its VerifyResult                                     *)

tables == <<audit_events, retention, checkpoints, lastId>>
jobVars == <<pc, horizon, batch>>
verifyVars == <<vpc, view, vk, report>>
vars == <<now, tables, pending, jobVars, verifyVars>>

-----------------------------------------------------------------------------
(* Fingerprints and the chain.                                             *)

GENESIS == <<>>

OrEmpty(text) == IF text = NULL THEN "" ELSE text
RowFingerprint(r) == <<r.id, r.ts, r.msg, OrEmpty(r.context)>>

Entry(r) == [event_id |-> r.id, fingerprint |-> RowFingerprint(r)]
Fingerprint == Ids \X Times \X Messages \X (Contexts \cup {""})
Entries == [event_id : Ids, fingerprint : Fingerprint]

Fold(running, entries) ==
  Append(running, {e.fingerprint : e \in entries})

RowsIn(events, lo, hi) == {r \in events : lo <= r.id /\ r.id <= hi}
RetiredIn(hashes, lo, hi) == {h \in hashes : lo <= h.event_id /\ h.event_id <= hi}

(* What a segment holds now: the rows still there and the hashes of those  *)
(* retention removed.                                                      *)
SegmentEntries(events, hashes, cp) ==
  {Entry(r) : r \in RowsIn(events, cp.from_id, cp.through_id)}
    \cup RetiredIn(hashes, cp.from_id, cp.through_id)

SegmentSize(events, hashes, cp) ==
  Cardinality(RowsIn(events, cp.from_id, cp.through_id))
    + Cardinality(RetiredIn(hashes, cp.from_id, cp.through_id))

(* through_id and chain_hash of the last checkpoint, 0 and GENESIS before, *)
(* and the largest through_id, which is the last one's if nobody edits it. *)
LastThrough(cps) == IF cps = <<>> THEN 0 ELSE cps[Len(cps)].through_id
LastSealed(cps) == Max({0} \cup {cps[k].through_id : k \in DOMAIN cps})
ChainBefore(cps, k) == IF k = 1 THEN GENESIS ELSE cps[k-1].chain_hash

-----------------------------------------------------------------------------
EmptyView == [events |-> {}, hashes |-> {}, cps |-> <<>>]
FreshReport == [ok |-> TRUE, verified |-> 0, aged_out |-> 0, partial |-> 0]

Init ==
  /\ now = 0
  /\ audit_events = {} /\ retention = {} /\ checkpoints = <<>> /\ lastId = 0
  /\ pending = {}
  /\ pc = [j \in Jobs |-> "idle"]
  /\ horizon = [j \in Jobs |-> 0]
  /\ batch = [j \in Jobs |-> {}]
  /\ vpc = "idle" /\ view = EmptyView /\ vk = 1 /\ report = FreshReport

Tick ==
  /\ now < MaxTime
  /\ now' = now + 1
  /\ UNCHANGED <<tables, pending, jobVars, verifyVars>>

(* No transaction holds the RESERVED lock. *)
WriteLockFree == \A j \in Jobs : pc[j] \notin {"sealing", "purging"}

-----------------------------------------------------------------------------
(* The logger: the record is stamped when it is created, and inserted when *)
(* the connection gets the write lock.                                     *)

LogCall(l, m, c) ==
  /\ \A p \in pending : p.by # l
  /\ pending' = pending \cup {[by |-> l, ts |-> now, msg |-> m, context |-> c]}
  /\ UNCHANGED <<now, tables, jobVars, verifyVars>>

(* MUTANT: a plain INTEGER PRIMARY KEY reuses the ids above the rows left. *)
NextIdReused ==
  IF audit_events = {} THEN 1 ELSE Max({r.id : r \in audit_events}) + 1

(* INTEGER PRIMARY KEY AUTOINCREMENT: an id is never given twice. *)
NextId == lastId + 1

EmitCommit(p) ==
  /\ WriteLockFree
  /\ NextId <= MaxId
  /\ audit_events' = audit_events
       \cup {[id |-> NextId, ts |-> p.ts, msg |-> p.msg, context |-> p.context]}
  /\ lastId' = NextId
  /\ pending' = pending \ {p}
  /\ UNCHANGED <<now, retention, checkpoints, jobVars, verifyVars>>

(* The insert failed (busy for five seconds, disk full): the record goes   *)
(* to the fail-safe text file, outside the tables.                         *)
EmitFailsafe(p) ==
  /\ pending' = pending \ {p}
  /\ UNCHANGED <<now, tables, jobVars, verifyVars>>

-----------------------------------------------------------------------------
(* seal_audit_log: everything newer than the last checkpoint, in one       *)
(* transaction.  With nothing to seal it returns and changes nothing.      *)

(* MUTANT: >= instead of > takes the last sealed row again. *)
UnsealedInclusive == {r \in audit_events : r.id >= LastThrough(checkpoints)}

Unsealed == {r \in audit_events : r.id > LastThrough(checkpoints)}

SealBegin(j) ==
  /\ pc[j] = "idle"
  /\ WriteLockFree
  /\ Unsealed # {}
  /\ pc' = [pc EXCEPT ![j] = "sealing"]
  /\ batch' = [batch EXCEPT ![j] = Unsealed]
  /\ UNCHANGED <<now, tables, pending, horizon, verifyVars>>

Checkpoint(rows) ==
  LET ids  == {r.id : r \in rows}
      seed == ChainBefore(checkpoints, Len(checkpoints) + 1)
  IN  [from_id         |-> Min(ids),
       through_id      |-> Max(ids),
       row_count       |-> Cardinality(rows),
       chain_hash      |-> Fold(seed, {Entry(r) : r \in rows}),
       prev_chain_hash |-> seed]

SealCommit(j) ==
  /\ pc[j] = "sealing"
  /\ checkpoints' = Append(checkpoints, Checkpoint(batch[j]))
  /\ pc' = [pc EXCEPT ![j] = "idle"]
  /\ batch' = [batch EXCEPT ![j] = {}]
  /\ UNCHANGED <<now, audit_events, retention, lastId, pending, horizon, verifyVars>>

-----------------------------------------------------------------------------
(* purge_old_events: the horizon is computed before the transaction begins *)
(* and may be stale when it commits.                                       *)

PurgeHorizon(j) ==
  /\ pc[j] = "idle"
  /\ pc' = [pc EXCEPT ![j] = "waiting"]
  /\ horizon' = [horizon EXCEPT ![j] = now - Retention]
  /\ UNCHANGED <<now, tables, pending, batch, verifyVars>>

Expired(r, h) == r.ts < h

(* MUTANT: < instead of <= forgets the last sealed row. *)
RetiringExclusive(h) ==
  {r \in audit_events : Expired(r, h) /\ r.id < LastSealed(checkpoints)}

Retiring(h) ==
  {r \in audit_events : Expired(r, h) /\ r.id <= LastSealed(checkpoints)}

(* MUTANT: BEGIN instead of BEGIN IMMEDIATE selects without the lock. *)
PurgeBeginDeferred(j) ==
  /\ pc[j] = "waiting"
  /\ pc' = [pc EXCEPT ![j] = "purging"]
  /\ batch' = [batch EXCEPT ![j] = Retiring(horizon[j])]
  /\ UNCHANGED <<now, tables, pending, horizon, verifyVars>>

PurgeBegin(j) ==
  /\ pc[j] = "waiting"
  /\ WriteLockFree
  /\ pc' = [pc EXCEPT ![j] = "purging"]
  /\ batch' = [batch EXCEPT ![j] = Retiring(horizon[j])]
  /\ UNCHANGED <<now, tables, pending, horizon, verifyVars>>

(* event_id is the primary key of audit_retention_hashes. *)
RetirementConflict(rows) ==
  {r.id : r \in rows} \cap {h.event_id : h \in retention} # {}

PurgeCommit(j) ==
  /\ pc[j] = "purging"
  /\ ~RetirementConflict(batch[j])
  /\ retention' = retention \cup {Entry(r) : r \in batch[j]}
  /\ audit_events' = {r \in audit_events : ~Expired(r, horizon[j])}
  /\ pc' = [pc EXCEPT ![j] = "idle"]
  /\ batch' = [batch EXCEPT ![j] = {}]
  /\ horizon' = [horizon EXCEPT ![j] = 0]
  /\ UNCHANGED <<now, checkpoints, lastId, pending, verifyVars>>

(* Killed, timed out on the lock, or an SQL error: the connection closes   *)
(* and the transaction rolls back.                                         *)
JobAbort(j) ==
  /\ pc[j] # "idle"
  /\ pc' = [pc EXCEPT ![j] = "idle"]
  /\ batch' = [batch EXCEPT ![j] = {}]
  /\ horizon' = [horizon EXCEPT ![j] = 0]
  /\ UNCHANGED <<now, tables, pending, verifyVars>>

-----------------------------------------------------------------------------
(* verify_audit_log: BEGIN and the first SELECT fix a snapshot, and every  *)
(* later SELECT of the loop reads that snapshot.                           *)

VerifyBegin ==
  /\ vpc # "checking"
  /\ vpc' = "checking"
  /\ view' = [events |-> audit_events, hashes |-> retention, cps |-> checkpoints]
  /\ vk' = 1
  /\ report' = FreshReport
  /\ UNCHANGED <<now, tables, pending, jobVars>>

(* MUTANT: without BEGIN every SELECT reads the rows of that moment. *)
RowsSeenLive == audit_events

(* The tables the SELECTs of the loop read. *)
RowsSeen == view.events
HashesSeen == view.hashes

(* MUTANT: the oldest checkpoint left is taken on trust. *)
SeedContinuesFromOldest(k) ==
  k = 1 \/ view.cps[k].prev_chain_hash = ChainBefore(view.cps, k)

SeedContinues(k) == view.cps[k].prev_chain_hash = ChainBefore(view.cps, k)

(* The entry list has the length sealed and names no id twice. *)
CountMatches(cp) ==
  /\ SegmentSize(RowsSeen, HashesSeen, cp) = cp.row_count
  /\ {r.id : r \in RowsIn(RowsSeen, cp.from_id, cp.through_id)}
       \cap {h.event_id : h \in RetiredIn(HashesSeen, cp.from_id, cp.through_id)} = {}

HashMatches(cp) ==
  Fold(cp.prev_chain_hash, SegmentEntries(RowsSeen, HashesSeen, cp)) = cp.chain_hash

(* MUTANT: a segment with no rows left is taken as aged out, unchecked. *)
VerifyCheckpointSkipsAged ==
  /\ vpc = "checking"
  /\ vk <= Len(view.cps)
  /\ LET cp      == view.cps[vk]
         present == RowsIn(RowsSeen, cp.from_id, cp.through_id) # {}
         intact  == present => CountMatches(cp) /\ HashMatches(cp)
     IN  report' = [report EXCEPT !.ok = @ /\ SeedContinues(vk) /\ intact]
  /\ vk' = vk + 1
  /\ UNCHANGED <<now, tables, pending, jobVars, vpc, view>>

VerifyCheckpoint ==
  /\ vpc = "checking"
  /\ vk <= Len(view.cps)
  /\ LET cp      == view.cps[vk]
         intact  == CountMatches(cp) /\ HashMatches(cp)
         present == RowsIn(RowsSeen, cp.from_id, cp.through_id) # {}
         retired == RetiredIn(HashesSeen, cp.from_id, cp.through_id) # {}
     IN  report' = [report EXCEPT
           !.ok       = @ /\ SeedContinues(vk) /\ intact,
           !.verified = IF intact /\ present THEN @ + 1 ELSE @,
           !.aged_out = IF intact /\ ~present THEN @ + 1 ELSE @,
           !.partial  = IF intact /\ present /\ retired THEN @ + 1 ELSE @]
  /\ vk' = vk + 1
  /\ UNCHANGED <<now, tables, pending, jobVars, vpc, view>>

VerifyEnd ==
  /\ vpc = "checking"
  /\ vk = Len(view.cps) + 1
  /\ vpc' = "done"
  /\ view' = EmptyView
  /\ vk' = 1
  /\ UNCHANGED <<now, tables, pending, jobVars, report>>

-----------------------------------------------------------------------------
Next ==
  \/ Tick
  \/ \E l \in Loggers, m \in Messages, c \in Logged : LogCall(l, m, c)
  \/ \E p \in pending : EmitCommit(p) \/ EmitFailsafe(p)
  \/ \E j \in Jobs :
       \/ SealBegin(j) \/ SealCommit(j)
       \/ PurgeHorizon(j) \/ PurgeBegin(j) \/ PurgeCommit(j)
       \/ JobAbort(j)
  \/ VerifyBegin \/ VerifyCheckpoint \/ VerifyEnd

Spec == Init /\ [][Next]_vars

-----------------------------------------------------------------------------
(* Types of the tables, of the jobs' locals and of the verifier.           *)
CheckpointType ==
  [from_id : Ids, through_id : Ids, row_count : Nat,
   chain_hash : Seq(SUBSET Fingerprint), prev_chain_hash : Seq(SUBSET Fingerprint)]

(* Every table, job and verifier variable keeps the shape the code gives   *)
(* it: rows and hashes within the ids given so far, and a running report.  *)
TypeOK ==
  /\ now \in Times
  /\ audit_events \subseteq Row
  /\ retention \subseteq Entries
  /\ checkpoints \in Seq(CheckpointType)
  /\ lastId \in 0 .. MaxId
  /\ pending \subseteq [by : Loggers, ts : Times, msg : Messages, context : Logged]
  /\ pc \in [Jobs -> {"idle", "sealing", "waiting", "purging"}]
  /\ horizon \in [Jobs -> Int]
  /\ batch \in [Jobs -> SUBSET Row]
  /\ vpc \in {"idle", "checking", "done"}
  /\ view \in [events : SUBSET Row, hashes : SUBSET Entries, cps : Seq(CheckpointType)]
  /\ vk \in Nat \ {0}
  /\ report \in [ok : BOOLEAN, verified : Nat, aged_out : Nat, partial : Nat]

(* "Segments whose rows have aged out under retention are ... never        *)
(* reported as tampering" (logs/integrity.py:149-150): with loggers,       *)
(* sealers, purges of stale horizon and aborted jobs interleaved in any    *)
(* order, verify_audit_log never reports a failure on an untouched log.    *)
NoFalseAlarm == report.ok

(* No row slips under a seal: every row at or below the last sealed id is  *)
(* in exactly one segment, with its own fingerprint folded into that       *)
(* segment's hash, whatever was inserted while sealing and purging ran.    *)
NoRowSlipsUnderASeal ==
  \A r \in audit_events :
    r.id <= LastThrough(checkpoints) =>
      /\ \E k \in DOMAIN checkpoints :
           LET cp == checkpoints[k]
           IN  /\ cp.from_id <= r.id /\ r.id <= cp.through_id
               /\ RowFingerprint(r) \in cp.chain_hash[Len(cp.chain_hash)]
      /\ \A k, m \in DOMAIN checkpoints :
           /\ checkpoints[k].from_id <= r.id /\ r.id <= checkpoints[k].through_id
           /\ checkpoints[m].from_id <= r.id /\ r.id <= checkpoints[m].through_id
           => k = m

(* A purge never meets its own earlier work: the hashes a purge is about   *)
(* to insert are of ids not retired before, so the primary key of          *)
(* audit_retention_hashes never makes retention fail for good.             *)
PurgeNeverConflicts ==
  \A j \in Jobs : pc[j] = "purging" => ~RetirementConflict(batch[j])

(* Retention is respected and purging is all or nothing: a row leaves      *)
(* audit_events only when it is older than the retention period at that    *)
(* moment, and a sealed row that leaves has its hash kept in the same      *)
(* commit (logs/maintenance.py:72-81).                                     *)
RowsLeaveOnlyByRetention ==
  [][\A r \in audit_events \ audit_events' :
       /\ r.ts < now - Retention
       /\ r.id <= LastThrough(checkpoints) => Entry(r) \in retention']_vars

-----------------------------------------------------------------------------
(* The inductive invariant behind the properties above.                    *)

(* Each checkpoint still describes what the tables hold of its range. *)
SegmentsIntact(events, hashes, cps) ==
  \A k \in 1 .. Len(cps) :
    /\ cps[k].prev_chain_hash = ChainBefore(cps, k)
    /\ cps[k].chain_hash
         = Fold(cps[k].prev_chain_hash, SegmentEntries(events, hashes, cps[k]))
    /\ cps[k].row_count = SegmentSize(events, hashes, cps[k])

DisjointIds(events, hashes) == \A r \in events, h \in hashes : r.id # h.event_id

(* The ranges sealed follow each other, below the ids still to be given. *)
RangesOrdered ==
  /\ \A k \in 1 .. Len(checkpoints) :
       /\ checkpoints[k].from_id <= checkpoints[k].through_id
       /\ checkpoints[k].through_id <= LastThrough(checkpoints)
  /\ \A k, m \in 1 .. Len(checkpoints) :
       k < m => checkpoints[k].through_id < checkpoints[m].from_id
  /\ LastThrough(checkpoints) <= lastId

RowsNumbered ==
  /\ IsFiniteSet(audit_events) /\ IsFiniteSet(retention)
  /\ \A r \in audit_events : r.id <= lastId
  /\ \A r, s \in audit_events : r.id = s.id => r = s

(* Only sealed rows are retired. *)
RetiredWereSealed ==
  \A h \in retention : h.event_id <= LastThrough(checkpoints)

(* A row at or below the last sealed id lies in a sealed range. *)
SealedRowsCovered ==
  \A r \in audit_events : r.id <= LastThrough(checkpoints) =>
    \E k \in 1 .. Len(checkpoints) :
      checkpoints[k].from_id <= r.id /\ r.id <= checkpoints[k].through_id

(* The holder of the write lock is alone, and its selection is current. *)
TransactionsIsolated ==
  /\ \A i, j \in Jobs :
       pc[i] \in {"sealing", "purging"} /\ pc[j] \in {"sealing", "purging"} => i = j
  /\ \A j \in Jobs : pc[j] = "sealing" => batch[j] = Unsealed /\ batch[j] # {}
  /\ \A j \in Jobs : pc[j] = "purging" => batch[j] = Retiring(horizon[j])
  /\ \A j \in Jobs : pc[j] \in {"waiting", "purging"} => horizon[j] <= now - Retention

VerifierSeesIntactLog ==
  /\ SegmentsIntact(view.events, view.hashes, view.cps)
  /\ DisjointIds(view.events, view.hashes)
  /\ report.ok

(* The strengthening the proofs carry through every step: TLC checks it    *)
(* too, so that a failed proof step is a gap of the proof.                 *)
IInv ==
  /\ TypeOK
  /\ SegmentsIntact(audit_events, retention, checkpoints)
  /\ DisjointIds(audit_events, retention)
  /\ RangesOrdered
  /\ RowsNumbered
  /\ RetiredWereSealed
  /\ SealedRowsCovered
  /\ TransactionsIsolated
  /\ VerifierSeesIntactLog

-----------------------------------------------------------------------------
(* The abstract ledger this implements: what verification reconstructs     *)
(* from the two tables, one set of entries per checkpoint.                 *)
LedgerOfTables ==
  [k \in 1 .. Len(checkpoints) |->
     SegmentEntries(audit_events, retention, checkpoints[k])]

Ledger == INSTANCE SealedLedger WITH ledger <- LedgerOfTables

(* The sealed history only grows: what can be reconstructed of a sealed    *)
(* segment never changes again, through any seal, purge, insert or crash.  *)
SealedHistoryIsALedger == Ledger!Spec
=============================================================================
