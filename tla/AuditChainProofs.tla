-------------------------- MODULE AuditChainProofs --------------------------
(***************************************************************************)
(* Proofs about AuditChain, for any loggers, jobs, messages, retention and *)
(* bounds: its type invariant, that verification raises no false alarm,    *)
(* that no row slips under a seal, that a purge never conflicts with an    *)
(* earlier one, that the sealed history is an append-only ledger; and      *)
(* about AuditTamper, that an edit of what a seal says or covers is found. *)
(***************************************************************************)
EXTENDS AuditTamper, FiniteSetTheorems, FunctionTheorems, SequenceTheorems,
        WellFoundedInduction, TLAPS

-----------------------------------------------------------------------------
(* Minima and maxima of the ids a seal covers.                             *)

(* A non-empty set of naturals has a minimum, the from_id of a seal. *)
LEMMA MinOfNaturals ==
  ASSUME NEW S \in SUBSET Nat, S # {}
  PROVE  Min(S) \in S /\ \A y \in S : Min(S) <= y
<1> DEFINE Less == {ss \in Nat \X Nat : ss[1] < ss[2]}
<1>1. Less = OpToRel(<, Nat)
  BY Zenon DEF OpToRel
<1>2. PICK x \in S : \A y \in S : ~(<<y, x>> \in OpToRel(<, Nat))
  BY WFMin, NatLessThanWellFounded
<1>3. \A y \in S : ~(<<y, x>> \in Less)
  BY <1>1, <1>2, Zenon
<1>4. \A y \in S : x <= y
  <2> TAKE y \in S
  <2>1. x \in Nat /\ y \in Nat /\ <<y, x>> \in Nat \X Nat
    OBVIOUS
  <2>2. ~(y < x)
    BY <1>3, <2>1
  <2> QED BY <2>1, <2>2
<1> QED BY <1>4 DEF Min

(* A bounded non-empty set of naturals has a maximum, its through_id. *)
LEMMA MaxOfNaturals ==
  ASSUME NEW n \in Nat, NEW S \in SUBSET (0 .. n), S # {}
  PROVE  Max(S) \in S /\ \A y \in S : Max(S) >= y
<1> DEFINE T == {n - x : x \in S}
<1>1. T \in SUBSET Nat /\ T # {}
  <2>1. \A x \in S : x \in 0 .. n
    OBVIOUS
  <2>2. \A x \in S : n - x \in Nat
    BY <2>1
  <2>3. T # {}
    OBVIOUS
  <2>4. T \subseteq Nat
    BY <2>2
  <2> QED BY <2>3, <2>4
<1>2. PICK t \in T : \A u \in T : t <= u
  BY <1>1, MinOfNaturals
<1>3. PICK x \in S : t = n - x
  OBVIOUS
<1>4. \A y \in S : x >= y
  <2> TAKE y \in S
  <2>1. n - y \in T
    OBVIOUS
  <2>2. t <= n - y
    BY <1>2, <2>1
  <2> QED BY <1>3, <2>2
<1> QED BY <1>4 DEF Max

-----------------------------------------------------------------------------
(* What a purge does to a sealed segment: nothing.                         *)

(* Entries of rows of different ids differ, and are typed. *)
LEMMA EntryInjective ==
  ASSUME NEW r \in Row, NEW s \in Row
  PROVE  /\ Entry(r) \in Entries
         /\ Entry(r) = Entry(s) => r.id = s.id
<1>1. OrEmpty(r.context) \in Contexts \cup {""}
  BY NullAssumption DEF Row, Stored, Logged, OrEmpty
<1> QED BY <1>1 DEF Entry, RowFingerprint, Row, Entries, Fingerprint

(* Rows have as many retention hashes as there are rows. *)
LEMMA EntriesOfRows ==
  ASSUME NEW G \in SUBSET Row, IsFiniteSet(G),
         \A r, s \in G : r.id = s.id => r = s
  PROVE  /\ IsFiniteSet({Entry(r) : r \in G})
         /\ Cardinality({Entry(r) : r \in G}) = Cardinality(G)
<1> DEFINE E == {Entry(r) : r \in G}
           f == [r \in G |-> Entry(r)]
<1>1. f \in [G -> E] /\ \A e \in E : \E r \in G : f[r] = e
  OBVIOUS
<1>2. \A r, q \in G : f[r] = f[q] => r = q
  BY EntryInjective
<1> HIDE DEF f, E
<1>3. f \in Bijection(G, E)
  BY <1>1, <1>2, Fun_IsBij
<1>4. IsFiniteSet(E) /\ Cardinality(E) = Cardinality(G)
  BY <1>3, FS_Bijection, Fun_ExistsBij
<1> QED BY <1>4 DEF E

(* The rows a purge leaves, and the sealed ones it retires. *)
Remaining(events, h) == {r \in events : ~Expired(r, h)}
Leaving(events, h, last) == {r \in events : Expired(r, h) /\ r.id <= last}
WithHashesOf(hashes, rows) == hashes \cup {Entry(r) : r \in rows}

(* Some id of the range is of a row and of a retention hash. *)
Clash(events, hashes, cp) ==
  {r.id : r \in RowsIn(events, cp.from_id, cp.through_id)}
    \cap {e.event_id : e \in RetiredIn(hashes, cp.from_id, cp.through_id)} # {}

(* Moving the expired rows of a sealed range to the retention hashes keeps *)
(* its entries and its size: verify_audit_log cannot tell the difference.  *)
(* Of an id that is of a row and of a hash, the row cannot be moved.       *)
LEMMA PurgePreservesSegment ==
  ASSUME NEW events \in SUBSET Row, IsFiniteSet(events),
         \A r, s \in events : r.id = s.id => r = s,
         NEW hashes \in SUBSET Entries, IsFiniteSet(hashes),
         NEW h \in Int, NEW last \in Int,
         DisjointIds(Leaving(events, h, last), hashes),
         NEW cp, cp.from_id \in Int, cp.through_id \in Int, cp.through_id <= last,
         NEW left, left = Remaining(events, h),
         NEW kept, kept = WithHashesOf(hashes, Leaving(events, h, last))
  PROVE  /\ SegmentEntries(left, kept, cp) = SegmentEntries(events, hashes, cp)
         /\ SegmentSize(left, kept, cp) = SegmentSize(events, hashes, cp)
         /\ Clash(left, kept, cp) <=> Clash(events, hashes, cp)
<1> DEFINE A == RowsIn(events, cp.from_id, cp.through_id)
           G == {r \in A : Expired(r, h)}
           H == RetiredIn(hashes, cp.from_id, cp.through_id)
           E == {Entry(r) : r \in G}
<1>1. RowsIn(left, cp.from_id, cp.through_id) = A \ G
  BY DEF RowsIn, Remaining
<1>2. RetiredIn(kept, cp.from_id, cp.through_id) = H \cup E
  <2>1. \A r \in events : r.id \in Int
    BY DEF Row, Ids
  <2>2. \A r \in events : Entry(r).event_id = r.id
    BY DEF Entry
  <2>3. E = {e \in {Entry(r) : r \in Leaving(events, h, last)} :
               cp.from_id <= e.event_id /\ e.event_id <= cp.through_id}
    BY <2>1, <2>2 DEF RowsIn, Leaving
  <2> HIDE DEF E
  <2> QED BY <2>3 DEF RetiredIn, WithHashesOf
<1>3. IsFiniteSet(A) /\ IsFiniteSet(G) /\ IsFiniteSet(H)
  <2>1. A \in SUBSET events /\ G \in SUBSET events /\ H \in SUBSET hashes
    BY DEF RowsIn, RetiredIn
  <2> QED BY <2>1, FS_Subset
<1>4. IsFiniteSet(E) /\ Cardinality(E) = Cardinality(G)
  <2>1. G \in SUBSET Row /\ \A r, s \in G : r.id = s.id => r = s
    BY DEF RowsIn
  <2> HIDE DEF G
  <2> QED BY <1>3, <2>1, EntriesOfRows
<1>l. G \subseteq Leaving(events, h, last)
  <2> SUFFICES ASSUME NEW r \in G PROVE r \in Leaving(events, h, last)
    OBVIOUS
  <2>1. r \in events /\ r.id \in Int /\ r.id <= cp.through_id /\ Expired(r, h)
    BY DEF RowsIn, Row, Ids
  <2>2. r.id <= last
    BY <2>1
  <2> QED BY <2>1, <2>2 DEF Leaving
<1>d. \A r \in G, e \in H : r.id # e.event_id
  BY <1>l DEF DisjointIds, RetiredIn
<1>5. H \cap E = {}
  BY <1>d DEF Entry
<1>c. Clash(left, kept, cp) <=> Clash(events, hashes, cp)
  <2> DEFINE Both(rows, es) == \E r \in rows, e \in es : r.id = e.event_id
  <2>1. Clash(left, kept, cp) <=> Both(A \ G, H \cup E)
    <3> HIDE DEF A, G, H, E
    <3> QED BY <1>1, <1>2 DEF Clash
  <2>2. Clash(events, hashes, cp) <=> Both(A, H)
    BY DEF Clash
  <2>3. \A r \in A \ G, e \in E : r.id # e.event_id
    BY DEF RowsIn, Entry
  <2>4. Both(A \ G, H \cup E) <=> Both(A, H)
    <3> HIDE DEF A, G, H, E
    <3> QED BY <1>d, <2>3
  <2> QED BY <2>1, <2>2, <2>4
<1>a. G \subseteq A
  OBVIOUS
<1> HIDE DEF A, G, H, E
<1>6. Cardinality(A \ G) = Cardinality(A) - Cardinality(G)
  <2>1. A \cap G = G
    BY <1>a
  <2> QED BY <1>3, <2>1, FS_Difference
<1>7. Cardinality(H \cup E) = Cardinality(H) + Cardinality(G)
  <2>1. Cardinality(H \cup E) = Cardinality(H) + Cardinality(E) - Cardinality(H \cap E)
    BY <1>3, <1>4, FS_Union
  <2>2. Cardinality(H \cap E) = 0
    BY <1>5, FS_EmptySet
  <2> QED BY <2>1, <2>2, <1>3, <1>4, FS_CardinalityType
<1>8. SegmentSize(left, kept, cp) = SegmentSize(events, hashes, cp)
  <2>1. Cardinality(A) \in Nat /\ Cardinality(G) \in Nat /\ Cardinality(H) \in Nat
    BY <1>3, FS_CardinalityType
  <2>2. SegmentSize(left, kept, cp) = Cardinality(A \ G) + Cardinality(H \cup E)
    BY <1>1, <1>2 DEF SegmentSize
  <2>3. SegmentSize(events, hashes, cp) = Cardinality(A) + Cardinality(H)
    BY DEF SegmentSize, A, H
  <2> QED BY <1>6, <1>7, <2>1, <2>2, <2>3
<1>9. SegmentEntries(left, kept, cp) = SegmentEntries(events, hashes, cp)
  BY <1>1, <1>2 DEF SegmentEntries, A, G, H, E
<1> QED BY <1>8, <1>9, <1>c
-----------------------------------------------------------------------------
(* What a change of the sealed history leaves alone.                       *)

(* What every step keeps whatever the sealed history has become. *)
Workable ==
  /\ TypeOK
  /\ RowsNumbered
  /\ TransactionsIsolated

(* The part of the invariant that does not depend on what is sealed.       *)
Structure ==
  /\ Workable
  /\ RangesOrdered
  /\ RetiredWereSealed
  /\ SealedRowsCovered

(* Checkpoint k describes what the tables hold of its range: what          *)
(* verification asks of it.                                                *)
Describes(events, hashes, cps, k) ==
  /\ cps[k].prev_chain_hash = ChainBefore(cps, k)
  /\ cps[k].chain_hash
       = Fold(cps[k].prev_chain_hash, SegmentEntries(events, hashes, cps[k]))
  /\ cps[k].row_count = SegmentSize(events, hashes, cps[k])
  /\ ~Clash(events, hashes, cps[k])

LogIntact(events, hashes, cps) ==
  \A k \in 1 .. Len(cps) : Describes(events, hashes, cps, k)

TablesIntact == LogIntact(audit_events, retention, checkpoints)

(* A step keeps the segments sealed, and what can be found out of them.    *)
SegmentsStand ==
  \A k \in 1 .. Len(checkpoints) :
    /\ k \in 1 .. Len(checkpoints')
    /\ checkpoints'[k] = checkpoints[k]
    /\ SegmentEntries(audit_events', retention', checkpoints[k])
         = SegmentEntries(audit_events, retention, checkpoints[k])
    /\ SegmentSize(audit_events', retention', checkpoints[k])
         = SegmentSize(audit_events, retention, checkpoints[k])
    /\ Clash(audit_events', retention', checkpoints[k])
         <=> Clash(audit_events, retention, checkpoints[k])

(* Whatever the checkpoints say: of a range below the ids still to be      *)
(* given a step keeps all that can be found out, and no range loses any.   *)
Kept ==
  /\ lastId <= lastId'
  /\ \A k \in 1 .. Len(checkpoints) :
       /\ k \in 1 .. Len(checkpoints')
       /\ checkpoints'[k] = checkpoints[k]
       /\ checkpoints[k].through_id <= lastId =>
            /\ SegmentEntries(audit_events', retention', checkpoints[k])
                 = SegmentEntries(audit_events, retention, checkpoints[k])
            /\ SegmentSize(audit_events', retention', checkpoints[k])
                 = SegmentSize(audit_events, retention, checkpoints[k])
            /\ Clash(audit_events', retention', checkpoints[k])
                 <=> Clash(audit_events, retention, checkpoints[k])
       /\ SegmentSize(audit_events, retention, checkpoints[k])
            <= SegmentSize(audit_events', retention', checkpoints[k])

(* A step that keeps the segments and seals only what it describes makes   *)
(* no log intact that was not, and spoils none.                            *)
LEMMA StandingStep ==
  ASSUME SegmentsStand, Len(checkpoints) \in Nat, Len(checkpoints') \in Nat,
         \A k \in 1 .. Len(checkpoints') :
           k \in 1 .. Len(checkpoints) \/ Describes(audit_events', retention', checkpoints', k)
  PROVE  TablesIntact' <=> TablesIntact
<1>1. ASSUME NEW k \in 1 .. Len(checkpoints)
      PROVE  Describes(audit_events', retention', checkpoints', k)
               <=> Describes(audit_events, retention, checkpoints, k)
  <2>1. k = 1 \/ k - 1 \in 1 .. Len(checkpoints)
    OBVIOUS
  <2>2. ChainBefore(checkpoints', k) = ChainBefore(checkpoints, k)
    BY <2>1 DEF SegmentsStand, ChainBefore
  <2> QED BY <2>2 DEF SegmentsStand, Describes
<1>2. \A k \in 1 .. Len(checkpoints) : k \in 1 .. Len(checkpoints')
  BY DEF SegmentsStand
<1> QED BY <1>1, <1>2 DEF TablesIntact, LogIntact

(* Tables left alone are as intact as they were. *)
LEMMA UntouchedStands ==
  ASSUME UNCHANGED tables
  PROVE  /\ SegmentsStand
         /\ TablesIntact' <=> TablesIntact
         /\ DisjointIds(audit_events, retention)' <=> DisjointIds(audit_events, retention)
BY DEF tables, SegmentsStand, TablesIntact, DisjointIds

(* In the program's own log checkpoints describe the tables. *)
LEMMA InvariantIntact ==
  ASSUME IInv PROVE Structure /\ TablesIntact
BY DEF IInv, Structure, Workable, SegmentsIntact, DisjointIds, TablesIntact, LogIntact, Describes,
       Clash, RowsIn, RetiredIn

-----------------------------------------------------------------------------
(* Facts every step uses.                                                  *)

(* The chain hash before the next checkpoint and the last sealed id are    *)
(* typed, and the last checkpoint is the one they come from.               *)
LEMMA LastCheckpoint ==
  ASSUME TypeOK
  PROVE  /\ Len(checkpoints) \in Nat
         /\ DOMAIN checkpoints = 1 .. Len(checkpoints)
         /\ \A k \in 1 .. Len(checkpoints) :
              /\ checkpoints[k] \in CheckpointType
              /\ checkpoints[k].from_id \in Ids /\ checkpoints[k].through_id \in Ids
         /\ LastThrough(checkpoints) \in 0 .. MaxId
         /\ \A k \in 1 .. Len(checkpoints) + 1 :
              ChainBefore(checkpoints, k) \in Seq(SUBSET Fingerprint)
         /\ checkpoints = <<>> <=> Len(checkpoints) = 0
<1>1. checkpoints \in Seq(CheckpointType)
  BY DEF TypeOK
<1>2. /\ Len(checkpoints) \in Nat
      /\ DOMAIN checkpoints = 1 .. Len(checkpoints)
      /\ checkpoints = <<>> <=> Len(checkpoints) = 0
  BY <1>1
<1>3. \A k \in 1 .. Len(checkpoints) : checkpoints[k] \in CheckpointType
  BY <1>1
<1>4. \A k \in 1 .. Len(checkpoints) :
        checkpoints[k].from_id \in Ids /\ checkpoints[k].through_id \in Ids
  BY <1>3 DEF CheckpointType
<1>5. LastThrough(checkpoints) \in 0 .. MaxId
  BY <1>2, <1>4, BoundsAssumption DEF LastThrough, Ids
<1>6. \A k \in 1 .. Len(checkpoints) + 1 :
        ChainBefore(checkpoints, k) \in Seq(SUBSET Fingerprint)
  BY <1>2, <1>3 DEF ChainBefore, GENESIS, CheckpointType
<1> QED BY <1>2, <1>3, <1>4, <1>5, <1>6

(* MAX(through_id) bounds every range, and of ordered ranges it is the     *)
(* last one's.                                                             *)
LEMMA SealedBound ==
  ASSUME TypeOK
  PROVE  /\ LastSealed(checkpoints) \in 0 .. MaxId
         /\ \A k \in 1 .. Len(checkpoints) :
              checkpoints[k].through_id <= LastSealed(checkpoints)
         /\ LastThrough(checkpoints) <= LastSealed(checkpoints)
         /\ RangesOrdered => LastSealed(checkpoints) = LastThrough(checkpoints)
<1> DEFINE S == {0} \cup {checkpoints[k].through_id : k \in DOMAIN checkpoints}
<1>1. /\ DOMAIN checkpoints = 1 .. Len(checkpoints) /\ Len(checkpoints) \in Nat
      /\ \A k \in 1 .. Len(checkpoints) : checkpoints[k].through_id \in Ids
      /\ LastThrough(checkpoints) \in 0 .. MaxId
      /\ checkpoints = <<>> <=> Len(checkpoints) = 0
  BY LastCheckpoint
<1>2. S \in SUBSET (0 .. MaxId) /\ S # {} /\ MaxId \in Nat
  BY <1>1, BoundsAssumption DEF Ids
<1>3. LastThrough(checkpoints) \in S
  BY <1>1 DEF LastThrough
<1>4. \A k \in 1 .. Len(checkpoints) : checkpoints[k].through_id \in S
  BY <1>1
<1>5. RangesOrdered => \A y \in S : y <= LastThrough(checkpoints)
  BY <1>1 DEF RangesOrdered
<1> HIDE DEF S
<1>6. Max(S) \in S /\ \A y \in S : Max(S) >= y
  BY <1>2, MaxOfNaturals
<1>7. LastSealed(checkpoints) = Max(S)
  BY DEF LastSealed, S
<1>8. LastSealed(checkpoints) \in 0 .. MaxId
  BY <1>2, <1>6, <1>7
<1>9. \A y \in S : y <= LastSealed(checkpoints)
  BY <1>2, <1>6, <1>7
<1>10. RangesOrdered => LastSealed(checkpoints) = LastThrough(checkpoints)
  <2> HAVE RangesOrdered
  <2>1. LastSealed(checkpoints) <= LastThrough(checkpoints)
    BY <1>5, <1>6, <1>7
  <2> QED BY <2>1, <1>1, <1>2, <1>3, <1>8, <1>9
<1> QED BY <1>3, <1>4, <1>8, <1>9, <1>10

(* A fold of typed entries is a typed chain hash. *)
LEMMA FoldType ==
  ASSUME NEW chain \in Seq(SUBSET Fingerprint), NEW es \in SUBSET Entries
  PROVE  Fold(chain, es) \in Seq(SUBSET Fingerprint)
<1>1. {e.fingerprint : e \in es} \in SUBSET Fingerprint
  BY DEF Entries
<1> QED BY <1>1 DEF Fold

(* The checkpoint a seal is about to insert: a new range above all sealed  *)
(* before, that holds exactly the rows selected and no retired id.         *)
LEMMA NextCheckpoint ==
  ASSUME Workable, NEW j \in Jobs, pc[j] = "sealing",
         NEW cp, cp = Checkpoint(batch[j])
  PROVE  /\ cp \in CheckpointType
         /\ cp.from_id <= cp.through_id
         /\ cp.through_id <= lastId
         /\ LastThrough(checkpoints) < cp.from_id
         /\ \E r \in audit_events : r.id = cp.from_id
         /\ \A r \in audit_events :
              r.id > LastThrough(checkpoints) => cp.from_id <= r.id /\ r.id <= cp.through_id
         /\ RetiredWereSealed =>
              /\ SegmentEntries(audit_events, retention, cp) = {Entry(r) : r \in batch[j]}
              /\ SegmentSize(audit_events, retention, cp) = Cardinality(batch[j])
              /\ RetiredIn(retention, cp.from_id, cp.through_id) = {}
         /\ cp.row_count = Cardinality(batch[j])
         /\ cp.prev_chain_hash = ChainBefore(checkpoints, Len(checkpoints) + 1)
         /\ cp.chain_hash = Fold(cp.prev_chain_hash, {Entry(r) : r \in batch[j]})
<1> DEFINE rows == batch[j]
           ids  == {r.id : r \in rows}
           seed == ChainBefore(checkpoints, Len(checkpoints) + 1)
<1>t. TypeOK
  BY DEF Workable
<1>1. rows = {r \in audit_events : r.id > LastThrough(checkpoints)} /\ rows # {}
  BY DEF Workable, TransactionsIsolated, Unsealed
<1>2. /\ rows \subseteq audit_events /\ audit_events \subseteq Row
      /\ IsFiniteSet(rows) /\ Cardinality(rows) \in Nat
  <2>1. rows \subseteq audit_events /\ audit_events \subseteq Row
    BY <1>1, <1>t DEF TypeOK
  <2> QED BY <2>1, FS_Subset, FS_CardinalityType DEF Workable, RowsNumbered
<1>3. /\ Min(ids) \in ids /\ Max(ids) \in ids
      /\ \A i \in ids : Min(ids) <= i /\ i <= Max(ids)
  <2>1. ids \in SUBSET (0 .. MaxId) /\ ids # {}
    <3>1. \A r \in rows : r.id \in 0 .. MaxId
      BY <1>2, BoundsAssumption DEF Row, Ids
    <3> QED BY <1>1, <3>1
  <2>2. ids \in SUBSET Nat
    BY <2>1, BoundsAssumption
  <2> HIDE DEF ids
  <2> QED BY <2>1, <2>2, MinOfNaturals, MaxOfNaturals, BoundsAssumption
<1>4. /\ cp.from_id = Min(ids) /\ cp.through_id = Max(ids)
      /\ cp.row_count = Cardinality(rows) /\ cp.prev_chain_hash = seed
      /\ cp.chain_hash = Fold(seed, {Entry(r) : r \in rows})
  BY DEF Checkpoint
<1>5. ids \subseteq Ids /\ \A i \in ids : i <= lastId /\ LastThrough(checkpoints) < i
  <2>1. \A r \in rows : r.id \in Ids
    BY <1>2 DEF Row
  <2>2. \A r \in rows : r.id <= lastId
    BY <1>2 DEF Workable, RowsNumbered
  <2>3. \A r \in rows : LastThrough(checkpoints) < r.id
    BY <1>1, <2>1, <1>t, LastCheckpoint DEF Ids
  <2> QED BY <2>1, <2>2, <2>3
<1>6. seed \in Seq(SUBSET Fingerprint)
  BY <1>t, LastCheckpoint
<1>7. {Entry(r) : r \in rows} \in SUBSET Entries
  BY <1>2, EntryInjective
<1>8. cp \in CheckpointType
  <2>1. Fold(seed, {Entry(r) : r \in rows}) \in Seq(SUBSET Fingerprint)
    BY <1>6, <1>7, FoldType
  <2>2. Min(ids) \in Ids /\ Max(ids) \in Ids
    BY <1>3, <1>5
  <2> HIDE DEF ids, seed
  <2>3. cp = [from_id |-> Min(ids), through_id |-> Max(ids),
              row_count |-> Cardinality(rows),
              chain_hash |-> Fold(seed, {Entry(r) : r \in rows}),
              prev_chain_hash |-> seed]
    BY DEF Checkpoint, ids, seed
  <2> QED BY <2>1, <2>2, <2>3, <1>2, <1>6 DEF CheckpointType
<1>9. RowsIn(audit_events, cp.from_id, cp.through_id) = rows
  <2>1. \A r \in audit_events : r.id \in Int
    BY <1>2 DEF Row, Ids
  <2>2. \A r \in rows : r.id \in ids
    OBVIOUS
  <2> HIDE DEF ids
  <2>3. \A r \in rows : cp.from_id <= r.id /\ r.id <= cp.through_id
    BY <2>2, <1>3, <1>4
  <2>4. LastThrough(checkpoints) < cp.from_id
    BY <1>3, <1>4, <1>5
  <2>5. LastThrough(checkpoints) \in Int /\ cp.from_id \in Int
    <3>1. LastThrough(checkpoints) \in Int
      BY <1>t, LastCheckpoint
    <3>2. \A i \in Ids : i \in Int
      BY DEF Ids
    <3>3. cp.from_id \in Ids
      BY <1>3, <1>4, <1>5
    <3> QED BY <3>1, <3>2, <3>3
  <2>6. \A r \in audit_events : cp.from_id <= r.id => r \in rows
    BY <2>1, <2>4, <2>5, <1>1
  <2> QED BY <2>3, <2>6, <1>2 DEF RowsIn
<1>10. RetiredWereSealed => RetiredIn(retention, cp.from_id, cp.through_id) = {}
  <2> HAVE RetiredWereSealed
  <2>1. \A h \in retention : h.event_id <= LastThrough(checkpoints)
    BY DEF RetiredWereSealed
  <2>2. \A h \in retention : h.event_id \in Int
    BY <1>t DEF TypeOK, Entries, Ids
  <2>3. LastThrough(checkpoints) < cp.from_id
    BY <1>3, <1>4, <1>5
  <2>4. LastThrough(checkpoints) \in Int /\ cp.from_id \in Int
    BY <1>t, LastCheckpoint, <1>3, <1>4, <1>5 DEF Ids
  <2> QED BY <2>1, <2>2, <2>3, <2>4 DEF RetiredIn
<1>11. RetiredWereSealed =>
         SegmentEntries(audit_events, retention, cp) = {Entry(r) : r \in rows}
  BY <1>9, <1>10 DEF SegmentEntries
<1>12. RetiredWereSealed =>
         SegmentSize(audit_events, retention, cp) = Cardinality(rows)
  BY <1>2, <1>9, <1>10, FS_EmptySet DEF SegmentSize
<1>13. /\ cp.from_id <= cp.through_id /\ cp.through_id <= lastId
       /\ LastThrough(checkpoints) < cp.from_id
       /\ \E r \in audit_events : r.id = cp.from_id
  BY <1>2, <1>3, <1>4, <1>5
<1>14. \A r \in audit_events :
         r.id > LastThrough(checkpoints) => cp.from_id <= r.id /\ r.id <= cp.through_id
  BY <1>1, <1>3, <1>4
<1> QED BY <1>4, <1>8, <1>10, <1>11, <1>12, <1>13, <1>14
-----------------------------------------------------------------------------
(* The inductive invariant, action by action.                              *)

(* What a range holds is finite. *)
LEMMA SegmentsFinite ==
  ASSUME RowsNumbered, NEW lo, NEW hi
  PROVE  /\ IsFiniteSet(RowsIn(audit_events, lo, hi))
         /\ IsFiniteSet(RetiredIn(retention, lo, hi))
         /\ Cardinality(RowsIn(audit_events, lo, hi)) \in Nat
         /\ Cardinality(RetiredIn(retention, lo, hi)) \in Nat
<1>1. IsFiniteSet(audit_events) /\ IsFiniteSet(retention)
  BY DEF RowsNumbered
<1>2. RowsIn(audit_events, lo, hi) \subseteq audit_events
      /\ RetiredIn(retention, lo, hi) \subseteq retention
  BY DEF RowsIn, RetiredIn
<1> QED BY <1>1, <1>2, FS_Subset, FS_CardinalityType

(* A row inserted gets an id above every one given: it enters only ranges  *)
(* that reach there, and adds to them.                                     *)
LEMMA EmitCommitKeeps ==
  ASSUME Workable, NEW p \in pending, EmitCommit(p)
  PROVE  Workable' /\ Kept
<1> DEFINE new == [id |-> NextId, ts |-> p.ts, msg |-> p.msg, context |-> p.context]
<1>t. TypeOK
  BY DEF Workable
<1>1. /\ audit_events' = audit_events \cup {new} /\ lastId' = lastId + 1
      /\ new.id = lastId + 1 /\ lastId + 1 <= MaxId /\ WriteLockFree
      /\ UNCHANGED <<now, retention, checkpoints, jobVars, verifyVars>>
  BY DEF EmitCommit, NextId
<1>2. new \in Row /\ lastId + 1 \in Ids /\ lastId \in 0 .. MaxId
  <2>1. lastId + 1 \in Ids /\ lastId \in 0 .. MaxId
    BY <1>t, <1>1, BoundsAssumption DEF TypeOK, Ids
  <2>2. p.ts \in Times /\ p.msg \in Messages /\ p.context \in Stored
    BY <1>t DEF TypeOK, Stored
  <2> QED BY <2>1, <2>2 DEF Row, NextId
<1>3. TypeOK'
  BY <1>t, <1>1, <1>2, BoundsAssumption
     DEF TypeOK, EmitCommit, jobVars, verifyVars, Row
<1>4. \A r \in audit_events : r.id \in Int /\ r.id <= lastId
  BY <1>t DEF Workable, RowsNumbered, TypeOK, Row, Ids
<1> HIDE DEF new
<1>5. RowsNumbered'
  <2>1. IsFiniteSet(audit_events') /\ IsFiniteSet(retention')
    BY <1>1, FS_AddElement DEF Workable, RowsNumbered
  <2>2. \A r \in audit_events' : r.id <= lastId'
    BY <1>1, <1>2, <1>4
  <2>3. \A r, s \in audit_events' : r.id = s.id => r = s
    <3>1. \A r \in audit_events : r.id # new.id
      BY <1>1, <1>2, <1>4
    <3> QED BY <1>1, <3>1 DEF Workable, RowsNumbered
  <2> QED BY <2>1, <2>2, <2>3 DEF RowsNumbered
<1>6. TransactionsIsolated'
  BY <1>1 DEF Workable, TransactionsIsolated, WriteLockFree, jobVars
<1>7. ASSUME NEW k \in 1 .. Len(checkpoints), checkpoints[k].through_id <= lastId
      PROVE  RowsIn(audit_events', checkpoints[k].from_id, checkpoints[k].through_id)
               = RowsIn(audit_events, checkpoints[k].from_id, checkpoints[k].through_id)
  <2>1. checkpoints[k].through_id \in Int
    BY <1>t, LastCheckpoint DEF Ids
  <2>2. ~(new.id <= checkpoints[k].through_id)
    BY <2>1, <1>1, <1>2, <1>7
  <2> QED BY <1>1, <2>2 DEF RowsIn
<1>8. ASSUME NEW k \in 1 .. Len(checkpoints)
      PROVE  SegmentSize(audit_events, retention, checkpoints[k])
               <= SegmentSize(audit_events', retention', checkpoints[k])
  <2> DEFINE lo == checkpoints[k].from_id
             hi == checkpoints[k].through_id
             A  == RowsIn(audit_events, lo, hi)
             B  == RowsIn(audit_events', lo, hi)
             H  == RetiredIn(retention, lo, hi)
  <2>1. A \subseteq B
    BY <1>1 DEF RowsIn
  <2>2. IsFiniteSet(B) /\ Cardinality(B) \in Nat
    <3>1. B \subseteq audit_events' /\ IsFiniteSet(audit_events')
      BY <1>5 DEF RowsNumbered, RowsIn
    <3> HIDE DEF B
    <3> QED BY <3>1, FS_Subset, FS_CardinalityType
  <2>3. Cardinality(A) \in Nat /\ Cardinality(H) \in Nat
    BY SegmentsFinite DEF Workable
  <2>4. Cardinality(A) <= Cardinality(B)
    <3> HIDE DEF A, B
    <3> QED BY <2>1, <2>2, FS_Subset
  <2>5. /\ SegmentSize(audit_events, retention, checkpoints[k]) = Cardinality(A) + Cardinality(H)
        /\ SegmentSize(audit_events', retention', checkpoints[k])
             = Cardinality(B) + Cardinality(H)
    BY <1>1 DEF SegmentSize
  <2> HIDE DEF A, B, H
  <2> QED BY <2>2, <2>3, <2>4, <2>5
<1>9. Kept
  <2>1. lastId <= lastId' /\ checkpoints' = checkpoints /\ retention' = retention
    BY <1>1, <1>2
  <2> QED BY <2>1, <1>7, <1>8 DEF Kept, SegmentEntries, SegmentSize, Clash
<1> QED BY <1>3, <1>5, <1>6, <1>9 DEF Workable

(* When no range reaches the new id no sealed segment changes: EmitCommit  *)
(* preserves the invariant.                                                *)
LEMMA EmitCommitStep ==
  ASSUME Structure, NEW p \in pending, EmitCommit(p)
  PROVE  /\ RangesOrdered' /\ RetiredWereSealed' /\ SealedRowsCovered'
         /\ DisjointIds(audit_events, retention) => DisjointIds(audit_events, retention)'
<1> DEFINE new == [id |-> NextId, ts |-> p.ts, msg |-> p.msg, context |-> p.context]
<1>t. TypeOK
  BY DEF Structure, Workable
<1>1. /\ audit_events' = audit_events \cup {new} /\ lastId' = lastId + 1
      /\ new.id = lastId + 1
      /\ UNCHANGED <<retention, checkpoints>>
  BY DEF EmitCommit, NextId
<1>2. lastId \in 0 .. MaxId /\ MaxId \in Nat
  BY <1>t, BoundsAssumption DEF TypeOK
<1>3. /\ LastThrough(checkpoints) \in Int /\ LastThrough(checkpoints) <= lastId
      /\ LastThrough(checkpoints)' = LastThrough(checkpoints)
  BY <1>t, <1>1, LastCheckpoint DEF Structure, RangesOrdered, LastThrough
<1> HIDE DEF new
<1>4. DisjointIds(audit_events, retention) => DisjointIds(audit_events, retention)'
  <2>1. \A h \in retention : h.event_id \in Int /\ h.event_id <= lastId
    BY <1>t, <1>2, <1>3 DEF Structure, RetiredWereSealed, TypeOK, Entries, Ids
  <2>2. \A h \in retention : new.id # h.event_id
    BY <2>1, <1>1, <1>2
  <2> QED BY <1>1, <2>2 DEF DisjointIds
<1>5. RangesOrdered'
  BY <1>1, <1>2, <1>3 DEF Structure, RangesOrdered
<1>6. RetiredWereSealed'
  BY <1>1, <1>3 DEF Structure, RetiredWereSealed
<1>7. SealedRowsCovered'
  <2>1. ~(new.id <= LastThrough(checkpoints)')
    BY <1>1, <1>2, <1>3
  <2> QED BY <1>1, <1>3, <2>1 DEF Structure, SealedRowsCovered
<1> QED BY <1>4, <1>5, <1>6, <1>7

(* The end of a transaction leaves the lock free and the others waiting. *)
LEMMA TransactionEnds ==
  ASSUME Workable, NEW j \in Jobs, pc[j] \in {"sealing", "purging"},
         pc' = [pc EXCEPT ![j] = "idle"], now' = now,
         horizon' = horizon \/ horizon' = [horizon EXCEPT ![j] = 0]
  PROVE  TransactionsIsolated'
<1>t. TypeOK
  BY DEF Workable
<1>1. \A i \in Jobs : i # j => pc[i] \notin {"sealing", "purging"}
  BY DEF Workable, TransactionsIsolated
<1>2. \A i \in Jobs :
        /\ pc'[i] # "sealing" /\ pc'[i] # "purging"
        /\ pc'[i] = "waiting" => i # j /\ pc[i] = "waiting"
  BY <1>1, <1>t DEF TypeOK
<1>3. \A i \in Jobs : pc'[i] = "waiting" => horizon'[i] = horizon[i]
  BY <1>2, <1>t DEF TypeOK
<1>4. \A i \in Jobs : pc'[i] \in {"waiting", "purging"} => horizon'[i] <= now' - Retention
  BY <1>2, <1>3 DEF Workable, TransactionsIsolated
<1> QED BY <1>2, <1>4 DEF TransactionsIsolated

(* A seal appends a checkpoint and touches nothing else. *)
LEMMA SealCommitKeeps ==
  ASSUME Workable, NEW j \in Jobs, SealCommit(j)
  PROVE  /\ Workable' /\ Kept
         /\ Len(checkpoints') = Len(checkpoints) + 1
         /\ checkpoints'[Len(checkpoints) + 1] = Checkpoint(batch[j])
<1> DEFINE cp == Checkpoint(batch[j])
           n  == Len(checkpoints)
<1>t. TypeOK
  BY DEF Workable
<1>1. /\ checkpoints' = Append(checkpoints, cp) /\ pc[j] = "sealing"
      /\ pc' = [pc EXCEPT ![j] = "idle"] /\ batch' = [batch EXCEPT ![j] = {}]
      /\ UNCHANGED <<now, audit_events, retention, lastId, pending, horizon, verifyVars>>
  BY DEF SealCommit
<1>2. cp \in CheckpointType
  BY <1>1, NextCheckpoint
<1> HIDE DEF cp
<1>3. /\ Len(checkpoints') = n + 1 /\ n \in Nat
      /\ \A k \in 1 .. n : checkpoints'[k] = checkpoints[k]
      /\ checkpoints'[n + 1] = cp
      /\ checkpoints' \in Seq(CheckpointType)
  BY <1>t, <1>1, <1>2 DEF TypeOK
<1>4. TypeOK'
  BY <1>t, <1>1, <1>3 DEF TypeOK, verifyVars
<1>5. RowsNumbered'
  BY <1>1 DEF Workable, RowsNumbered
<1>6. TransactionsIsolated'
  BY <1>1, TransactionEnds
<1>7. Kept
  <2>1. ASSUME NEW k \in 1 .. n
        PROVE  SegmentSize(audit_events, retention, checkpoints[k]) \in Int
    BY SegmentsFinite DEF SegmentSize, Workable
  <2>2. lastId \in Int
    BY <1>t DEF TypeOK
  <2> QED BY <2>1, <2>2, <1>1, <1>3 DEF Kept
<1> QED BY <1>3, <1>4, <1>5, <1>6, <1>7 DEF Workable, cp

(* The range sealed is new and above those sealed before: SealCommit       *)
(* preserves the invariant, and its checkpoint describes its rows.         *)
LEMMA SealCommitStep ==
  ASSUME Structure, NEW j \in Jobs, SealCommit(j)
  PROVE  /\ RangesOrdered' /\ RetiredWereSealed' /\ SealedRowsCovered'
         /\ DisjointIds(audit_events, retention) => DisjointIds(audit_events, retention)'
         /\ Describes(audit_events', retention', checkpoints', Len(checkpoints) + 1)
         /\ Len(checkpoints') = Len(checkpoints) + 1
<1> DEFINE cp == Checkpoint(batch[j])
           n  == Len(checkpoints)
<1>t. TypeOK
  BY DEF Structure, Workable
<1>0. pc[j] = "sealing"
  BY DEF SealCommit
<1>1. UNCHANGED <<audit_events, retention, lastId>>
  BY DEF SealCommit
<1>2. /\ cp \in CheckpointType
      /\ cp.from_id <= cp.through_id
      /\ cp.through_id <= lastId
      /\ LastThrough(checkpoints) < cp.from_id
      /\ \A r \in audit_events :
           r.id > LastThrough(checkpoints) => cp.from_id <= r.id /\ r.id <= cp.through_id
      /\ cp.chain_hash = Fold(cp.prev_chain_hash, SegmentEntries(audit_events, retention, cp))
      /\ cp.row_count = SegmentSize(audit_events, retention, cp)
      /\ cp.prev_chain_hash = ChainBefore(checkpoints, n + 1)
      /\ ~Clash(audit_events, retention, cp)
  BY <1>0, NextCheckpoint DEF Clash, Structure
<1>3. cp.from_id \in Int /\ cp.through_id \in Int /\ lastId \in Int /\ n \in Nat
  BY <1>t, <1>2, LastCheckpoint DEF CheckpointType, Ids, TypeOK
<1>4. LastThrough(checkpoints) \in Int /\ LastThrough(checkpoints) < cp.through_id
  BY <1>t, <1>2, <1>3, LastCheckpoint
<1>5. /\ Len(checkpoints') = n + 1
      /\ \A k \in 1 .. n : checkpoints'[k] = checkpoints[k]
      /\ checkpoints'[n + 1] = cp
  BY SealCommitKeeps DEF Structure, Kept
<1> HIDE DEF cp
<1>6. LastThrough(checkpoints') = cp.through_id
  <2>1. checkpoints' # <<>>
    BY <1>3, <1>5
  <2> QED BY <2>1, <1>3, <1>5 DEF LastThrough
<1>7. ChainBefore(checkpoints', n + 1) = ChainBefore(checkpoints, n + 1)
  BY <1>3, <1>5 DEF ChainBefore
<1>8. Describes(audit_events', retention', checkpoints', n + 1)
  BY <1>7, <1>1, <1>2, <1>5 DEF Describes
<1>9. DisjointIds(audit_events, retention)' <=> DisjointIds(audit_events, retention)
  BY <1>1 DEF DisjointIds
<1>10. RangesOrdered'
  <2>1. \A k \in 1 .. n : /\ checkpoints[k].through_id <= LastThrough(checkpoints)
                           /\ checkpoints[k].through_id \in Int
    BY <1>t, LastCheckpoint DEF Structure, RangesOrdered, Ids
  <2>2. \A k \in 1 .. n + 1 :
          /\ checkpoints'[k].from_id <= checkpoints'[k].through_id
          /\ checkpoints'[k].through_id <= LastThrough(checkpoints')
    <3> TAKE k \in 1 .. n + 1
    <3>1. CASE k = n + 1
      BY <3>1, <1>2, <1>3, <1>5, <1>6
    <3>2. CASE k # n + 1
      <4>1. k \in 1 .. n
        BY <3>2, <1>3
      <4> QED BY <4>1, <2>1, <1>3, <1>4, <1>5, <1>6 DEF Structure, RangesOrdered
    <3> QED BY <3>1, <3>2
  <2>3. \A k, m \in 1 .. n + 1 :
          k < m => checkpoints'[k].through_id < checkpoints'[m].from_id
    <3> TAKE k, m \in 1 .. n + 1
    <3> HAVE k < m
    <3>1. k \in 1 .. n
      BY <1>3
    <3>2. CASE m = n + 1
      BY <3>1, <3>2, <2>1, <1>2, <1>3, <1>4, <1>5
    <3>3. CASE m # n + 1
      <4>1. m \in 1 .. n
        BY <3>3, <1>3
      <4> QED BY <3>1, <4>1, <1>5 DEF Structure, RangesOrdered
    <3> QED BY <3>2, <3>3
  <2> QED BY <2>2, <2>3, <1>1, <1>2, <1>5, <1>6 DEF RangesOrdered
<1>11. RetiredWereSealed'
  <2>1. \A h \in retention : h.event_id \in Int
    BY <1>t DEF TypeOK, Entries, Ids
  <2> QED BY <2>1, <1>1, <1>3, <1>4, <1>6 DEF Structure, RetiredWereSealed
<1>12. SealedRowsCovered'
  <2> SUFFICES ASSUME NEW r \in audit_events, r.id <= LastThrough(checkpoints')
               PROVE  \E k \in 1 .. n + 1 :
                        checkpoints'[k].from_id <= r.id /\ r.id <= checkpoints'[k].through_id
    BY <1>1, <1>5 DEF SealedRowsCovered
  <2>1. r.id \in Int
    BY <1>t DEF TypeOK, Row, Ids
  <2>2. CASE r.id <= LastThrough(checkpoints)
    <3>1. PICK k \in 1 .. n :
            checkpoints[k].from_id <= r.id /\ r.id <= checkpoints[k].through_id
      BY <2>2 DEF Structure, SealedRowsCovered
    <3> QED BY <3>1, <1>3, <1>5
  <2>3. CASE r.id > LastThrough(checkpoints)
    <3>1. n + 1 \in 1 .. n + 1
      BY <1>3
    <3> QED BY <2>3, <3>1, <1>2, <1>5
  <2> QED BY <2>1, <2>2, <2>3, <1>4
<1> QED BY <1>5, <1>8, <1>9, <1>10, <1>11, <1>12

(* A purge moves rows of the sealed ids to the retention hashes and drops  *)
(* unsealed ones, which no range reaches.                                  *)
LEMMA PurgeCommitKeeps ==
  ASSUME Workable, NEW j \in Jobs, PurgeCommit(j)
  PROVE  Workable' /\ Kept
<1> DEFINE h    == horizon[j]
           last == LastSealed(checkpoints)
<1>t. TypeOK
  BY DEF Workable
<1>1. /\ retention' = retention \cup {Entry(r) : r \in batch[j]} /\ pc[j] = "purging"
      /\ audit_events' = {r \in audit_events : ~Expired(r, h)}
      /\ pc' = [pc EXCEPT ![j] = "idle"] /\ batch' = [batch EXCEPT ![j] = {}]
      /\ horizon' = [horizon EXCEPT ![j] = 0]
      /\ UNCHANGED <<now, checkpoints, lastId, pending, verifyVars>>
  BY DEF PurgeCommit
<1>2. batch[j] = {r \in audit_events : Expired(r, h) /\ r.id <= last}
  BY <1>1 DEF Workable, TransactionsIsolated, Retiring
<1>3. h \in Int /\ last \in Int
  BY <1>t, SealedBound DEF TypeOK
<1>4. /\ audit_events \in SUBSET Row /\ IsFiniteSet(audit_events)
      /\ retention \in SUBSET Entries /\ IsFiniteSet(retention)
      /\ \A r, s \in audit_events : r.id = s.id => r = s
  BY <1>t DEF TypeOK, Workable, RowsNumbered
<1>d. DisjointIds(Leaving(audit_events, h, last), retention)
  BY <1>2 DEF PurgeCommit, RetirementConflict, DisjointIds, Leaving
<1>5. audit_events' \subseteq audit_events /\ batch[j] \subseteq audit_events
  BY <1>1, <1>2
<1>6. TypeOK'
  <2>1. {Entry(r) : r \in batch[j]} \subseteq Entries
    BY <1>4, <1>5, EntryInjective
  <2> QED BY <2>1, <1>t, <1>1, <1>4, <1>5 DEF TypeOK, verifyVars
<1>7. Kept
  <2>1. ASSUME NEW k \in 1 .. Len(checkpoints)
        PROVE  /\ SegmentEntries(audit_events', retention', checkpoints[k])
                    = SegmentEntries(audit_events, retention, checkpoints[k])
               /\ SegmentSize(audit_events', retention', checkpoints[k])
                    = SegmentSize(audit_events, retention, checkpoints[k])
               /\ Clash(audit_events', retention', checkpoints[k])
                    <=> Clash(audit_events, retention, checkpoints[k])
    <3> DEFINE cp == checkpoints[k]
    <3>1. cp.from_id \in Int /\ cp.through_id \in Int /\ cp.through_id <= last
      BY <1>t, LastCheckpoint, SealedBound DEF Ids
    <3>2. /\ audit_events' = Remaining(audit_events, h)
          /\ retention' = WithHashesOf(retention, Leaving(audit_events, h, last))
      BY <1>1, <1>2 DEF Remaining, WithHashesOf, Leaving
    <3> HIDE DEF cp, h, last
    <3> QED BY <3>1, <3>2, <1>3, <1>4, <1>d, PurgePreservesSegment DEF cp
  <2>2. ASSUME NEW k \in 1 .. Len(checkpoints)
        PROVE  SegmentSize(audit_events, retention, checkpoints[k]) \in Int
    BY SegmentsFinite DEF SegmentSize, Workable
  <2>3. lastId <= lastId' /\ checkpoints' = checkpoints
    BY <1>t, <1>1 DEF TypeOK
  <2>4. \A k \in 1 .. Len(checkpoints) :
          SegmentSize(audit_events, retention, checkpoints[k])
            <= SegmentSize(audit_events', retention', checkpoints[k])
    BY <2>1, <2>2
  <2> QED BY <2>1, <2>3, <2>4 DEF Kept
<1>8. RowsNumbered'
  <2>1. IsFiniteSet(audit_events') /\ IsFiniteSet(batch[j])
    BY <1>4, <1>5, FS_Subset
  <2>2. IsFiniteSet({Entry(r) : r \in batch[j]})
    BY <2>1, <1>4, <1>5, EntriesOfRows
  <2>3. IsFiniteSet(retention')
    BY <2>2, <1>1, <1>4, FS_Union
  <2> QED BY <2>1, <2>3, <1>1, <1>5 DEF Workable, RowsNumbered
<1>9. TransactionsIsolated'
  BY <1>1, TransactionEnds
<1> QED BY <1>6, <1>7, <1>8, <1>9 DEF Workable

(* A purge retires what a seal covered: PurgeCommit preserves the          *)
(* invariant.                                                              *)
LEMMA PurgeCommitStep ==
  ASSUME Structure, NEW j \in Jobs, PurgeCommit(j)
  PROVE  /\ RangesOrdered' /\ RetiredWereSealed' /\ SealedRowsCovered'
         /\ DisjointIds(audit_events, retention) => DisjointIds(audit_events, retention)'
<1> DEFINE h    == horizon[j]
           last == LastThrough(checkpoints)
<1>t. TypeOK
  BY DEF Structure, Workable
<1>1. /\ retention' = retention \cup {Entry(r) : r \in batch[j]} /\ pc[j] = "purging"
      /\ audit_events' = {r \in audit_events : ~Expired(r, h)}
      /\ UNCHANGED <<checkpoints, lastId>>
  BY DEF PurgeCommit
<1>2. batch[j] = {r \in audit_events : Expired(r, h) /\ r.id <= last}
  <2>1. LastSealed(checkpoints) = last
    BY <1>t, SealedBound DEF Structure
  <2> QED BY <2>1, <1>1 DEF Structure, Workable, TransactionsIsolated, Retiring
<1>3. last' = last
  BY <1>1
<1>4. /\ audit_events' \subseteq audit_events /\ batch[j] \subseteq audit_events
      /\ audit_events' \cap batch[j] = {}
  BY <1>1, <1>2
<1>5. DisjointIds(audit_events, retention) => DisjointIds(audit_events, retention)'
  <2>1. \A r \in audit_events', s \in batch[j] : r.id # Entry(s).event_id
    BY <1>4 DEF Structure, Workable, RowsNumbered, Entry
  <2> QED BY <2>1, <1>1, <1>4 DEF DisjointIds
<1>6. RangesOrdered'
  BY <1>1, <1>3 DEF Structure, RangesOrdered
<1>7. RetiredWereSealed'
  <2>1. \A r \in batch[j] : Entry(r).event_id <= last
    BY <1>2 DEF Entry
  <2>2. \A e \in retention' : e.event_id <= last
    BY <2>1, <1>1 DEF Structure, RetiredWereSealed
  <2> QED BY <2>2, <1>3 DEF RetiredWereSealed
<1>8. SealedRowsCovered'
  BY <1>1, <1>3, <1>4 DEF Structure, SealedRowsCovered
<1> QED BY <1>5, <1>6, <1>7, <1>8

(* The steps that leave the tables alone keep what the invariant says of   *)
(* them.                                                                   *)
LEMMA TablesUntouched ==
  ASSUME Workable, UNCHANGED tables
  PROVE  RowsNumbered' /\ Kept
<1>1. ASSUME NEW k \in 1 .. Len(checkpoints)
      PROVE  SegmentSize(audit_events, retention, checkpoints[k]) \in Int
  BY SegmentsFinite DEF SegmentSize, Workable
<1>2. lastId \in Int
  BY DEF Workable, TypeOK
<1> QED BY <1>1, <1>2 DEF Workable, tables, RowsNumbered, Kept

LEMMA IsolationUntouched ==
  ASSUME Workable, UNCHANGED <<now, tables, jobVars>>
  PROVE  TransactionsIsolated'
BY DEF Workable, TransactionsIsolated, Unsealed, Retiring, tables, jobVars

(* Verification of one checkpoint finds out whether it describes the       *)
(* snapshot.                                                               *)
LEMMA VerifyCheckpointStep ==
  ASSUME Workable, VerifyCheckpoint
  PROVE  /\ Workable'
         /\ UNCHANGED <<tables, view, vpc>> /\ vk' = vk + 1
         /\ vpc = "checking" /\ vk \in 1 .. Len(view.cps)
         /\ report'.ok = (report.ok /\ Describes(view.events, view.hashes, view.cps, vk))
<1> DEFINE cp == view.cps[vk]
<1>t. TypeOK
  BY DEF Workable
<1>1. vk \in 1 .. Len(view.cps) /\ view.cps \in Seq(CheckpointType)
  BY <1>t DEF TypeOK, VerifyCheckpoint
<1>2. (SeedContinues(vk) /\ CountMatches(cp) /\ HashMatches(cp))
        = Describes(view.events, view.hashes, view.cps, vk)
  BY DEF SeedContinues, CountMatches, HashMatches, Describes, RowsSeen, HashesSeen, Clash
<1>5. /\ report'.ok = (report.ok /\ SeedContinues(vk) /\ CountMatches(cp) /\ HashMatches(cp))
      /\ report' \in [ok : BOOLEAN, verified : Nat, aged_out : Nat, partial : Nat]
  <2>1. report \in [ok : BOOLEAN, verified : Nat, aged_out : Nat, partial : Nat]
    BY <1>t DEF TypeOK
  <2>2. PICK ok, v, a, p :
          /\ report' = [report EXCEPT !.ok = ok, !.verified = v, !.aged_out = a, !.partial = p]
          /\ ok = (report.ok /\ SeedContinues(vk) /\ CountMatches(cp) /\ HashMatches(cp))
          /\ v \in {report.verified, report.verified + 1}
          /\ a \in {report.aged_out, report.aged_out + 1}
          /\ p \in {report.partial, report.partial + 1}
    BY Zenon DEF VerifyCheckpoint
  <2>3. ok \in BOOLEAN /\ v \in Nat /\ a \in Nat /\ p \in Nat
    BY <2>1, <2>2
  <2> QED BY <2>1, <2>2, <2>3
<1>7. /\ vk' = vk + 1 /\ view' = view
      /\ UNCHANGED <<now, tables, pending, jobVars, vpc>>
      /\ vpc = "checking"
  BY DEF VerifyCheckpoint
<1>8. TypeOK'
  BY <1>t, <1>5, <1>7 DEF TypeOK, tables, jobVars
<1>9. Workable'
  BY <1>7, <1>8, TablesUntouched, IsolationUntouched
  DEF Workable
<1>10. report'.ok = (report.ok /\ Describes(view.events, view.hashes, view.cps, vk))
  <2> HIDE DEF cp
  <2> QED BY <1>2, <1>5, Zenon
<1> QED BY <1>1, <1>7, <1>9, <1>10

(* A transaction that begins finds the lock free and selects current rows. *)
LEMMA JobStep ==
  ASSUME Workable, NEW j \in Jobs,
         \/ SealBegin(j) \/ PurgeHorizon(j) \/ PurgeBegin(j) \/ JobAbort(j)
  PROVE  Workable' /\ UNCHANGED <<tables, verifyVars>>
<1>t. TypeOK
  BY DEF Workable
<1>1. UNCHANGED <<now, tables, pending, verifyVars>>
  BY DEF SealBegin, PurgeHorizon, PurgeBegin, JobAbort
<1>2. /\ Unsealed \subseteq Row
      /\ \A h : Retiring(h) \subseteq Row
      /\ now - Retention \in Int
  BY <1>t, RetentionAssumption DEF TypeOK, Unsealed, Retiring, Times
<1>3. TypeOK'
  <2>1. CASE SealBegin(j)
    BY <2>1, <1>t, <1>1, <1>2 DEF TypeOK, SealBegin, tables, verifyVars
  <2>2. CASE PurgeHorizon(j)
    BY <2>2, <1>t, <1>1, <1>2 DEF TypeOK, PurgeHorizon, tables, verifyVars
  <2>3. CASE PurgeBegin(j)
    BY <2>3, <1>t, <1>1, <1>2 DEF TypeOK, PurgeBegin, tables, verifyVars
  <2>4. CASE JobAbort(j)
    BY <2>4, <1>t, <1>1, <1>2 DEF TypeOK, JobAbort, tables, verifyVars
  <2> QED BY <2>1, <2>2, <2>3, <2>4
<1>4. /\ Unsealed' = Unsealed
      /\ \A h : Retiring(h)' = Retiring(h)
  BY <1>1 DEF Unsealed, Retiring, tables
<1>5. TransactionsIsolated'
  <2>1. CASE SealBegin(j)
    <3>1. /\ pc' = [pc EXCEPT ![j] = "sealing"] /\ batch' = [batch EXCEPT ![j] = Unsealed]
          /\ Unsealed # {} /\ horizon' = horizon
          /\ \A i \in Jobs : pc[i] # "sealing" /\ pc[i] # "purging"
      BY <2>1 DEF SealBegin, WriteLockFree
    <3> QED BY <3>1, <1>t, <1>1, <1>4 DEF Workable, TransactionsIsolated, TypeOK
  <2>2. CASE PurgeHorizon(j)
    <3>1. /\ pc' = [pc EXCEPT ![j] = "waiting"] /\ batch' = batch
          /\ horizon' = [horizon EXCEPT ![j] = now - Retention]
          /\ pc[j] = "idle"
      BY <2>2 DEF PurgeHorizon
    <3>2. \A i \in Jobs :
            /\ pc'[i] \in {"sealing", "purging"} =>
                 i # j /\ pc'[i] = pc[i] /\ horizon'[i] = horizon[i] /\ batch'[i] = batch[i]
            /\ pc'[i] \in {"waiting", "purging"} => horizon'[i] <= now - Retention
      BY <3>1, <1>t, <1>2 DEF Workable, TransactionsIsolated, TypeOK
    <3>3. \A i \in Jobs : Retiring(horizon[i])' = Retiring(horizon'[i])
      BY <1>1 DEF Retiring, tables
    <3> QED BY <3>2, <3>3, <1>1, <1>4 DEF Workable, TransactionsIsolated
  <2>3. CASE PurgeBegin(j)
    <3>1. /\ pc' = [pc EXCEPT ![j] = "purging"] /\ horizon' = horizon
          /\ batch' = [batch EXCEPT ![j] = Retiring(horizon[j])]
          /\ pc[j] = "waiting"
          /\ \A i \in Jobs : pc[i] # "sealing" /\ pc[i] # "purging"
      BY <2>3 DEF PurgeBegin, WriteLockFree
    <3>2. \A i \in Jobs : Retiring(horizon[i])' = Retiring(horizon[i])
      BY <3>1, <1>1 DEF Retiring, tables
    <3> QED BY <3>1, <3>2, <1>t, <1>1 DEF Workable, TransactionsIsolated, TypeOK
  <2>4. CASE JobAbort(j)
    <3>1. /\ pc' = [pc EXCEPT ![j] = "idle"] /\ batch' = [batch EXCEPT ![j] = {}]
          /\ horizon' = [horizon EXCEPT ![j] = 0]
      BY <2>4 DEF JobAbort
    <3>2. \A i \in Jobs : pc'[i] # "idle" =>
            i # j /\ pc'[i] = pc[i] /\ batch'[i] = batch[i] /\ horizon'[i] = horizon[i]
      BY <3>1, <1>t DEF TypeOK
    <3>3. \A i \in Jobs : Retiring(horizon[i])' = Retiring(horizon'[i])
      BY <1>1 DEF Retiring, tables
    <3> QED BY <3>2, <3>3, <1>1, <1>4 DEF Workable, TransactionsIsolated
  <2> QED BY <2>1, <2>2, <2>3, <2>4
<1> QED BY <1>1, <1>3, <1>5, TablesUntouched DEF Workable

(* The clock and the logger's own steps touch no table. *)
LEMMA QuietStep ==
  ASSUME Workable,
         \/ Tick
         \/ \E l \in Loggers, m \in Messages, c \in Logged : LogCall(l, m, c)
         \/ \E p \in pending : EmitFailsafe(p)
         \/ UNCHANGED vars
  PROVE  Workable' /\ UNCHANGED <<tables, verifyVars>>
<1>t. TypeOK
  BY DEF Workable
<1>1. /\ UNCHANGED <<tables, jobVars, verifyVars>>
      /\ now' \in Times /\ now <= now'
      /\ pending' \subseteq [by : Loggers, ts : Times, msg : Messages, context : Logged]
  BY <1>t, BoundsAssumption
     DEF Tick, LogCall, EmitFailsafe, vars, TypeOK, Times
<1>2. TypeOK'
  BY <1>t, <1>1 DEF TypeOK, tables, jobVars, verifyVars
<1>3. TransactionsIsolated'
  <2>1. /\ Unsealed' = Unsealed
        /\ \A i \in Jobs : Retiring(horizon[i])' = Retiring(horizon[i])
    BY <1>1 DEF Unsealed, Retiring, tables, jobVars
  <2>2. \A i \in Jobs : horizon[i] \in Int
    BY <1>t DEF TypeOK
  <2>3. now \in Int /\ now' \in Int /\ Retention \in Int
    BY <1>t, <1>1, RetentionAssumption DEF TypeOK, Times
  <2>4. \A i \in Jobs : pc[i] \in {"waiting", "purging"} => horizon[i] <= now' - Retention
    BY <2>2, <2>3, <1>1 DEF Workable, TransactionsIsolated
  <2> QED BY <2>1, <2>4, <1>1 DEF Workable, TransactionsIsolated, jobVars
<1> QED BY <1>1, <1>2, <1>3, TablesUntouched DEF Workable

(* A verification begins with a snapshot of the tables, and lets it go     *)
(* with its report.                                                        *)
LEMMA VerifyBoundsStep ==
  ASSUME Workable, VerifyBegin \/ VerifyEnd
  PROVE  Workable' /\ UNCHANGED tables
<1>t. TypeOK
  BY DEF Workable
<1>1. UNCHANGED <<now, tables, pending, jobVars>>
  BY DEF VerifyBegin, VerifyEnd
<1>2. TypeOK'
  <2>1. CASE VerifyBegin
    BY <2>1, <1>t, <1>1 DEF VerifyBegin, TypeOK, FreshReport, tables, jobVars
  <2>2. CASE VerifyEnd
    <3>1. view' = EmptyView /\ report' = report /\ vk' = 1 /\ vpc' = "done"
      BY <2>2 DEF VerifyEnd
    <3> QED BY <3>1, <1>t, <1>1 DEF TypeOK, EmptyView, tables, jobVars
  <2> QED BY <2>1, <2>2
<1> QED BY <1>1, <1>2, TablesUntouched, IsolationUntouched DEF Workable

(* Every step of the program keeps what it works on in order, and every    *)
(* range it can tell.                                                      *)
LEMMA WorkableStep ==
  ASSUME Workable, [Next]_vars
  PROVE  Workable' /\ Kept
<1>1. ASSUME NEW p \in pending, EmitCommit(p) PROVE Workable' /\ Kept
  BY <1>1, EmitCommitKeeps
<1>2. ASSUME NEW j \in Jobs, SealCommit(j) PROVE Workable' /\ Kept
  BY <1>2, SealCommitKeeps
<1>3. ASSUME NEW j \in Jobs, PurgeCommit(j) PROVE Workable' /\ Kept
  BY <1>3, PurgeCommitKeeps
<1>4. ASSUME NEW j \in Jobs,
             SealBegin(j) \/ PurgeHorizon(j) \/ PurgeBegin(j) \/ JobAbort(j)
      PROVE  Workable' /\ Kept
  BY <1>4, JobStep, TablesUntouched
<1>5. ASSUME VerifyCheckpoint PROVE Workable' /\ Kept
  BY <1>5, VerifyCheckpointStep, TablesUntouched
<1>6. ASSUME VerifyBegin \/ VerifyEnd PROVE Workable' /\ Kept
  BY <1>6, VerifyBoundsStep, TablesUntouched
<1>7. ASSUME \/ Tick
             \/ \E l \in Loggers, m \in Messages, c \in Logged : LogCall(l, m, c)
             \/ \E p \in pending : EmitFailsafe(p)
             \/ UNCHANGED vars
      PROVE  Workable' /\ Kept
  BY <1>7, QuietStep, TablesUntouched
<1> QED BY <1>1, <1>2, <1>3, <1>4, <1>5, <1>6, <1>7 DEF Next

(* A step changes the tables by a commit of one of three kinds. *)
LEMMA TableStep ==
  ASSUME [Next]_vars
  PROVE  \/ \E p \in pending : EmitCommit(p)
         \/ \E j \in Jobs : SealCommit(j) \/ PurgeCommit(j)
         \/ UNCHANGED tables
BY DEF Next, Tick, LogCall, EmitFailsafe, SealBegin, PurgeHorizon, PurgeBegin, JobAbort,
       VerifyBegin, VerifyCheckpoint, VerifyEnd, vars

(* Every step of the program keeps the structure, damages nothing that is  *)
(* sealed, and repairs nothing either.                                     *)
LEMMA ProgramStep ==
  ASSUME Structure, [Next]_vars
  PROVE  /\ Structure' /\ SegmentsStand
         /\ TablesIntact' <=> TablesIntact
         /\ DisjointIds(audit_events, retention) => DisjointIds(audit_events, retention)'
<1>1. Workable' /\ Kept
  BY WorkableStep DEF Structure
<1>2. SegmentsStand
  <2>1. ASSUME NEW k \in 1 .. Len(checkpoints) PROVE checkpoints[k].through_id <= lastId
    <3>1. /\ checkpoints[k].through_id <= LastThrough(checkpoints)
          /\ LastThrough(checkpoints) <= lastId
      BY DEF Structure, RangesOrdered
    <3>2. /\ checkpoints[k].through_id \in Int /\ LastThrough(checkpoints) \in Int
          /\ lastId \in Int
      BY LastCheckpoint DEF Structure, Workable, TypeOK, Ids
    <3> QED BY <3>1, <3>2
  <2> QED BY <2>1, <1>1 DEF Kept, SegmentsStand
<1>3. Len(checkpoints) \in Nat /\ Len(checkpoints') \in Nat
  BY <1>1 DEF Structure, Workable, TypeOK
<1> DEFINE Rest == /\ RangesOrdered' /\ RetiredWereSealed' /\ SealedRowsCovered'
                   /\ TablesIntact' <=> TablesIntact
                   /\ DisjointIds(audit_events, retention)
                        => DisjointIds(audit_events, retention)'
<1>4. ASSUME Len(checkpoints') = Len(checkpoints) PROVE TablesIntact' <=> TablesIntact
  BY <1>2, <1>3, <1>4, StandingStep
<1>5. ASSUME NEW p \in pending, EmitCommit(p) PROVE Rest
  <2>1. Len(checkpoints') = Len(checkpoints)
    BY <1>5 DEF EmitCommit
  <2> QED BY <2>1, <1>4, <1>5, EmitCommitStep
<1>6. ASSUME NEW j \in Jobs, SealCommit(j) PROVE Rest
  <2>1. /\ Describes(audit_events', retention', checkpoints', Len(checkpoints) + 1)
        /\ Len(checkpoints') = Len(checkpoints) + 1
    BY <1>6, SealCommitStep
  <2>2. \A k \in 1 .. Len(checkpoints') :
          k \in 1 .. Len(checkpoints) \/ k = Len(checkpoints) + 1
    BY <2>1, <1>3
  <2>3. TablesIntact' <=> TablesIntact
    BY <2>1, <2>2, <1>2, <1>3, StandingStep
  <2> QED BY <2>3, <1>6, SealCommitStep
<1>7. ASSUME NEW j \in Jobs, PurgeCommit(j) PROVE Rest
  <2>1. Len(checkpoints') = Len(checkpoints)
    BY <1>7 DEF PurgeCommit
  <2> QED BY <2>1, <1>4, <1>7, PurgeCommitStep
<1>8. ASSUME UNCHANGED tables PROVE Rest
  <2>1. RangesOrdered' /\ RetiredWereSealed' /\ SealedRowsCovered'
    BY <1>8 DEF tables, Structure, RangesOrdered, RetiredWereSealed, SealedRowsCovered
  <2> QED BY <2>1, <1>8, UntouchedStands
<1> HIDE DEF Rest
<1>9. Rest
  BY <1>5, <1>6, <1>7, <1>8, TableStep
<1> QED BY <1>1, <1>2, <1>9 DEF Structure, Rest

(* A step is of the verifier or leaves it alone. *)
LEMMA VerifierStep ==
  ASSUME [Next]_vars
  PROVE  VerifyBegin \/ VerifyCheckpoint \/ VerifyEnd \/ UNCHANGED verifyVars
BY DEF Next, Tick, LogCall, EmitCommit, EmitFailsafe, SealBegin, SealCommit, PurgeHorizon,
       PurgeBegin, PurgeCommit, JobAbort, vars, tables, jobVars, verifyVars

-----------------------------------------------------------------------------
(* The theorems.                                                           *)

(* The inductive invariant holds at first. *)
LEMMA InvariantInit == Init => IInv
<1> SUFFICES ASSUME Init PROVE IInv
  OBVIOUS
<1>1. TypeOK
  BY BoundsAssumption, RetentionAssumption
     DEF Init, TypeOK, EmptyView, FreshReport, Times
<1>2. SegmentsIntact(audit_events, retention, checkpoints)
  BY DEF Init, SegmentsIntact
<1>3. RangesOrdered /\ SealedRowsCovered /\ DisjointIds(audit_events, retention)
  BY DEF Init, RangesOrdered, SealedRowsCovered, DisjointIds, LastThrough
<1>4. RowsNumbered /\ RetiredWereSealed
  BY FS_EmptySet DEF Init, RowsNumbered, RetiredWereSealed
<1>5. TransactionsIsolated
  BY DEF Init, TransactionsIsolated
<1>6. VerifierSeesIntactLog
  BY DEF Init, VerifierSeesIntactLog, EmptyView, FreshReport, SegmentsIntact, DisjointIds
<1> QED BY <1>1, <1>2, <1>3, <1>4, <1>5, <1>6 DEF IInv

(* Every step of the audit trail preserves the inductive invariant. *)
LEMMA InvariantStep == IInv /\ [Next]_vars => IInv'
<1> SUFFICES ASSUME IInv, [Next]_vars PROVE IInv'
  OBVIOUS
<1>1. Structure /\ TablesIntact
  BY InvariantIntact
<1>2. Structure' /\ TablesIntact' /\ DisjointIds(audit_events, retention)'
  BY <1>1, ProgramStep DEF IInv
<1>3. VerifierSeesIntactLog'
  <2>1. CASE VerifyBegin
    BY <2>1 DEF VerifyBegin, FreshReport, IInv, VerifierSeesIntactLog
  <2>2. CASE VerifyEnd
    <3>1. view' = EmptyView /\ report' = report
      BY <2>2 DEF VerifyEnd
    <3> QED BY <3>1 DEF EmptyView, IInv, VerifierSeesIntactLog, SegmentsIntact, DisjointIds
  <2>3. CASE VerifyCheckpoint
    <3>1. /\ view' = view /\ vk \in 1 .. Len(view.cps)
          /\ report'.ok = (report.ok /\ Describes(view.events, view.hashes, view.cps, vk))
      BY <2>3, <1>1, VerifyCheckpointStep DEF Structure
    <3>2. Describes(view.events, view.hashes, view.cps, vk)
      BY <3>1 DEF IInv, VerifierSeesIntactLog, SegmentsIntact, DisjointIds, Describes,
                  Clash, RowsIn, RetiredIn
    <3> QED BY <3>1, <3>2 DEF IInv, VerifierSeesIntactLog
  <2>4. CASE UNCHANGED verifyVars
    BY <2>4 DEF IInv, VerifierSeesIntactLog, verifyVars
  <2> QED BY <2>1, <2>2, <2>3, <2>4, VerifierStep
<1>4. IInv'
  BY <1>2, <1>3
     DEF IInv, Structure, Workable, SegmentsIntact, TablesIntact, LogIntact, Describes
<1> QED BY <1>4

(* The inductive invariant is an invariant of the audit trail. *)
THEOREM InvariantHolds == Spec => []IInv
BY InvariantInit, InvariantStep, PTL DEF Spec

(* Every variable of the audit trail keeps its type, for any number of     *)
(* loggers and jobs and any retention period.                              *)
THEOREM TypeCorrect == Spec => []TypeOK
<1>1. IInv => TypeOK
  BY DEF IInv
<1> QED BY <1>1, InvariantHolds, PTL

(* verify_audit_log never reports tampering of an untouched log, whatever  *)
(* seals, purges, inserts and aborted transactions run beside it.          *)
THEOREM VerificationIsSound == Spec => []NoFalseAlarm
<1>1. IInv => NoFalseAlarm
  BY DEF IInv, VerifierSeesIntactLog, NoFalseAlarm
<1> QED BY <1>1, InvariantHolds, PTL

(* Every row at or below the last sealed id lies in exactly one segment    *)
(* whose hash folds its fingerprint.                                       *)
THEOREM SealsMissNoRow == Spec => []NoRowSlipsUnderASeal
<1>1. IInv => NoRowSlipsUnderASeal
  <2> SUFFICES ASSUME IInv, NEW r \in audit_events, r.id <= LastThrough(checkpoints)
               PROVE  /\ \E k \in DOMAIN checkpoints :
                           LET cp == checkpoints[k]
                           IN  /\ cp.from_id <= r.id /\ r.id <= cp.through_id
                               /\ RowFingerprint(r) \in cp.chain_hash[Len(cp.chain_hash)]
                      /\ \A k, m \in DOMAIN checkpoints :
                           /\ checkpoints[k].from_id <= r.id /\ r.id <= checkpoints[k].through_id
                           /\ checkpoints[m].from_id <= r.id /\ r.id <= checkpoints[m].through_id
                           => k = m
    BY DEF NoRowSlipsUnderASeal
  <2>t. TypeOK
    BY DEF IInv
  <2>0. DOMAIN checkpoints = 1 .. Len(checkpoints) /\ Len(checkpoints) \in Nat
    BY <2>t, LastCheckpoint
  <2>1. PICK k \in 1 .. Len(checkpoints) :
          checkpoints[k].from_id <= r.id /\ r.id <= checkpoints[k].through_id
    BY DEF IInv, SealedRowsCovered
  <2> DEFINE cp   == checkpoints[k]
             es   == SegmentEntries(audit_events, retention, cp)
             fold == {e.fingerprint : e \in es}
  <2>2. Entry(r) \in es /\ Entry(r).fingerprint = RowFingerprint(r)
    BY <2>1 DEF SegmentEntries, RowsIn, Entry
  <2>3. RowFingerprint(r) \in fold
    BY <2>2
  <2>4. cp.chain_hash = Append(cp.prev_chain_hash, fold)
    BY DEF IInv, SegmentsIntact, Fold
  <2>5. cp.prev_chain_hash \in Seq(SUBSET Fingerprint)
    BY <2>t, LastCheckpoint DEF CheckpointType
  <2>6. cp.chain_hash[Len(cp.chain_hash)] = fold
    <3> HIDE DEF cp, fold
    <3> QED BY <2>4, <2>5
  <2>7. \A i, m \in 1 .. Len(checkpoints) :
          /\ checkpoints[i].from_id <= r.id /\ r.id <= checkpoints[i].through_id
          /\ checkpoints[m].from_id <= r.id /\ r.id <= checkpoints[m].through_id
          => i = m
    <3>1. \A i \in 1 .. Len(checkpoints) :
            checkpoints[i].from_id \in Int /\ checkpoints[i].through_id \in Int
      BY <2>t, LastCheckpoint DEF Ids
    <3>2. r.id \in Int
      BY <2>t DEF TypeOK, Row, Ids
    <3>3. \A i, m \in 1 .. Len(checkpoints) :
            i < m => checkpoints[i].through_id < checkpoints[m].from_id
      BY DEF IInv, RangesOrdered
    <3> QED BY <3>1, <3>2, <3>3, <2>0
  <2> QED BY <2>0, <2>1, <2>3, <2>6, <2>7
<1> QED BY <1>1, InvariantHolds, PTL

(* The primary key of the retention hashes never stops a purge. *)
THEOREM PurgesGoThrough == Spec => []PurgeNeverConflicts
<1>1. IInv => PurgeNeverConflicts
  BY DEF IInv, TransactionsIsolated, DisjointIds, Retiring, RetirementConflict,
         PurgeNeverConflicts
<1> QED BY <1>1, InvariantHolds, PTL

(* A row leaves the log only when older than the retention period, and a   *)
(* sealed one leaves its hash behind in the same step.                     *)
THEOREM RetentionIsRespected == Spec => RowsLeaveOnlyByRetention
<1> DEFINE Lawful == \A r \in audit_events \ audit_events' :
                     /\ r.ts < now - Retention
                     /\ r.id <= LastThrough(checkpoints) => Entry(r) \in retention'
<1>1. IInv /\ [Next]_vars => [Lawful]_vars
  <2> SUFFICES ASSUME IInv, Next PROVE Lawful
    OBVIOUS
  <2>1. ASSUME NEW j \in Jobs, PurgeCommit(j) PROVE Lawful
    <3> SUFFICES ASSUME NEW r \in audit_events \ audit_events'
                 PROVE  /\ r.ts < now - Retention
                        /\ r.id <= LastThrough(checkpoints) => Entry(r) \in retention'
      OBVIOUS
    <3>1. /\ pc[j] = "purging" /\ r.ts < horizon[j]
          /\ retention' = retention \cup {Entry(s) : s \in batch[j]}
      BY <2>1 DEF PurgeCommit, Expired
    <3>2. horizon[j] <= now - Retention /\ batch[j] = Retiring(horizon[j])
      BY <3>1 DEF IInv, TransactionsIsolated
    <3>3. r.ts \in Int /\ horizon[j] \in Int /\ now - Retention \in Int
      BY RetentionAssumption DEF IInv, TypeOK, Row, Times
    <3>4. r.id <= LastThrough(checkpoints) => r.id <= LastSealed(checkpoints)
      <4>1. /\ LastThrough(checkpoints) \in Int /\ LastSealed(checkpoints) \in Int
            /\ LastThrough(checkpoints) <= LastSealed(checkpoints)
        BY LastCheckpoint, SealedBound DEF IInv
      <4>2. r.id \in Int
        BY DEF IInv, TypeOK, Row, Ids
      <4> QED BY <4>1, <4>2
    <3> QED BY <3>1, <3>2, <3>3, <3>4 DEF Retiring, Expired
  <2>2. ASSUME NEW p \in pending, EmitCommit(p) PROVE Lawful
    BY <2>2 DEF EmitCommit
  <2>3. ASSUME NEW j \in Jobs,
               \/ SealBegin(j) \/ SealCommit(j) \/ PurgeHorizon(j) \/ PurgeBegin(j)
               \/ JobAbort(j)
        PROVE  audit_events' = audit_events
    BY <2>3 DEF SealBegin, SealCommit, PurgeHorizon, PurgeBegin, JobAbort, tables
  <2>4. CASE \/ Tick \/ VerifyBegin \/ VerifyCheckpoint \/ VerifyEnd
             \/ \E l \in Loggers, m \in Messages, c \in Logged : LogCall(l, m, c)
             \/ \E p \in pending : EmitFailsafe(p)
    BY <2>4 DEF Tick, VerifyBegin, VerifyCheckpoint, VerifyEnd, LogCall, EmitFailsafe, tables
  <2> QED BY <2>1, <2>2, <2>3, <2>4 DEF Next
<1>2. Spec => [][Lawful]_vars
  BY <1>1, InvariantHolds, PTL DEF Spec
<1> QED BY <1>2 DEF RowsLeaveOnlyByRetention

-----------------------------------------------------------------------------
(* Refinement of the abstract ledger.                                      *)

(* What the tables hold of every sealed segment survives every step, and   *)
(* only a seal adds a segment, newer than all before.                      *)
LEMMA LedgerStep ==
  IInv /\ IInv' /\ [Next]_vars => [Ledger!Seal]_LedgerOfTables
<1> SUFFICES ASSUME IInv, IInv', [Next]_vars,
                    LedgerOfTables' # LedgerOfTables
             PROVE  Ledger!Seal
  OBVIOUS
<1>t. TypeOK /\ Len(checkpoints) \in Nat
  BY LastCheckpoint DEF IInv
<1> DEFINE n == Len(checkpoints)
<1>1. ASSUME NEW j \in Jobs, SealCommit(j) PROVE Ledger!Seal
  <2> DEFINE cp      == Checkpoint(batch[j])
             segment == SegmentEntries(audit_events, retention, cp)
  <2>0. pc[j] = "sealing"
    BY <1>1 DEF SealCommit
  <2>1. /\ checkpoints' = Append(checkpoints, cp)
        /\ audit_events' = audit_events /\ retention' = retention
    BY <1>1 DEF SealCommit
  <2>2. /\ cp \in CheckpointType
        /\ LastThrough(checkpoints) < cp.from_id
        /\ segment = {Entry(r) : r \in batch[j]}
        /\ batch[j] # {}
    BY <2>0, InvariantIntact, NextCheckpoint DEF IInv, Structure, TransactionsIsolated
  <2>3. /\ Len(checkpoints') = n + 1 /\ checkpoints'[n + 1] = cp
        /\ \A k \in 1 .. n : checkpoints'[k] = checkpoints[k]
    <3> HIDE DEF cp
    <3> QED BY <1>t, <2>1, <2>2 DEF TypeOK
  <2>4. /\ Len(LedgerOfTables) = n /\ DOMAIN LedgerOfTables = 1 .. n
        /\ LedgerOfTables \in Seq({LedgerOfTables[k] : k \in 1 .. n})
    <3>1. DOMAIN LedgerOfTables = 1 .. n
      BY DEF LedgerOfTables
    <3>2. LedgerOfTables \in [1 .. n -> {LedgerOfTables[k] : k \in 1 .. n}]
      BY <3>1 DEF LedgerOfTables
    <3> QED BY <1>t, <3>1, <3>2
  <2>5. LedgerOfTables'
          = [k \in 1 .. n + 1 |->
               SegmentEntries(audit_events, retention, checkpoints'[k])]
    BY <2>1, <2>3 DEF LedgerOfTables
  <2>6. Len(LedgerOfTables') = n + 1 /\ LedgerOfTables'[n + 1] = segment
    BY <2>5, <2>3, <1>t
  <2>7. LedgerOfTables' = Append(LedgerOfTables, segment)
    <3>1. Append(LedgerOfTables, segment)
            = [k \in 1 .. n + 1 |-> IF k <= n THEN LedgerOfTables[k] ELSE segment]
      BY <2>4, <1>t
    <3>2. \A k \in 1 .. n + 1 :
            SegmentEntries(audit_events, retention, checkpoints'[k])
              = IF k <= n THEN LedgerOfTables[k] ELSE segment
      BY <2>3, <1>t DEF LedgerOfTables
    <3> QED BY <2>5, <3>1, <3>2
  <2>8. segment # {}
    BY <2>2
  <2>9. ASSUME NEW k \in DOMAIN LedgerOfTables,
               NEW old \in LedgerOfTables[k], NEW new \in segment
        PROVE  old.event_id < new.event_id
    <3>1. k \in 1 .. n /\ old \in SegmentEntries(audit_events, retention, checkpoints[k])
      BY <2>4 DEF LedgerOfTables
    <3>2. old.event_id <= checkpoints[k].through_id
      BY <3>1 DEF SegmentEntries, RowsIn, RetiredIn, Entry
    <3>3. cp.from_id <= new.event_id
      BY DEF SegmentEntries, RowsIn, RetiredIn, Entry
    <3>4. checkpoints[k].through_id <= LastThrough(checkpoints)
      BY <3>1 DEF IInv, RangesOrdered
    <3>5. /\ old.event_id \in Int /\ new.event_id \in Int
          /\ checkpoints[k].through_id \in Int /\ cp.from_id \in Int
          /\ LastThrough(checkpoints) \in Int
      <4>1. \A e \in SegmentEntries(audit_events, retention, checkpoints[k]) \cup segment :
              e.event_id \in Int
        BY <1>t DEF SegmentEntries, RowsIn, RetiredIn, Entry, TypeOK, Row, Entries, Ids
      <4> QED BY <4>1, <3>1, <1>t, <2>2, LastCheckpoint DEF CheckpointType, Ids
    <3> HIDE DEF cp
    <3> QED BY <3>2, <3>3, <3>4, <3>5, <2>2
  <2> HIDE DEF segment
  <2> QED BY <2>4, <2>6, <2>7, <2>8, <2>9 DEF Ledger!Seal, Ledger!Newer
<1>2. ASSUME checkpoints' = checkpoints PROVE FALSE
  <2>1. SegmentsStand
    BY InvariantIntact, ProgramStep
  <2> QED BY <2>1, <1>2 DEF SegmentsStand, LedgerOfTables
<1>3. ASSUME NEW j \in Jobs, PurgeCommit(j) PROVE checkpoints' = checkpoints
  BY <1>3 DEF PurgeCommit
<1>a. ASSUME NEW p \in pending, EmitCommit(p) PROVE checkpoints' = checkpoints
  BY <1>a DEF EmitCommit
<1>4. ASSUME UNCHANGED tables PROVE FALSE
  BY <1>4 DEF tables, LedgerOfTables
<1>5. ASSUME NEW j \in Jobs,
             SealBegin(j) \/ PurgeHorizon(j) \/ PurgeBegin(j) \/ JobAbort(j)
      PROVE  UNCHANGED tables
  BY <1>5 DEF SealBegin, PurgeHorizon, PurgeBegin, JobAbort
<1>6. CASE \/ Tick \/ VerifyBegin \/ VerifyCheckpoint \/ VerifyEnd
           \/ \E l \in Loggers, m \in Messages, c \in Logged : LogCall(l, m, c)
           \/ \E p \in pending : EmitFailsafe(p)
           \/ UNCHANGED vars
  BY <1>4, <1>6 DEF Tick, VerifyBegin, VerifyCheckpoint, VerifyEnd, LogCall, EmitFailsafe,
                    vars
<1> QED BY <1>1, <1>2, <1>3, <1>a, <1>4, <1>5, <1>6 DEF Next

(* The audit trail implements the append-only ledger of SealedLedger: what *)
(* verification can reconstruct of sealed history only grows.              *)
THEOREM ImplementsLedger == Spec => SealedHistoryIsALedger
<1>1. Init => Ledger!Init
  BY DEF Init, Ledger!Init, LedgerOfTables
<1>2. IInv /\ IInv' /\ [Next]_vars => [Ledger!Seal]_LedgerOfTables
  BY LedgerStep
<1> QED BY <1>1, <1>2, InvariantHolds, PTL
        DEF Spec, SealedHistoryIsALedger, Ledger!Spec
-----------------------------------------------------------------------------
(* The log under a disk that somebody else can write.                      *)

(* A retention hash is of the id it is stored under, and of a sealed one.  *)
HashesPlaced ==
  \A h \in retention : h.fingerprint[1] = h.event_id /\ SealedId(h.event_id)

(* The chain grows by a link a checkpoint, so that a hash tells its place. *)
ChainsCounted ==
  \A k \in 1 .. Len(checkpoints) : Len(checkpoints[k].chain_hash) = k

(* The log as the program leaves it. *)
Sound == Structure /\ TablesIntact /\ HashesPlaced /\ ChainsCounted

(* Checkpoint k gives an edit away, and will: rows inserted later cannot   *)
(* enter its range, or can only add to one that holds too many.            *)
Evidence(k) ==
  /\ k \in 1 .. Len(checkpoints)
  /\ ~Describes(audit_events, retention, checkpoints, k)
  /\ \/ checkpoints[k].through_id <= lastId
     \/ checkpoints[k].row_count < SegmentSize(audit_events, retention, checkpoints[k])

Exposed == \E k \in Nat : Evidence(k)

(* The verifier knows what it has looked at, and its snapshot is as intact *)
(* as the tables were when it was taken.                                   *)
VerifierTells ==
  /\ vpc = "checking" =>
       /\ vk <= Len(view.cps) + 1
       /\ suspect = "none" => LogIntact(view.events, view.hashes, view.cps)
       /\ suspect = "exposed" => ~LogIntact(view.events, view.hashes, view.cps)
       /\ report.ok <=> \A k \in 1 .. vk - 1 : Describes(view.events, view.hashes, view.cps, k)
  /\ TamperingIsDetected

(* The inductive invariant: the log is sound, or it holds evidence that no *)
(* step of the program removes, or the edit was one of those not claimed.  *)
TamperInv ==
  /\ Workable
  /\ damage = "none" => Sound
  /\ damage = "exposed" => Exposed
  /\ VerifierTells

(* The invariant holds before anything is logged. *)
LEMMA TamperInvInit == TamperInit => TamperInv
<1> SUFFICES ASSUME TamperInit PROVE TamperInv
  OBVIOUS
<1>1. Structure /\ TablesIntact
  BY InvariantInit, InvariantIntact DEF TamperInit
<1>2. HashesPlaced /\ ChainsCounted
  BY DEF TamperInit, Init, HashesPlaced, ChainsCounted
<1>3. VerifierTells
  BY DEF TamperInit, Init, VerifierTells, TamperingIsDetected
<1> QED
  BY <1>1, <1>2, <1>3 DEF TamperInit, TamperInv, Sound, Structure

(* Ids once sealed stay sealed, and those a purge retires were. *)
LEMMA PlacedStep ==
  ASSUME Structure, HashesPlaced, [Next]_vars
  PROVE  HashesPlaced'
<1>t. TypeOK /\ TypeOK'
  BY ProgramStep DEF Structure, Workable
<1>1. DOMAIN checkpoints = 1 .. Len(checkpoints) /\ DOMAIN checkpoints' = 1 .. Len(checkpoints')
  BY <1>t DEF TypeOK
<1>2. \A i : SealedId(i) => SealedId(i)'
  BY <1>1, ProgramStep DEF SegmentsStand, SealedId
<1>3. \A r \in audit_events : r.id <= LastThrough(checkpoints) => SealedId(r.id)
  BY <1>1 DEF Structure, SealedRowsCovered, SealedId
<1>4. CASE retention' = retention
  BY <1>2, <1>4 DEF HashesPlaced
<1>5. ASSUME NEW j \in Jobs, PurgeCommit(j) PROVE HashesPlaced'
  <2>1. /\ retention' = retention \cup {Entry(r) : r \in batch[j]}
        /\ batch[j] = Retiring(horizon[j])
        /\ LastSealed(checkpoints) = LastThrough(checkpoints)
    BY <1>5, <1>t, SealedBound DEF PurgeCommit, Structure, Workable, TransactionsIsolated
  <2>2. \A r \in batch[j] :
          /\ Entry(r).event_id = r.id /\ Entry(r).fingerprint[1] = r.id
          /\ SealedId(r.id)
    BY <2>1, <1>3 DEF Retiring, Entry, RowFingerprint
  <2>3. \A h \in retention' : h.fingerprint[1] = h.event_id /\ SealedId(h.event_id)
    BY <2>1, <2>2 DEF HashesPlaced
  <2> QED BY <2>3, <1>2 DEF HashesPlaced
<1>6. retention' = retention \/ \E j \in Jobs : PurgeCommit(j)
  BY TableStep DEF EmitCommit, SealCommit, tables
<1> QED BY <1>4, <1>5, <1>6

(* A seal adds the link its place asks for. *)
LEMMA CountedStep ==
  ASSUME Structure, TablesIntact, ChainsCounted, [Next]_vars
  PROVE  ChainsCounted'
<1>t. TypeOK
  BY DEF Structure, Workable
<1>0. Len(checkpoints) \in Nat /\ Kept
  BY <1>t, LastCheckpoint, WorkableStep DEF Structure
<1>1. CASE checkpoints' = checkpoints
  BY <1>1 DEF ChainsCounted
<1>2. ASSUME NEW j \in Jobs, SealCommit(j) PROVE ChainsCounted'
  <2> DEFINE n  == Len(checkpoints)
             cp == Checkpoint(batch[j])
             es == {Entry(r) : r \in batch[j]}
  <2>1. Len(checkpoints') = n + 1 /\ checkpoints'[n + 1] = cp
    BY <1>2, SealCommitKeeps DEF Structure
  <2>2. cp.chain_hash = Fold(ChainBefore(checkpoints, n + 1), es)
    BY DEF Checkpoint
  <2>3. ChainBefore(checkpoints, n + 1) \in Seq(SUBSET Fingerprint)
    BY <1>0, <1>t, LastCheckpoint
  <2>4. Len(ChainBefore(checkpoints, n + 1)) = n
    <3>1. CASE n = 0
      BY <3>1 DEF ChainBefore, GENESIS
    <3>2. CASE n # 0
      BY <3>2, <1>0 DEF ChainBefore, ChainsCounted
    <3> QED BY <3>1, <3>2
  <2> HIDE DEF es, cp
  <2>5. Len(cp.chain_hash) = n + 1
    BY <2>2, <2>3, <2>4 DEF Fold
  <2>6. \A k \in 1 .. n + 1 : k \in 1 .. n \/ k = n + 1
    BY <1>0
  <2>7. \A k \in 1 .. n : checkpoints'[k] = checkpoints[k]
    BY <1>0 DEF Kept
  <2> QED BY <2>1, <2>5, <2>6, <2>7 DEF ChainsCounted
<1>3. checkpoints' = checkpoints \/ \E j \in Jobs : SealCommit(j)
  BY TableStep DEF EmitCommit, PurgeCommit, tables
<1> QED BY <1>1, <1>2, <1>3

(* Evidence outlasts every seal, insert and purge. *)
LEMMA EvidenceStep ==
  ASSUME Workable, Exposed, [Next]_vars
  PROVE  Exposed'
<1>1. PICK k \in Nat : Evidence(k)
  BY DEF Exposed
<1>t. TypeOK /\ Kept /\ Workable'
  BY WorkableStep DEF Workable
<1>2. k \in 1 .. Len(checkpoints) /\ Len(checkpoints) \in Nat
  BY <1>1, <1>t, LastCheckpoint DEF Evidence
<1>3. k \in 1 .. Len(checkpoints') /\ checkpoints'[k] = checkpoints[k]
  BY <1>2, <1>t DEF Kept
<1>4. ChainBefore(checkpoints', k) = ChainBefore(checkpoints, k)
  <2>1. k = 1 \/ k - 1 \in 1 .. Len(checkpoints)
    BY <1>2
  <2> QED BY <2>1, <1>t DEF ChainBefore, Kept
<1>5. CASE checkpoints[k].through_id <= lastId
  <2>1. ~Describes(audit_events', retention', checkpoints', k)
    BY <1>1, <1>2, <1>3, <1>4, <1>5, <1>t DEF Evidence, Describes, Kept
  <2>2. checkpoints[k].through_id <= lastId'
    <3>1. checkpoints[k].through_id \in Int /\ lastId \in Int /\ lastId' \in Int
      BY <1>2, <1>t, LastCheckpoint DEF Ids, TypeOK, Workable
    <3> QED BY <3>1, <1>5, <1>t DEF Kept
  <2> QED BY <2>1, <2>2, <1>3 DEF Exposed, Evidence
<1>6. CASE checkpoints[k].row_count < SegmentSize(audit_events, retention, checkpoints[k])
  <2>1. checkpoints[k].row_count \in Int
    BY <1>2, <1>t, LastCheckpoint DEF CheckpointType
  <2>2. SegmentSize(audit_events, retention, checkpoints[k]) \in Int
    BY SegmentsFinite DEF SegmentSize, Workable
  <2>3. SegmentSize(audit_events, retention, checkpoints[k])'
          = SegmentSize(audit_events', retention', checkpoints[k])
    BY <1>3
  <2>4. SegmentSize(audit_events', retention', checkpoints[k]) \in Int
    <3>1. /\ Cardinality(RowsIn(audit_events', checkpoints[k].from_id, checkpoints[k].through_id)) \in Nat
          /\ Cardinality(RetiredIn(retention', checkpoints[k].from_id, checkpoints[k].through_id)) \in Nat
      <4>1. IsFiniteSet(audit_events') /\ IsFiniteSet(retention')
        BY <1>t DEF Workable, RowsNumbered
      <4>2. /\ RowsIn(audit_events', checkpoints[k].from_id, checkpoints[k].through_id)
                 \subseteq audit_events'
            /\ RetiredIn(retention', checkpoints[k].from_id, checkpoints[k].through_id)
                 \subseteq retention'
        BY DEF RowsIn, RetiredIn
      <4> QED BY <4>1, <4>2, FS_Subset, FS_CardinalityType
    <3> QED BY <3>1 DEF SegmentSize
  <2>5. checkpoints[k].row_count < SegmentSize(audit_events', retention', checkpoints[k])
    BY <2>1, <2>2, <2>4, <1>2, <1>6, <1>t DEF Kept
  <2>6. ~Describes(audit_events', retention', checkpoints', k)
    BY <2>1, <2>4, <2>5, <1>3 DEF Describes
  <2> QED BY <2>5, <2>6, <1>3 DEF Exposed, Evidence
<1> QED BY <1>1, <1>5, <1>6 DEF Evidence

(* The verifier's steps: its report is bad from the first checkpoint that  *)
(* does not describe the snapshot, and stays so.                           *)
LEMMA TellsStep ==
  ASSUME TamperInv, [Next]_vars,
         suspect' = IF vpc # "checking" /\ vpc' = "checking" THEN damage ELSE suspect
  PROVE  VerifierTells'
<1>1. CASE VerifyBegin
  <2>1. /\ vpc' = "checking" /\ vk' = 1 /\ report'.ok /\ suspect' = damage
        /\ view'.events = audit_events /\ view'.hashes = retention
        /\ view'.cps = checkpoints
    BY <1>1 DEF VerifyBegin, FreshReport
  <2>2. Len(checkpoints) \in Nat
    BY LastCheckpoint DEF TamperInv, Workable
  <2>3. /\ suspect' = "none" => LogIntact(view'.events, view'.hashes, view'.cps)
        /\ suspect' = "exposed" => ~LogIntact(view'.events, view'.hashes, view'.cps)
    BY <2>1 DEF TamperInv, Sound, TablesIntact, LogIntact, Exposed, Evidence
  <2>4. vk' <= Len(view'.cps) + 1 /\ 1 .. vk' - 1 = {}
    BY <2>1, <2>2
  <2> QED BY <2>1, <2>3, <2>4 DEF VerifierTells, TamperingIsDetected
<1>2. CASE VerifyCheckpoint
  <2>1. /\ view' = view /\ vpc' = vpc /\ vk' = vk + 1 /\ vpc = "checking"
        /\ vk \in 1 .. Len(view.cps) /\ suspect' = suspect
        /\ report'.ok = (report.ok /\ Describes(view.events, view.hashes, view.cps, vk))
    BY <1>2, VerifyCheckpointStep DEF TamperInv
  <2>2. /\ suspect = "none" => LogIntact(view.events, view.hashes, view.cps)
        /\ suspect = "exposed" => ~LogIntact(view.events, view.hashes, view.cps)
        /\ report.ok <=> \A k \in 1 .. vk - 1 : Describes(view.events, view.hashes, view.cps, k)
    BY <2>1 DEF TamperInv, VerifierTells
  <2>3. view.cps \in Seq(CheckpointType)
    BY DEF TamperInv, Workable, TypeOK
  <2>4. vk' <= Len(view.cps) + 1 /\ \A k : k \in 1 .. vk' - 1 <=> k \in 1 .. vk - 1 \/ k = vk
    BY <2>1, <2>3
  <2>5. report'.ok <=> \A k \in 1 .. vk' - 1 : Describes(view.events, view.hashes, view.cps, k)
    BY <2>1, <2>2, <2>4
  <2> QED BY <2>1, <2>2, <2>4, <2>5 DEF VerifierTells, TamperingIsDetected
<1>3. CASE VerifyEnd
  <2>1. /\ vpc = "checking" /\ vpc' = "done" /\ report' = report /\ suspect' = suspect
        /\ vk = Len(view.cps) + 1
    BY <1>3 DEF VerifyEnd
  <2>2. view.cps \in Seq(CheckpointType)
    BY DEF TamperInv, Workable, TypeOK
  <2>3. 1 .. vk - 1 = 1 .. Len(view.cps)
    BY <2>1, <2>2
  <2>4. (suspect = "exposed" => ~report.ok) /\ (suspect = "none" => report.ok)
    BY <2>1, <2>3 DEF TamperInv, VerifierTells, LogIntact
  <2> QED BY <2>1, <2>4 DEF VerifierTells, TamperingIsDetected
<1>4. CASE UNCHANGED verifyVars
  BY <1>4 DEF verifyVars, TamperInv, VerifierTells, TamperingIsDetected
<1> QED BY <1>1, <1>2, <1>3, <1>4, VerifierStep

-----------------------------------------------------------------------------
(* One edit of the sealed history, and what it leaves.                     *)

(* An edit finds no transaction open, so that no selection goes stale, and *)
(* leaves tables the program can work on.                                  *)
LEMMA EditedTables ==
  ASSUME Workable, WriteLockFree,
         UNCHANGED <<now, lastId, pending, jobVars, verifyVars>>,
         audit_events' \subseteq Row, IsFiniteSet(audit_events'),
         \A r \in audit_events' : r.id <= lastId,
         \A r, s \in audit_events' : r.id = s.id => r = s,
         retention' \subseteq Entries, IsFiniteSet(retention'),
         checkpoints' \in Seq(CheckpointType)
  PROVE  Workable'
<1>1. TypeOK'
  BY DEF Workable, TypeOK, jobVars, verifyVars
<1>2. RowsNumbered'
  BY DEF RowsNumbered
<1>3. \A j \in Jobs : pc'[j] \notin {"sealing", "purging"}
  BY DEF WriteLockFree, jobVars
<1>4. \A j \in Jobs : pc'[j] \in {"waiting", "purging"} => horizon'[j] <= now' - Retention
  BY DEF Workable, TransactionsIsolated, jobVars
<1>5. TransactionsIsolated'
  BY <1>3, <1>4 DEF TransactionsIsolated
<1> QED BY <1>1, <1>2, <1>5 DEF Workable

(* The tables an edit leaves alone are as they were. *)
LEMMA SoundTables ==
  ASSUME Sound
  PROVE  /\ TypeOK /\ Workable
         /\ audit_events \subseteq Row /\ IsFiniteSet(audit_events)
         /\ \A r \in audit_events : r.id <= lastId
         /\ \A r, s \in audit_events : r.id = s.id => r = s
         /\ retention \subseteq Entries /\ IsFiniteSet(retention)
         /\ checkpoints \in Seq(CheckpointType)
         /\ Len(checkpoints) \in Nat /\ DOMAIN checkpoints = 1 .. Len(checkpoints)
         /\ \A k \in 1 .. Len(checkpoints) :
              /\ checkpoints[k] \in CheckpointType
              /\ checkpoints[k].from_id \in Int /\ checkpoints[k].through_id \in Int
              /\ checkpoints[k].through_id <= lastId
              /\ Describes(audit_events, retention, checkpoints, k)
<1>t. Workable /\ TypeOK
  BY DEF Sound, Structure, Workable
<1>1. \A k \in 1 .. Len(checkpoints) :
        /\ checkpoints[k] \in CheckpointType
        /\ checkpoints[k].from_id \in Int /\ checkpoints[k].through_id \in Int
  BY <1>t, LastCheckpoint DEF Ids
<1>2. ASSUME NEW k \in 1 .. Len(checkpoints) PROVE checkpoints[k].through_id <= lastId
  <2>1. /\ checkpoints[k].through_id <= LastThrough(checkpoints)
        /\ LastThrough(checkpoints) <= lastId
    BY DEF Sound, Structure, RangesOrdered
  <2>2. LastThrough(checkpoints) \in Int /\ lastId \in Int
    BY <1>t, LastCheckpoint DEF TypeOK
  <2> QED BY <2>1, <2>2, <1>1
<1>3. /\ audit_events \subseteq Row /\ IsFiniteSet(audit_events)
      /\ \A r \in audit_events : r.id <= lastId
      /\ \A r, s \in audit_events : r.id = s.id => r = s
      /\ retention \subseteq Entries /\ IsFiniteSet(retention)
      /\ checkpoints \in Seq(CheckpointType)
  BY <1>t DEF TypeOK, Workable, RowsNumbered
<1>4. Len(checkpoints) \in Nat /\ DOMAIN checkpoints = 1 .. Len(checkpoints)
  BY <1>t, LastCheckpoint
<1>5. \A k \in 1 .. Len(checkpoints) : Describes(audit_events, retention, checkpoints, k)
  BY DEF Sound, TablesIntact, LogIntact
<1> QED BY <1>1, <1>2, <1>3, <1>4, <1>5, <1>t

(* A sealed id lies in the range of a checkpoint. *)
LEMMA SealedWhere ==
  ASSUME Sound, NEW i, SealedId(i)
  PROVE  \E k \in 1 .. Len(checkpoints) :
           checkpoints[k].from_id <= i /\ i <= checkpoints[k].through_id
BY SoundTables DEF SealedId

(* A fingerprint that was sealed and is gone changes the fold.             *)
LEMMA MissingFingerprint ==
  ASSUME Sound, NEW k \in 1 .. Len(checkpoints),
         UNCHANGED <<lastId, checkpoints>>,
         NEW e \in SegmentEntries(audit_events, retention, checkpoints[k]),
         \A d \in SegmentEntries(audit_events', retention', checkpoints[k]) :
           d.fingerprint # e.fingerprint
  PROVE  Exposed'
<1> DEFINE cp  == checkpoints[k]
           old == {d.fingerprint : d \in SegmentEntries(audit_events, retention, cp)}
           new == {d.fingerprint : d \in SegmentEntries(audit_events', retention', cp)}
<1>1. old # new
  <2>1. e.fingerprint \in old /\ e.fingerprint \notin new
    OBVIOUS
  <2> QED BY <2>1
<1>2. /\ cp.chain_hash = Append(cp.prev_chain_hash, old)
      /\ cp.prev_chain_hash \in Seq(SUBSET Fingerprint)
      /\ cp.through_id <= lastId
  BY SoundTables DEF Describes, Fold, CheckpointType
<1>3. Append(cp.prev_chain_hash, old) # Append(cp.prev_chain_hash, new)
  <2> HIDE DEF old, new, cp
  <2>1. \A p \in Seq(SUBSET Fingerprint) : Append(p, old) # Append(p, new)
    <3> TAKE p \in Seq(SUBSET Fingerprint)
    <3>1. Append(p, old)[Len(p) + 1] = old /\ Append(p, new)[Len(p) + 1] = new
      OBVIOUS
    <3> QED BY <3>1, <1>1
  <2> QED BY <2>1, <1>2
<1>4. ~Describes(audit_events', retention', checkpoints', k)
  BY <1>2, <1>3 DEF Describes, Fold
<1>5. Evidence(k)'
  BY <1>2, <1>4 DEF Evidence
<1> QED BY <1>5, SoundTables DEF Exposed

(* A segment that holds more or fewer than were sealed is found.           *)
LEMMA WrongSize ==
  ASSUME Sound, NEW k \in 1 .. Len(checkpoints),
         UNCHANGED <<lastId, checkpoints>>,
         SegmentSize(audit_events', retention', checkpoints[k])
           # SegmentSize(audit_events, retention, checkpoints[k])
  PROVE  Exposed'
<1>1. ~Describes(audit_events', retention', checkpoints', k)
  BY SoundTables DEF Describes
<1>2. Evidence(k)'
  BY <1>1, SoundTables DEF Evidence
<1> QED BY <1>2, SoundTables DEF Exposed

(* In a sound log only the row and the hash of an id have its fingerprint, *)
(* and no id of a range has both.                                          *)
LEMMA FingerprintTells ==
  ASSUME Sound, NEW k \in 1 .. Len(checkpoints),
         NEW d \in SegmentEntries(audit_events, retention, checkpoints[k]),
         NEW e \in SegmentEntries(audit_events, retention, checkpoints[k]),
         d.fingerprint = e.fingerprint
  PROVE  d = e
<1> DEFINE A == RowsIn(audit_events, checkpoints[k].from_id, checkpoints[k].through_id)
           H == RetiredIn(retention, checkpoints[k].from_id, checkpoints[k].through_id)
<1>1. ASSUME NEW x \in SegmentEntries(audit_events, retention, checkpoints[k])
      PROVE  /\ x \in Entries /\ x.fingerprint[1] = x.event_id
             /\ x \in H \/ \E r \in A : x = Entry(r)
  <2>1. CASE x \in H
    BY <2>1, SoundTables DEF RetiredIn, Sound, HashesPlaced
  <2>2. ASSUME NEW r \in A, x = Entry(r)
        PROVE  x \in Entries /\ x.fingerprint[1] = x.event_id
    <3>1. r \in Row
      BY SoundTables DEF RowsIn
    <3> QED BY <3>1, <2>2, EntryInjective DEF Entry, RowFingerprint
  <2> QED BY <2>1, <2>2 DEF SegmentEntries
<1>2. d.event_id = e.event_id /\ d \in Entries /\ e \in Entries
  BY <1>1
<1> QED BY <1>2 DEF Entries

(* A changed row is missed in its segment, unless it still says the same.  *)
LEMMA ModifiedRow ==
  ASSUME Sound, ModifySealedRow
  PROVE  /\ Workable'
         /\ damage' = "exposed" => Exposed'
         /\ damage' = "none" => Sound'
         /\ damage' # "hidden"
<1>1. PICK r \in audit_events, new \in Row :
        /\ SealedId(r.id) /\ new # r
        /\ new.id <= lastId
        /\ \A s \in audit_events \ {r} : s.id # new.id
        /\ audit_events' = (audit_events \ {r}) \cup {new}
        /\ Edit(IF RowFingerprint(new) = RowFingerprint(r) THEN "none" ELSE "exposed")
        /\ UNCHANGED <<retention, checkpoints>>
  BY DEF ModifySealedRow
<1>2. /\ WriteLockFree
      /\ UNCHANGED <<now, lastId, pending, jobVars, verifyVars>>
      /\ damage' = IF RowFingerprint(new) = RowFingerprint(r) THEN "none" ELSE "exposed"
  BY <1>1 DEF Edit
<1>3. audit_events' \subseteq Row /\ IsFiniteSet(audit_events')
  BY <1>1, SoundTables, FS_RemoveElement, FS_AddElement
<1>4. /\ \A s \in audit_events' : s.id <= lastId
      /\ \A s, o \in audit_events' : s.id = o.id => s = o
  BY <1>1, SoundTables
<1>5. Workable'
  BY <1>1, <1>2, <1>3, <1>4, SoundTables, EditedTables
<1>6. PICK k \in 1 .. Len(checkpoints) :
        checkpoints[k].from_id <= r.id /\ r.id <= checkpoints[k].through_id
  BY <1>1, SealedWhere
<1>7. ASSUME RowFingerprint(new) # RowFingerprint(r) PROVE Exposed'
  <2> DEFINE cp == checkpoints[k]
  <2>1. Entry(r) \in SegmentEntries(audit_events, retention, cp)
    BY <1>6 DEF SegmentEntries, RowsIn
  <2>2. ASSUME NEW d \in SegmentEntries(audit_events', retention', cp),
               d.fingerprint = Entry(r).fingerprint
        PROVE  FALSE
    <3>1. d # Entry(new)
      BY <2>2, <1>7 DEF Entry
    <3>2. d \in SegmentEntries(audit_events, retention, cp)
      BY <3>1, <2>2, <1>1 DEF SegmentEntries, RowsIn
    <3>3. d = Entry(r)
      BY <3>2, <2>1, <2>2, FingerprintTells
    <3>4. CASE d \in RetiredIn(retention, cp.from_id, cp.through_id)
      <4>1. r \in RowsIn(audit_events, cp.from_id, cp.through_id) /\ d.event_id = r.id
        BY <3>3, <1>6 DEF RowsIn, Entry
      <4>2. Clash(audit_events, retention, cp)
        BY <4>1, <3>4 DEF Clash
      <4> QED BY <4>2, SoundTables DEF Describes
    <3>5. ASSUME NEW s \in RowsIn(audit_events', cp.from_id, cp.through_id), d = Entry(s)
          PROVE  FALSE
      <4>1. s \in audit_events /\ s # r
        BY <3>1, <3>5, <1>1, SoundTables DEF RowsIn
      <4>2. s.id = r.id
        BY <3>3, <3>5 DEF Entry
      <4> QED BY <4>1, <4>2, SoundTables
    <3> QED BY <2>2, <3>4, <3>5, <1>1 DEF SegmentEntries
  <2> HIDE DEF cp
  <2> QED BY <2>1, <2>2, <1>1, <1>2, MissingFingerprint DEF cp
<1>8. ASSUME RowFingerprint(new) = RowFingerprint(r) PROVE Sound'
  <2>1. new.id = r.id /\ Entry(new) = Entry(r)
    BY <1>8 DEF RowFingerprint, Entry
  <2>2. ASSUME NEW lo, NEW hi
        PROVE  /\ {Entry(s) : s \in RowsIn(audit_events', lo, hi)}
                    = {Entry(s) : s \in RowsIn(audit_events, lo, hi)}
               /\ {s.id : s \in RowsIn(audit_events', lo, hi)}
                    = {s.id : s \in RowsIn(audit_events, lo, hi)}
               /\ Cardinality(RowsIn(audit_events', lo, hi))
                    = Cardinality(RowsIn(audit_events, lo, hi))
    <3> DEFINE A == RowsIn(audit_events, lo, hi)
               B == RowsIn(audit_events', lo, hi)
    <3>1. CASE r \in A
      <4>1. B = (A \ {r}) \cup {new} /\ new \notin A \ {r}
        BY <3>1, <1>1, <2>1 DEF RowsIn
      <4>2. IsFiniteSet(A) /\ Cardinality(A) \in Nat
        BY SoundTables, SegmentsFinite DEF Workable
      <4>3. {Entry(s) : s \in B} = {Entry(s) : s \in A} /\ {s.id : s \in B} = {s.id : s \in A}
        <5> HIDE DEF A, B
        <5> QED BY <3>1, <4>1, <2>1
      <4>4. Cardinality(B) = Cardinality(A)
        <5> HIDE DEF A, B
        <5>1. IsFiniteSet(A \ {r}) /\ Cardinality(A \ {r}) = Cardinality(A) - 1
          BY <3>1, <4>2, FS_RemoveElement
        <5>2. Cardinality((A \ {r}) \cup {new}) = Cardinality(A \ {r}) + 1
          BY <4>1, <5>1, FS_AddElement
        <5> QED BY <4>1, <4>2, <5>1, <5>2
      <4> QED BY <4>3, <4>4
    <3>2. CASE r \notin A
      <4>1. B = A
        BY <3>2, <1>1, <2>1 DEF RowsIn
      <4> QED BY <4>1
    <3> QED BY <3>1, <3>2
  <2>3. SegmentsStand
    BY <2>2, <1>1 DEF SegmentsStand, SegmentEntries, SegmentSize, Clash
  <2>4. TablesIntact'
    BY <2>3, <1>1, SoundTables, StandingStep DEF Sound
  <2>5. RangesOrdered' /\ RetiredWereSealed' /\ HashesPlaced' /\ ChainsCounted'
    BY <1>1, <1>2 DEF Sound, Structure, RangesOrdered, RetiredWereSealed, HashesPlaced,
                      SealedId, ChainsCounted
  <2>6. SealedRowsCovered'
    BY <1>1, <2>1 DEF Sound, Structure, SealedRowsCovered
  <2> QED BY <1>5, <2>4, <2>5, <2>6 DEF Sound, Structure
<1> QED BY <1>2, <1>5, <1>7, <1>8

(* A deleted row is missed in its segment. *)
LEMMA DeletedRow ==
  ASSUME Sound, DeleteSealedRow
  PROVE  Workable' /\ Exposed'
<1>1. /\ WriteLockFree
      /\ UNCHANGED <<now, lastId, pending, jobVars, verifyVars, retention, checkpoints>>
  BY DEF DeleteSealedRow, Edit
<1>2. PICK r \in audit_events : SealedId(r.id) /\ audit_events' = audit_events \ {r}
  BY DEF DeleteSealedRow
<1>3. IsFiniteSet(audit_events')
  BY <1>2, SoundTables, FS_RemoveElement
<1>4. Workable'
  BY <1>1, <1>2, <1>3, SoundTables, EditedTables
<1>5. PICK k \in 1 .. Len(checkpoints) :
        checkpoints[k].from_id <= r.id /\ r.id <= checkpoints[k].through_id
  BY <1>2, SealedWhere
<1> DEFINE cp == checkpoints[k]
           A  == RowsIn(audit_events, cp.from_id, cp.through_id)
           H  == RetiredIn(retention, cp.from_id, cp.through_id)
<1>6. RowsIn(audit_events', cp.from_id, cp.through_id) = A \ {r} /\ r \in A
  BY <1>2, <1>5 DEF RowsIn
<1>7. IsFiniteSet(A) /\ Cardinality(A) \in Nat /\ Cardinality(H) \in Nat
  BY SoundTables, SegmentsFinite DEF Workable
<1>8. Cardinality(A \ {r}) = Cardinality(A) - 1
  <2> HIDE DEF A
  <2> QED BY <1>6, <1>7, FS_RemoveElement
<1>9. SegmentSize(audit_events', retention', cp) # SegmentSize(audit_events, retention, cp)
  <2>1. /\ SegmentSize(audit_events', retention', cp) = Cardinality(A \ {r}) + Cardinality(H)
        /\ SegmentSize(audit_events, retention, cp) = Cardinality(A) + Cardinality(H)
    BY <1>1, <1>6 DEF SegmentSize
  <2> HIDE DEF A, H
  <2> QED BY <2>1, <1>7, <1>8
<1> QED BY <1>1, <1>4, <1>9, WrongSize

(* A row inserted into a segment is one too many. *)
LEMMA InsertedRow ==
  ASSUME Sound, InsertSealedRow
  PROVE  Workable' /\ Exposed'
<1>1. /\ WriteLockFree
      /\ UNCHANGED <<now, lastId, pending, jobVars, verifyVars, retention, checkpoints>>
  BY DEF InsertSealedRow, Edit
<1>2. PICK new \in Row :
        /\ SealedId(new.id)
        /\ \A r \in audit_events : r.id # new.id
        /\ audit_events' = audit_events \cup {new}
  BY DEF InsertSealedRow
<1>3. IsFiniteSet(audit_events')
  BY <1>2, SoundTables, FS_AddElement
<1>4. PICK k \in 1 .. Len(checkpoints) :
        checkpoints[k].from_id <= new.id /\ new.id <= checkpoints[k].through_id
  BY <1>2, SealedWhere
<1>5. new.id <= lastId
  <2>1. new.id \in Int /\ lastId \in Int
    BY SoundTables DEF Row, Ids, TypeOK
  <2> QED BY <2>1, <1>4, SoundTables
<1>6. /\ \A s \in audit_events' : s.id <= lastId
      /\ \A s, o \in audit_events' : s.id = o.id => s = o
  BY <1>2, <1>5, SoundTables
<1>7. Workable'
  BY <1>1, <1>2, <1>3, <1>6, SoundTables, EditedTables
<1> DEFINE cp == checkpoints[k]
           A  == RowsIn(audit_events, cp.from_id, cp.through_id)
           H  == RetiredIn(retention, cp.from_id, cp.through_id)
<1>8. RowsIn(audit_events', cp.from_id, cp.through_id) = A \cup {new} /\ new \notin A
  BY <1>2, <1>4 DEF RowsIn
<1>9. IsFiniteSet(A) /\ Cardinality(A) \in Nat /\ Cardinality(H) \in Nat
  BY SoundTables, SegmentsFinite DEF Workable
<1>10. Cardinality(A \cup {new}) = Cardinality(A) + 1
  <2> HIDE DEF A
  <2> QED BY <1>8, <1>9, FS_AddElement
<1>11. SegmentSize(audit_events', retention', cp) # SegmentSize(audit_events, retention, cp)
  <2>1. /\ SegmentSize(audit_events', retention', cp) = Cardinality(A \cup {new}) + Cardinality(H)
        /\ SegmentSize(audit_events, retention, cp) = Cardinality(A) + Cardinality(H)
    BY <1>1, <1>8 DEF SegmentSize
  <2> HIDE DEF A, H
  <2> QED BY <2>1, <1>9, <1>10
<1> QED BY <1>1, <1>7, <1>11, WrongSize

(* A retention hash dropped is missed in its segment. *)
LEMMA DroppedHash ==
  ASSUME Sound, DropRetentionHash
  PROVE  Workable' /\ Exposed'
<1>1. /\ WriteLockFree
      /\ UNCHANGED <<now, lastId, pending, jobVars, verifyVars, audit_events, checkpoints>>
  BY DEF DropRetentionHash, Edit
<1>2. PICK h \in retention : retention' = retention \ {h}
  BY DEF DropRetentionHash
<1>3. IsFiniteSet(retention')
  BY <1>2, SoundTables, FS_RemoveElement
<1>4. Workable'
  BY <1>1, <1>2, <1>3, SoundTables, EditedTables
<1>5. PICK k \in 1 .. Len(checkpoints) :
        checkpoints[k].from_id <= h.event_id /\ h.event_id <= checkpoints[k].through_id
  BY <1>2, SealedWhere DEF Sound, HashesPlaced
<1> DEFINE cp == checkpoints[k]
           A  == RowsIn(audit_events, cp.from_id, cp.through_id)
           H  == RetiredIn(retention, cp.from_id, cp.through_id)
<1>6. RetiredIn(retention', cp.from_id, cp.through_id) = H \ {h} /\ h \in H
  BY <1>2, <1>5 DEF RetiredIn
<1>7. IsFiniteSet(H) /\ Cardinality(A) \in Nat /\ Cardinality(H) \in Nat
  BY SoundTables, SegmentsFinite DEF Workable
<1>8. Cardinality(H \ {h}) = Cardinality(H) - 1
  <2> HIDE DEF H
  <2> QED BY <1>6, <1>7, FS_RemoveElement
<1>9. SegmentSize(audit_events', retention', cp) # SegmentSize(audit_events, retention, cp)
  <2>1. /\ SegmentSize(audit_events', retention', cp) = Cardinality(A) + Cardinality(H \ {h})
        /\ SegmentSize(audit_events, retention, cp) = Cardinality(A) + Cardinality(H)
    BY <1>1, <1>6 DEF SegmentSize
  <2> HIDE DEF A, H
  <2> QED BY <2>1, <1>7, <1>8
<1> QED BY <1>1, <1>4, <1>9, WrongSize

(* A retention hash rewritten is not the fingerprint that was folded. *)
LEMMA RewrittenHash ==
  ASSUME Sound, RewriteRetentionHash
  PROVE  Workable' /\ Exposed'
<1>1. /\ WriteLockFree
      /\ UNCHANGED <<now, lastId, pending, jobVars, verifyVars, audit_events, checkpoints>>
  BY DEF RewriteRetentionHash, Edit
<1>2. PICK h \in retention, other \in Fingerprint :
        /\ other # h.fingerprint
        /\ retention' = (retention \ {h}) \cup {[h EXCEPT !.fingerprint = other]}
  BY DEF RewriteRetentionHash
<1> DEFINE new == [h EXCEPT !.fingerprint = other]
<1>3. /\ h \in Entries /\ new \in Entries
      /\ new.fingerprint = other /\ new.event_id = h.event_id
  BY <1>2, SoundTables DEF Entries
<1> HIDE DEF new
<1>4. retention' = (retention \ {h}) \cup {new}
  BY <1>2 DEF new
<1>5. retention' \subseteq Entries /\ IsFiniteSet(retention')
  BY <1>3, <1>4, SoundTables, FS_RemoveElement, FS_AddElement
<1>6. Workable'
  BY <1>1, <1>5, SoundTables, EditedTables
<1>7. PICK k \in 1 .. Len(checkpoints) :
        checkpoints[k].from_id <= h.event_id /\ h.event_id <= checkpoints[k].through_id
  BY <1>2, SealedWhere DEF Sound, HashesPlaced
<1> DEFINE cp == checkpoints[k]
<1>8. h \in SegmentEntries(audit_events, retention, cp) /\ h \in RetiredIn(retention, cp.from_id, cp.through_id)
  BY <1>2, <1>7 DEF SegmentEntries, RetiredIn
<1>9. ASSUME NEW d \in SegmentEntries(audit_events', retention', cp),
             d.fingerprint = h.fingerprint
      PROVE  FALSE
  <2>1. d # new
    BY <1>2, <1>3, <1>9
  <2>2. CASE d \in RetiredIn(retention', cp.from_id, cp.through_id)
    <3>1. d \in retention /\ d # h /\ d \in SegmentEntries(audit_events, retention, cp)
      BY <2>1, <2>2, <1>4 DEF RetiredIn, SegmentEntries
    <3> QED BY <3>1, <1>8, <1>9, FingerprintTells
  <2>3. ASSUME NEW s \in RowsIn(audit_events, cp.from_id, cp.through_id), d = Entry(s)
        PROVE  FALSE
    <3>1. d \in SegmentEntries(audit_events, retention, cp)
      BY <2>3 DEF SegmentEntries
    <3>2. d = h
      BY <3>1, <1>8, <1>9, FingerprintTells
    <3>3. s.id = h.event_id
      BY <3>2, <2>3 DEF Entry
    <3>4. Clash(audit_events, retention, cp)
      BY <3>3, <1>8 DEF Clash
    <3> QED BY <3>4, SoundTables DEF Describes
  <2> QED BY <1>9, <1>1, <2>2, <2>3 DEF SegmentEntries
<1> HIDE DEF cp
<1> QED BY <1>1, <1>6, <1>8, <1>9, MissingFingerprint DEF cp

(* A hash inserted into a segment is one too many. *)
LEMMA InsertedHash ==
  ASSUME Sound, InsertRetentionHash
  PROVE  Workable' /\ Exposed'
<1>1. /\ WriteLockFree
      /\ UNCHANGED <<now, lastId, pending, jobVars, verifyVars, audit_events, checkpoints>>
  BY DEF InsertRetentionHash, Edit
<1>2. PICK new \in Entries :
        /\ SealedId(new.event_id)
        /\ \A h \in retention : h.event_id # new.event_id
        /\ retention' = retention \cup {new}
  BY DEF InsertRetentionHash
<1>3. IsFiniteSet(retention') /\ retention' \subseteq Entries
  BY <1>2, SoundTables, FS_AddElement
<1>4. Workable'
  BY <1>1, <1>3, SoundTables, EditedTables
<1>5. PICK k \in 1 .. Len(checkpoints) :
        checkpoints[k].from_id <= new.event_id /\ new.event_id <= checkpoints[k].through_id
  BY <1>2, SealedWhere
<1> DEFINE cp == checkpoints[k]
           A  == RowsIn(audit_events, cp.from_id, cp.through_id)
           H  == RetiredIn(retention, cp.from_id, cp.through_id)
<1>6. RetiredIn(retention', cp.from_id, cp.through_id) = H \cup {new} /\ new \notin H
  BY <1>2, <1>5 DEF RetiredIn
<1>7. IsFiniteSet(H) /\ Cardinality(A) \in Nat /\ Cardinality(H) \in Nat
  BY SoundTables, SegmentsFinite DEF Workable
<1>8. Cardinality(H \cup {new}) = Cardinality(H) + 1
  <2> HIDE DEF H
  <2> QED BY <1>6, <1>7, FS_AddElement
<1>9. SegmentSize(audit_events', retention', cp) # SegmentSize(audit_events, retention, cp)
  <2>1. /\ SegmentSize(audit_events', retention', cp) = Cardinality(A) + Cardinality(H \cup {new})
        /\ SegmentSize(audit_events, retention, cp) = Cardinality(A) + Cardinality(H)
    BY <1>1, <1>6 DEF SegmentSize
  <2> HIDE DEF A, H
  <2> QED BY <2>1, <1>7, <1>8
<1> QED BY <1>1, <1>4, <1>9, WrongSize

(* A checkpoint replaced by another in its place leaves the others alone.  *)
LEMMA ReplacedCheckpoint ==
  ASSUME Sound, WriteLockFree,
         UNCHANGED <<now, lastId, pending, jobVars, verifyVars, audit_events, retention>>,
         NEW k \in 1 .. Len(checkpoints), NEW new \in CheckpointType,
         checkpoints' = [checkpoints EXCEPT ![k] = new]
  PROVE  /\ Workable'
         /\ Len(checkpoints') = Len(checkpoints)
         /\ checkpoints'[k] = new
         /\ \A m \in 1 .. Len(checkpoints) : m # k => checkpoints'[m] = checkpoints[m]
         /\ ChainBefore(checkpoints', k) = ChainBefore(checkpoints, k)
<1>1. /\ checkpoints' \in Seq(CheckpointType)
      /\ Len(checkpoints') = Len(checkpoints)
      /\ checkpoints'[k] = new
      /\ \A m \in 1 .. Len(checkpoints) : m # k => checkpoints'[m] = checkpoints[m]
  BY SoundTables
<1>2. Workable'
  BY <1>1, SoundTables, EditedTables
<1>3. ChainBefore(checkpoints', k) = ChainBefore(checkpoints, k)
  <2>1. k = 1 \/ (k - 1 \in 1 .. Len(checkpoints) /\ k - 1 # k)
    BY SoundTables
  <2> QED BY <2>1, <1>1 DEF ChainBefore
<1> QED BY <1>1, <1>2, <1>3

(* A forged seal is not the fold of its segment, not of its length or not  *)
(* seeded with the seal before.                                            *)
LEMMA ForgedSeal ==
  ASSUME Sound, NEW k \in 1 .. Len(checkpoints), ForgeSeal(k)
  PROVE  Workable' /\ Exposed'
<1> DEFINE cp == checkpoints[k]
<1>1. /\ WriteLockFree
      /\ UNCHANGED <<now, lastId, pending, jobVars, verifyVars, audit_events, retention>>
      /\ checkpoints' # checkpoints
  BY DEF ForgeSeal, Edit
<1>2. PICK forged \in Forgeries, n \in 0 .. MaxId :
        \/ checkpoints' = [checkpoints EXCEPT ![k] = [cp EXCEPT !.chain_hash = forged]]
        \/ checkpoints' = [checkpoints EXCEPT ![k] = [cp EXCEPT !.prev_chain_hash = forged]]
        \/ checkpoints' = [checkpoints EXCEPT ![k] = [cp EXCEPT !.row_count = n]]
  BY DEF ForgeSeal
<1>3. /\ cp \in CheckpointType /\ cp.through_id <= lastId
      /\ Describes(audit_events, retention, checkpoints, k)
      /\ cp.prev_chain_hash = ChainBefore(checkpoints, k)
  BY SoundTables DEF Describes
<1>4. forged \in Seq(SUBSET Fingerprint) /\ n \in Nat
  <2>1. GENESIS \in Seq(SUBSET Fingerprint) /\ <<{}>> \in Seq(SUBSET Fingerprint)
    <3>1. {} \in SUBSET Fingerprint
      OBVIOUS
    <3> QED BY <3>1 DEF GENESIS
  <2>2. \A m \in DOMAIN checkpoints : checkpoints[m].chain_hash \in Seq(SUBSET Fingerprint)
    BY SoundTables DEF CheckpointType
  <2>3. \/ forged = GENESIS \/ forged = <<{}>>
        \/ \E m \in DOMAIN checkpoints : forged = checkpoints[m].chain_hash
    BY Zenon DEF Forgeries
  <2>4. n \in Nat
    BY BoundsAssumption
  <2> QED BY <2>1, <2>2, <2>3, <2>4
<1>5. PICK new \in CheckpointType :
        /\ checkpoints' = [checkpoints EXCEPT ![k] = new] /\ new # cp
        /\ new.from_id = cp.from_id /\ new.through_id = cp.through_id
        /\ \/ /\ new.chain_hash # cp.chain_hash
              /\ new.prev_chain_hash = cp.prev_chain_hash
           \/ new.prev_chain_hash # cp.prev_chain_hash
           \/ new.row_count # cp.row_count
  <2>0. \A new : checkpoints' = [checkpoints EXCEPT ![k] = new] => new # cp
    BY <1>1, SoundTables
  <2>1. CASE checkpoints' = [checkpoints EXCEPT ![k] = [cp EXCEPT !.chain_hash = forged]]
    <3> DEFINE new == [cp EXCEPT !.chain_hash = forged]
    <3>1. /\ new \in CheckpointType
          /\ new.from_id = cp.from_id /\ new.through_id = cp.through_id
          /\ new.prev_chain_hash = cp.prev_chain_hash /\ new.chain_hash = forged
          /\ forged = cp.chain_hash => new = cp
      BY <1>3, <1>4 DEF CheckpointType
    <3> HIDE DEF cp
    <3> QED BY <2>0, <2>1, <3>1
  <2>2. CASE checkpoints' = [checkpoints EXCEPT ![k] = [cp EXCEPT !.prev_chain_hash = forged]]
    <3> DEFINE new == [cp EXCEPT !.prev_chain_hash = forged]
    <3>1. /\ new \in CheckpointType
          /\ new.from_id = cp.from_id /\ new.through_id = cp.through_id
          /\ new.prev_chain_hash = forged
          /\ forged = cp.prev_chain_hash => new = cp
      BY <1>3, <1>4 DEF CheckpointType
    <3> HIDE DEF cp
    <3> QED BY <2>0, <2>2, <3>1
  <2>3. CASE checkpoints' = [checkpoints EXCEPT ![k] = [cp EXCEPT !.row_count = n]]
    <3> DEFINE new == [cp EXCEPT !.row_count = n]
    <3>1. /\ new \in CheckpointType
          /\ new.from_id = cp.from_id /\ new.through_id = cp.through_id
          /\ new.row_count = n
          /\ n = cp.row_count => new = cp
      BY <1>3, <1>4 DEF CheckpointType
    <3> HIDE DEF cp
    <3> QED BY <2>0, <2>3, <3>1
  <2> QED BY <1>2, <2>1, <2>2, <2>3
<1>6. /\ Workable' /\ Len(checkpoints') = Len(checkpoints) /\ checkpoints'[k] = new
      /\ ChainBefore(checkpoints', k) = ChainBefore(checkpoints, k)
  BY <1>1, <1>5, ReplacedCheckpoint
<1>7. /\ SegmentEntries(audit_events', retention', new)
           = SegmentEntries(audit_events, retention, cp)
      /\ SegmentSize(audit_events', retention', new)
           = SegmentSize(audit_events, retention, cp)
  BY <1>1, <1>5 DEF SegmentEntries, SegmentSize
<1>8. ~Describes(audit_events', retention', checkpoints', k)
  BY <1>3, <1>5, <1>6, <1>7 DEF Describes
<1>9. Evidence(k)'
  BY <1>1, <1>3, <1>5, <1>6, <1>8 DEF Evidence
<1> QED BY <1>6, <1>9, SoundTables DEF Exposed

(* A range wider than another holds as much, and more if it holds others.  *)
LEMMA WiderRange ==
  ASSUME Workable, NEW lo \in Int, NEW hi \in Int, NEW down \in Int, NEW up \in Int,
         down <= lo, hi <= up,
         NEW in, in = [from_id |-> lo, through_id |-> hi],
         NEW out, out = [from_id |-> down, through_id |-> up],
         Covered(in) # Covered(out)
  PROVE  SegmentSize(audit_events, retention, in) < SegmentSize(audit_events, retention, out)
<1> DEFINE A == RowsIn(audit_events, lo, hi)
           B == RowsIn(audit_events, down, up)
           H == RetiredIn(retention, lo, hi)
           I == RetiredIn(retention, down, up)
<1>1. A \subseteq B /\ H \subseteq I
  <2>1. \A r \in audit_events : r.id \in Int
    BY DEF Workable, TypeOK, Row, Ids
  <2>2. \A h \in retention : h.event_id \in Int
    BY DEF Workable, TypeOK, Entries, Ids
  <2> QED BY <2>1, <2>2 DEF RowsIn, RetiredIn
<1>2. /\ IsFiniteSet(B) /\ IsFiniteSet(I)
      /\ Cardinality(A) \in Nat /\ Cardinality(B) \in Nat
      /\ Cardinality(H) \in Nat /\ Cardinality(I) \in Nat
  BY SegmentsFinite DEF Workable
<1>3. A # B \/ H # I
  BY DEF Covered
<1>4. /\ SegmentSize(audit_events, retention, in) = Cardinality(A) + Cardinality(H)
      /\ SegmentSize(audit_events, retention, out) = Cardinality(B) + Cardinality(I)
  BY DEF SegmentSize
<1> HIDE DEF A, B, H, I
<1>5. /\ Cardinality(A) <= Cardinality(B) /\ Cardinality(H) <= Cardinality(I)
      /\ Cardinality(B) = Cardinality(A) => A = B
      /\ Cardinality(I) = Cardinality(H) => H = I
  BY <1>1, <1>2, FS_Subset
<1> QED BY <1>2, <1>3, <1>4, <1>5

(* A border moved is found unless it was moved within a gap. *)
LEMMA MovedBorder ==
  ASSUME Sound, NEW k \in 1 .. Len(checkpoints), MoveBorder(k)
  PROVE  /\ Workable'
         /\ damage' = "exposed" => Exposed'
         /\ damage' # "none"
<1> DEFINE cp == checkpoints[k]
<1>0. PICK i \in Ids :
        \E new \in {[cp EXCEPT !.from_id = i], [cp EXCEPT !.through_id = i]} :
          /\ new # cp
          /\ checkpoints' = [checkpoints EXCEPT ![k] = new]
          /\ Edit(IF Covered(new) = Covered(cp) THEN "hidden" ELSE "exposed")
          /\ UNCHANGED <<audit_events, retention>>
  BY Zenon DEF MoveBorder
<1>1. PICK new \in {[cp EXCEPT !.from_id = i], [cp EXCEPT !.through_id = i]} :
        /\ new # cp
        /\ checkpoints' = [checkpoints EXCEPT ![k] = new]
        /\ Edit(IF Covered(new) = Covered(cp) THEN "hidden" ELSE "exposed")
        /\ UNCHANGED <<audit_events, retention>>
  BY <1>0
<1>2. /\ WriteLockFree
      /\ UNCHANGED <<now, lastId, pending, jobVars, verifyVars, audit_events, retention>>
      /\ damage' = IF Covered(new) = Covered(cp) THEN "hidden" ELSE "exposed"
  BY <1>1 DEF Edit
<1>3. /\ cp \in CheckpointType /\ cp.through_id <= lastId
      /\ cp.from_id \in Int /\ cp.through_id \in Int /\ cp.row_count \in Int
      /\ cp.row_count = SegmentSize(audit_events, retention, cp)
      /\ lastId \in Int
  <2>1. cp \in CheckpointType /\ cp.through_id <= lastId
    BY SoundTables
  <2>2. cp.from_id \in Int /\ cp.through_id \in Int /\ cp.row_count \in Int
    BY <2>1 DEF CheckpointType, Ids
  <2>3. cp.row_count = SegmentSize(audit_events, retention, cp)
    BY SoundTables DEF Describes
  <2>4. lastId \in Int
    BY SoundTables DEF Workable, TypeOK
  <2> QED BY <2>1, <2>2, <2>3, <2>4
<1>4. /\ new \in CheckpointType /\ i \in Int /\ new.row_count = cp.row_count
      /\ \/ new.from_id = i /\ new.through_id = cp.through_id
         \/ new.from_id = cp.from_id /\ new.through_id = i
  BY <1>1, <1>3 DEF CheckpointType, Ids
<1>5. Workable' /\ Len(checkpoints') = Len(checkpoints) /\ checkpoints'[k] = new
  BY <1>1, <1>2, <1>4, ReplacedCheckpoint
<1>6. ASSUME Covered(new) # Covered(cp) PROVE Exposed'
  <2> DEFINE old  == [from_id |-> cp.from_id, through_id |-> cp.through_id]
             this == [from_id |-> new.from_id, through_id |-> new.through_id]
             Size(c) == SegmentSize(audit_events, retention, c)
  <2>1. /\ Covered(new) = Covered(this) /\ Covered(cp) = Covered(old)
        /\ Size(new) = Size(this) /\ Size(cp) = Size(old)
    BY DEF Covered, SegmentSize
  <2>2. /\ new.from_id \in Int /\ new.through_id \in Int
        /\ \/ new.from_id <= cp.from_id /\ cp.through_id <= new.through_id
           \/ cp.from_id <= new.from_id /\ new.through_id <= cp.through_id
    BY <1>3, <1>4
  <2>3. Covered(old) # Covered(this)
    BY <2>1, <1>6
  <2>4. Workable
    BY SoundTables
  <2> HIDE DEF cp, old, this, Size
  <2>5. Size(this) \in Int /\ Size(old) \in Int
    BY <2>4, SegmentsFinite DEF SegmentSize, Size, Workable
  <2>6. \/ new.row_count < Size(new)
        \/ Size(new) < new.row_count /\ new.through_id <= lastId
    <3>1. CASE new.from_id <= cp.from_id /\ cp.through_id <= new.through_id
      <4>1. Size(old) < Size(this)
        BY <2>2, <2>3, <2>4, <3>1, <1>3, WiderRange DEF old, this, Size
      <4> QED BY <4>1, <2>1, <2>5, <1>3, <1>4 DEF Size
    <3>2. CASE cp.from_id <= new.from_id /\ new.through_id <= cp.through_id
      <4>1. Size(this) < Size(old)
        BY <2>2, <2>3, <2>4, <3>2, <1>3, WiderRange DEF old, this, Size
      <4>2. new.through_id <= lastId
        BY <2>2, <3>2, <1>3
      <4> QED BY <4>1, <4>2, <2>1, <2>5, <1>3, <1>4 DEF Size
    <3> QED BY <2>2, <3>1, <3>2
  <2>7. new.row_count # Size(new)
    BY <2>1, <2>5, <2>6, <1>3, <1>4
  <2>8. SegmentSize(audit_events', retention', checkpoints'[k]) = Size(new)
    BY <1>2, <1>5 DEF Size
  <2>9. ~Describes(audit_events', retention', checkpoints', k)
    BY <2>7, <2>8, <1>5 DEF Describes
  <2>10. Evidence(k)'
    BY <2>6, <2>8, <2>9, <1>2, <1>5 DEF Evidence
  <2> QED BY <2>10, SoundTables DEF Exposed
<1> QED BY <1>2, <1>5, <1>6

(* A checkpoint out of its place is not seeded with the one before it.     *)
LEMMA OutOfPlace ==
  ASSUME Sound, UNCHANGED lastId,
         NEW k \in 1 .. Len(checkpoints), NEW m \in 1 .. Len(checkpoints), k < m,
         k \in 1 .. Len(checkpoints'), checkpoints'[k] = checkpoints[m],
         \A i \in 1 .. k - 1 : checkpoints'[i] = checkpoints[i]
  PROVE  Exposed'
<1>1. /\ checkpoints[m].through_id <= lastId
      /\ checkpoints[m].prev_chain_hash = ChainBefore(checkpoints, m)
      /\ Len(checkpoints) \in Nat
  BY SoundTables DEF Describes
<1>2. Len(checkpoints[m].prev_chain_hash) = m - 1
  <2>1. m - 1 \in 1 .. Len(checkpoints) /\ m # 1
    BY <1>1
  <2>2. checkpoints[m].prev_chain_hash = checkpoints[m - 1].chain_hash
    BY <2>1, <1>1 DEF ChainBefore
  <2> QED BY <2>1, <2>2 DEF Sound, ChainsCounted
<1>3. Len(ChainBefore(checkpoints', k)) = k - 1
  <2>1. CASE k = 1
    BY <2>1 DEF ChainBefore, GENESIS
  <2>2. CASE k # 1
    <3>1. k - 1 \in 1 .. k - 1 /\ k - 1 \in 1 .. Len(checkpoints)
      BY <2>2, <1>1
    <3>2. ChainBefore(checkpoints', k) = checkpoints[k - 1].chain_hash
      BY <2>2, <3>1 DEF ChainBefore
    <3> QED BY <3>1, <3>2 DEF Sound, ChainsCounted
  <2> QED BY <2>1, <2>2
<1>4. checkpoints'[k].prev_chain_hash # ChainBefore(checkpoints', k)
  BY <1>2, <1>3
<1>5. Evidence(k)'
  BY <1>1, <1>4 DEF Evidence, Describes
<1> QED BY <1>1, <1>5 DEF Exposed

(* What the concatenation of two lists of checkpoints holds. *)
JoinOf(u, v, y) ==
  /\ y \in Seq(CheckpointType) /\ Len(y) = Len(u) + Len(v)
  /\ \A i \in 1 .. Len(u) : y[i] = u[i]
  /\ \A i \in 1 .. Len(v) : y[Len(u) + i] = v[i]

(* The operator \o yields it. *)
LEMMA JoinedCheckpoints ==
  ASSUME NEW u \in Seq(CheckpointType), NEW v \in Seq(CheckpointType), NEW y, y = u \o v
  PROVE  JoinOf(u, v, y)
<1>1. u \o v \in Seq(CheckpointType) /\ Len(u \o v) = Len(u) + Len(v)
  OBVIOUS
<1>2. \A i \in 1 .. Len(u) : (u \o v)[i] = u[i]
  OBVIOUS
<1>3. ASSUME NEW i \in 1 .. Len(v) PROVE (u \o v)[Len(u) + i] = v[i]
  <2>1. Len(u) \in Nat /\ Len(v) \in Nat
    OBVIOUS
  <2>2. /\ Len(u) + i \in 1 .. Len(u) + Len(v) /\ ~(Len(u) + i <= Len(u))
        /\ Len(u) + i - Len(u) = i
    BY <2>1
  <2> QED BY <2>1, <2>2
<1> QED BY <1>1, <1>2, <1>3 DEF JoinOf

(* A checkpoint removed leaves the next one in its place; the newest       *)
(* leaves nothing.                                                         *)
LEMMA DeletedCheckpoint ==
  ASSUME Sound, NEW k \in 1 .. Len(checkpoints), DeleteCheckpoint(k)
  PROVE  /\ Workable'
         /\ damage' = "exposed" => Exposed'
         /\ damage' # "none"
<1> DEFINE n == Len(checkpoints)
<1>1. /\ WriteLockFree
      /\ UNCHANGED <<now, lastId, pending, jobVars, verifyVars, audit_events, retention>>
      /\ damage' = IF k = Len(checkpoints) THEN "hidden" ELSE "exposed"
      /\ checkpoints' = SubSeq(checkpoints, 1, k - 1) \o SubSeq(checkpoints, k + 1, n)
  BY DEF DeleteCheckpoint, Edit, SeqExt!RemoveAt
<1>2. /\ checkpoints \in Seq(CheckpointType) /\ n \in Nat
      /\ k - 1 \in 0 .. n /\ k + 1 \in 1 .. n + 1
  BY SoundTables
<1>u. PICK u, v : u = SubSeq(checkpoints, 1, k - 1) /\ v = SubSeq(checkpoints, k + 1, n)
  OBVIOUS
<1>3. /\ u \in Seq(CheckpointType) /\ Len(u) = k - 1
      /\ \A i \in 1 .. k - 1 : u[i] = checkpoints[i]
  BY <1>2, <1>u
<1>4. /\ v \in Seq(CheckpointType) /\ Len(v) = n - k
      /\ \A i \in 1 .. n - k : v[i] = checkpoints[k + i]
  BY <1>2, <1>u
<1>5. PICK y : y = u \o v
  OBVIOUS
<1>6. checkpoints' = y
  BY <1>1, <1>5, <1>u
<1>j. /\ y \in Seq(CheckpointType) /\ Len(y) = n - 1
      /\ \A i \in 1 .. k - 1 : y[i] = u[i]
      /\ \A i \in 1 .. n - k : y[k - 1 + i] = v[i]
  <2>1. /\ y \in Seq(CheckpointType) /\ Len(y) = Len(u) + Len(v)
        /\ \A i \in 1 .. Len(u) : y[i] = u[i]
        /\ \A i \in 1 .. Len(v) : y[Len(u) + i] = v[i]
    <3>1. JoinOf(u, v, y)
      BY <1>3, <1>4, <1>5, JoinedCheckpoints
    <3> QED BY <3>1 DEF JoinOf
  <2> QED BY <2>1, <1>2, <1>3, <1>4
<1>7. Workable'
  BY <1>1, <1>j, <1>6, SoundTables, EditedTables
<1>8. ASSUME k # n PROVE Exposed'
  <2>1. /\ k + 1 \in 1 .. n /\ k < k + 1 /\ 1 \in 1 .. n - k /\ k - 1 + 1 = k
        /\ k \in 1 .. n - 1
    BY <1>2, <1>8
  <2>4. k \in 1 .. Len(checkpoints')
    BY <2>1, <1>j, <1>6
  <2>2. checkpoints'[k] = checkpoints[k + 1]
    BY <2>1, <1>4, <1>j, <1>6
  <2>3. \A i \in 1 .. k - 1 : checkpoints'[i] = checkpoints[i]
    BY <1>3, <1>j, <1>6
  <2> QED BY <2>1, <2>2, <2>3, <2>4, <1>1, OutOfPlace
<1> QED BY <1>1, <1>7, <1>8

(* Of two checkpoints exchanged the later one comes too early. *)
LEMMA ReorderedCheckpoints ==
  ASSUME Sound, NEW k \in 1 .. Len(checkpoints), NEW m \in 1 .. Len(checkpoints),
         ReorderCheckpoints(k, m)
  PROVE  Workable' /\ Exposed'
<1>1. /\ WriteLockFree /\ k < m
      /\ UNCHANGED <<now, lastId, pending, jobVars, verifyVars, audit_events, retention>>
      /\ checkpoints' = [checkpoints EXCEPT ![k] = checkpoints[m], ![m] = checkpoints[k]]
  BY DEF ReorderCheckpoints, Edit
<1>2. checkpoints' \in Seq(CheckpointType) /\ Len(checkpoints') = Len(checkpoints)
  BY <1>1, SoundTables
<1>3. Workable'
  BY <1>1, <1>2, SoundTables, EditedTables
<1>4. /\ checkpoints'[k] = checkpoints[m]
      /\ \A i \in 1 .. k - 1 : checkpoints'[i] = checkpoints[i]
  BY <1>1, SoundTables
<1> QED BY <1>1, <1>2, <1>3, <1>4, OutOfPlace

(* One edit, outside the program, of a sealed row, a retention hash or a   *)
(* checkpoint that changes what a seal says or covers makes every          *)
(* verification of what is left fail, whatever the jobs go on doing to the *)
(* log; and a verification of an untouched log ends clean.  A NULL column  *)
(* made empty counts as untouched, and of a border moved within a gap and  *)
(* of the newest checkpoint removed nothing is claimed (verify_audit_log   *)
(* and the docstring of logs/integrity.py).                                *)
THEOREM TamperEvidence == TamperSpec => []TamperingIsDetected
<1>1. TamperInv /\ [TamperNext]_tamperVars => TamperInv'
  <2> SUFFICES ASSUME TamperInv, [TamperNext]_tamperVars PROVE TamperInv'
    OBVIOUS
  <2>1. ASSUME [Next]_vars, damage' = damage,
               suspect' = IF vpc # "checking" /\ vpc' = "checking" THEN damage ELSE suspect
        PROVE  TamperInv'
    <3>1. Workable' /\ VerifierTells'
      BY <2>1, WorkableStep, TellsStep DEF TamperInv
    <3>2. Sound => Sound'
      BY <2>1, ProgramStep, PlacedStep, CountedStep DEF Sound
    <3>3. damage = "exposed" => Exposed'
      BY <2>1, EvidenceStep DEF TamperInv
    <3> QED BY <2>1, <3>1, <3>2, <3>3 DEF TamperInv
  <2>2. ASSUME damage = "none", UNCHANGED <<verifyVars, suspect>>, Workable',
               damage' = "none" => Sound', damage' = "exposed" => Exposed'
        PROVE  TamperInv'
    <3>1. VerifierTells'
      BY <2>2 DEF verifyVars, TamperInv, VerifierTells, TamperingIsDetected
    <3> QED BY <2>2, <3>1 DEF TamperInv
  <2>s. ASSUME NEW done, Edit(done)
        PROVE  /\ damage = "none" /\ Sound /\ damage' = done
               /\ UNCHANGED <<verifyVars, suspect>>
    BY <2>s DEF Edit, TamperInv
  <2>3. CASE ModifySealedRow
    BY <2>2, <2>3, <2>s, ModifiedRow DEF ModifySealedRow
  <2>4. CASE DeleteSealedRow
    BY <2>2, <2>4, <2>s, DeletedRow DEF DeleteSealedRow
  <2>5. CASE InsertSealedRow
    BY <2>2, <2>5, <2>s, InsertedRow DEF InsertSealedRow
  <2>6. CASE DropRetentionHash
    BY <2>2, <2>6, <2>s, DroppedHash DEF DropRetentionHash
  <2>7. CASE RewriteRetentionHash
    BY <2>2, <2>7, <2>s, RewrittenHash DEF RewriteRetentionHash
  <2>8. CASE InsertRetentionHash
    BY <2>2, <2>8, <2>s, InsertedHash DEF InsertRetentionHash
  <2>9. ASSUME NEW k \in DOMAIN checkpoints,
               \/ ForgeSeal(k) \/ MoveBorder(k) \/ DeleteCheckpoint(k)
               \/ \E m \in DOMAIN checkpoints : ReorderCheckpoints(k, m)
        PROVE  TamperInv'
    <3>0. DOMAIN checkpoints = 1 .. Len(checkpoints)
      BY LastCheckpoint DEF TamperInv, Workable
    <3>1. CASE ForgeSeal(k)
      BY <2>2, <3>0, <3>1, <2>s, ForgedSeal DEF ForgeSeal
    <3>2. CASE MoveBorder(k)
      BY <2>2, <3>0, <3>2, <2>s, MovedBorder DEF MoveBorder
    <3>3. CASE DeleteCheckpoint(k)
      BY <2>2, <3>0, <3>3, <2>s, DeletedCheckpoint DEF DeleteCheckpoint
    <3>4. ASSUME NEW m \in DOMAIN checkpoints, ReorderCheckpoints(k, m) PROVE TamperInv'
      <4>1. Edit("exposed")
        BY <3>4 DEF ReorderCheckpoints
      <4>2. /\ damage = "none" /\ Sound /\ damage' = "exposed"
            /\ UNCHANGED <<verifyVars, suspect>>
        BY <4>1, <2>s
      <4>3. Workable' /\ Exposed'
        BY <3>0, <3>4, <4>2, ReorderedCheckpoints
      <4> QED BY <2>2, <4>2, <4>3
    <3> QED BY <2>9, <3>1, <3>2, <3>3, <3>4
  <2>10. CASE UNCHANGED tamperVars
    <3>1. UNCHANGED vars /\ damage' = damage /\ suspect' = suspect /\ vpc' = vpc
      BY <2>10 DEF tamperVars, vars, verifyVars
    <3> QED BY <3>1, <2>1
  <2>11. CASE Next /\ UNCHANGED damage
              /\ suspect' = IF vpc # "checking" /\ vpc' = "checking" THEN damage ELSE suspect
    BY <2>1, <2>11
  <2> QED BY <2>3, <2>4, <2>5, <2>6, <2>7, <2>8, <2>9, <2>10, <2>11 DEF TamperNext
<1>2. TamperInv => TamperingIsDetected
  BY DEF TamperInv, VerifierTells
<1> QED BY TamperInvInit, <1>1, <1>2, PTL DEF TamperSpec
=============================================================================
