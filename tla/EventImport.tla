------------------------------ MODULE EventImport ------------------------------
(***************************************************************************)
(* The replay of a file of event records into audit_events                 *)
(* (detection/replay.py): the whole file is validated, its offsets are     *)
(* resolved against a base time, and its rows are inserted in one          *)
(* transaction, while the loggers of other processes append rows of their  *)
(* own to the same SQLite file.                                            *)
(***************************************************************************)
EXTENDS Integers, Sequences, FiniteSets, FiniteSetsExt

CONSTANTS
  Importers,  (* processes, each replaying one file                        *)
  Offsets,    (* the values of offset_seconds                              *)
  None,
  MaxRecords, (* bound on the records of a file                            *)
  MaxTime,    (* bound on the clock                                        *)
  MaxLogged   (* bound on the rows of the loggers                          *)

ImportAssumption ==
  Offsets \subseteq Int /\ MaxRecords \in Nat /\ MaxTime \in Nat /\ MaxLogged \in Nat
NoneAssumption == None \notin Importers

(* A record has a timestamp, an offset_seconds (the one that counts is     *)
(* named), or something read_jsonl or float() refuses.                     *)
Records ==
  [kind : {"timestamp"}, at : 0 .. MaxTime] \cup [kind : {"offset_seconds"}, at : Offsets]
    \cup [kind : {"no json", "no number"}, at : {0}]

VARIABLES
  now,
  rows,     (* audit_events in order of id: [from, n, timestamp]; those    *)
            (* after the first "committed" are of the open transaction     *)
  committed,
  lock,     (* the importer in a write transaction, or None                *)
  pc,       (* "start", "read", "insert", or how it ended: "done",         *)
            (* "refused", "raised", "killed"                               *)
  file,     (* the records of the file                                     *)
  resolved, (* the timestamps of its records                               *)
  base      (* the time they were resolved against, or None                *)

store == <<rows, committed, lock>>
vars == <<now, store, pc, file, resolved, base>>

Files == UNION {[1 .. n -> Records] : n \in 0 .. MaxRecords}
Relative(f) == {i \in DOMAIN f : f[i].kind = "offset_seconds"}

Init ==
  /\ now = 0 /\ rows = <<>> /\ committed = 0 /\ lock = None
  /\ pc = [p \in Importers |-> "start"]
  /\ file \in [Importers -> Files]
  /\ resolved = [p \in Importers |-> <<>>] /\ base = [p \in Importers |-> None]

Tick == now < MaxTime /\ now' = now + 1 /\ UNCHANGED <<store, pc, file, resolved, base>>

Goto(p, l) == pc' = [pc EXCEPT ![p] = l]

(* MUTANT: the offsets count from the base time. *)
resolve_from_base(f, t) ==
  [i \in DOMAIN f |-> IF f[i].kind = "timestamp" THEN f[i].at ELSE t + f[i].at]
(* The largest offset lands at t; with none the anchor is t.               *)
resolve_timestamps(f, t) ==
  LET largest == IF Relative(f) = {} THEN 0 ELSE Max({f[i].at : i \in Relative(f)})
  IN  [i \in DOMAIN f |-> IF f[i].kind = "timestamp" THEN f[i].at
                                                     ELSE t - largest + f[i].at]

(* One line that is no record refuses the file.                            *)
read_jsonl(p) ==
  /\ pc[p] = "start"
  /\ Goto(p, IF \E i \in DOMAIN file[p] : file[p][i].kind = "no json" THEN "refused" ELSE "read")
  /\ UNCHANGED <<now, store, file, resolved, base>>

(* The timestamps are resolved before the transaction; an offset that is   *)
(* no number raises.                                                       *)
Resolve(p) ==
  /\ pc[p] = "read"
  /\ IF \E i \in DOMAIN file[p] : file[p][i].kind = "no number"
       THEN Goto(p, "raised") /\ UNCHANGED <<resolved, base>>
       ELSE /\ Goto(p, "insert")
            /\ resolved' = [resolved EXCEPT ![p] = resolve_timestamps(file[p], now)]
            /\ base' = [base EXCEPT ![p] = now]
  /\ UNCHANGED <<now, store, file>>

(* MUTANT: every row is committed by itself. *)
InsertAutocommit(p) ==
  LET n == Cardinality({i \in DOMAIN rows : rows[i].from = p}) + 1 IN
  /\ pc[p] = "insert" /\ lock = None /\ n <= Len(file[p])
  /\ rows' = Append(rows, [from |-> p, n |-> n, timestamp |-> resolved[p][n]])
  /\ committed' = committed + 1
  /\ UNCHANGED <<now, lock, pc, file, resolved, base>>
(* The next INSERT of executemany; the first one takes the write lock.     *)
Insert(p) ==
  LET n == Len(rows) - committed + 1 IN
  /\ pc[p] = "insert"
  /\ lock = p \/ (lock = None /\ file[p] # <<>>)
  /\ lock = p => n <= Len(file[p])
  /\ lock' = p
  /\ rows' = Append(rows, [from |-> p, n |-> n, timestamp |-> resolved[p][n]])
  /\ UNCHANGED <<now, committed, pc, file, resolved, base>>

(* executemany is over, or had nothing to do. *)
Commit(p) ==
  /\ pc[p] = "insert"
  /\ file[p] = <<>> \/ (lock = p /\ Len(rows) - committed = Len(file[p]))
  /\ Goto(p, "done")
  /\ IF lock = p THEN committed' = Len(rows) /\ lock' = None
                 ELSE UNCHANGED <<committed, lock>>
  /\ UNCHANGED <<now, rows, file, resolved, base>>

(* The process is killed, or a statement fails (the wait for the lock      *)
(* times out, the disk is full): closing the connection rolls back.        *)
Fails(p) ==
  /\ pc[p] \in {"read", "insert"}
  /\ Goto(p, "killed") \/ Goto(p, "raised")
  /\ IF lock = p THEN lock' = None /\ rows' = SubSeq(rows, 1, committed)
                 ELSE UNCHANGED <<rows, lock>>
  /\ UNCHANGED <<now, committed, file, resolved, base>>

(* A logger of some process appends a row (logs/logger.py). *)
Logged ==
  /\ lock = None /\ Cardinality({i \in DOMAIN rows : rows[i].from = None}) < MaxLogged
  /\ rows' = Append(rows, [from |-> None, n |-> 1, timestamp |-> now])
  /\ committed' = committed + 1
  /\ UNCHANGED <<now, lock, pc, file, resolved, base>>

Next ==
  \/ Tick \/ Logged
  \/ \E p \in Importers :
       read_jsonl(p) \/ Resolve(p) \/ Insert(p) \/ Commit(p) \/ Fails(p)

Spec == Init /\ [][Next]_vars

-------------------------------------------------------------------------------
(* The committed rows of p, by their place in the table. *)
RowsOf(p) == {i \in 1 .. committed : rows[i].from = p}

TypeOK ==
  /\ now \in 0 .. MaxTime
  /\ committed \in 0 .. Len(rows) /\ lock \in Importers \cup {None}
  /\ \A i \in DOMAIN rows :
       /\ rows[i].from \in Importers \cup {None} /\ rows[i].timestamp \in Int
       /\ i > committed => rows[i].from = lock
  /\ \A p \in Importers :
       /\ pc[p] \in {"start", "read", "insert", "done", "refused", "raised", "killed"}
       /\ DOMAIN resolved[p] \in {{}, DOMAIN file[p]}
       /\ lock = p => pc[p] = "insert" /\ committed < Len(rows)

(* A file is in the table as a whole, in its order and with no row of      *)
(* another writer between, or not at all; and it is there exactly if the   *)
(* replay was reported done (insert_audit_records of detection/replay.py). *)
WholeOrNotAtAll ==
  \A p \in Importers :
    IF pc[p] = "done"
      THEN /\ Cardinality(RowsOf(p)) = Len(file[p])
           /\ \A i, j \in RowsOf(p) : rows[i].n - rows[j].n = i - j
      ELSE RowsOf(p) = {}

(* What a replay stores lands inside the correlator's lookback: the latest *)
(* of the relative records at the base time, the others as far apart as in *)
(* the file, and none of the absolute ones moved (resolve_timestamps).     *)
ScenarioEndsAtBase ==
  \A p \in Importers : LET f == file[p] IN
    pc[p] = "done" =>
      /\ Relative(f) # {} => \E i \in RowsOf(p) :
           rows[i].n \in Relative(f) /\ rows[i].timestamp = base[p]
      /\ \A i \in RowsOf(p) : LET r == rows[i] IN
           IF r.n \notin Relative(f) THEN r.timestamp = f[r.n].at
           ELSE /\ r.timestamp <= base[p]
                /\ \A j \in RowsOf(p) : rows[j].n \in Relative(f) =>
                     r.timestamp - rows[j].timestamp = f[r.n].at - f[rows[j].n].at
==============================================================================
