----------------------------- MODULE ThreatIntel -----------------------------
(***************************************************************************)
(* A watchlist file and the cache in front of it (detection/intel.py): an  *)
(* operator edits the file while sweeps load it, each by a look at its     *)
(* mtime and, unless the cache has that mtime, a read.  An mtime is as     *)
(* fine as a tick; a file put in place of another brings its own.          *)
(***************************************************************************)
EXTENDS Integers

CONSTANTS
  Lists,       (* what the file may say                                    *)
  Empty,       (* no lines: a file just truncated, or none that opens      *)
  None,        (* no file, nothing cached, no load                         *)
  MaxTime      (* bound on the clock                                       *)

IntelAssumption ==
  Empty \notin Lists /\ None \notin Lists \cup {Empty} /\ MaxTime \in Nat

Times == 0 .. MaxTime
NoneAssumption == None \notin Times
Contents == Lists \cup {Empty}
Files == [mtime : Times, lines : Contents]

VARIABLES
  now,
  file,     (* None or [mtime, lines]                                      *)
  cache,    (* _FILE_CACHE's entry for the path, None or [mtime, lines]    *)
  pc,       (* of the load: "idle", "stat", "read"                         *)
  mtime,    (* what its stat saw, or None                                  *)
  lines,    (* what the last load returned, or None                        *)
  steady,   (* history: whether the file has been as it is, and opened,    *)
            (* since the last load began                                   *)
  hasty     (* history: whether a file was written, or put in place, with  *)
            (* an mtime that some load had seen before                     *)

vars == <<now, file, cache, pc, mtime, lines, steady, hasty>>

Init ==
  /\ now = 0
  /\ file \in {None} \cup [mtime : {0}, lines : Lists]
  /\ cache = None /\ pc = "idle" /\ mtime = None /\ lines = None
  /\ steady = TRUE /\ hasty = FALSE

Tick ==
  /\ now < MaxTime
  /\ now' = now + 1
  /\ UNCHANGED <<file, cache, pc, mtime, lines, steady, hasty>>

(* The times of change the program has in hand. *)
Looked == {cache.mtime : x \in {cache} \ {None}} \cup ({mtime} \ {None})

Becomes(f) ==
  /\ file' = f
  /\ steady' = FALSE
  /\ hasty' = (hasty \/ (f # None /\ f.mtime \in Looked))
  /\ UNCHANGED <<now, cache, pc, mtime, lines>>

(* An editor truncates the file and writes it, or puts another in its      *)
(* place that may be older; or the file goes.                              *)
Truncate == file # None /\ Becomes([mtime |-> now, lines |-> Empty])
Write(list) == file # None /\ Becomes([mtime |-> now, lines |-> list])
Replace(list, at) == at <= now /\ Becomes([mtime |-> at, lines |-> list])
Remove == file # None /\ Becomes(None)

Load ==
  /\ pc = "idle"
  /\ pc' = "stat"
  /\ steady' = TRUE
  /\ UNCHANGED <<now, file, cache, mtime, lines, hasty>>

Return(list) ==
  /\ pc' = "idle" /\ mtime' = None /\ lines' = list
  /\ UNCHANGED <<now, file, hasty>>

(* getmtime raises. *)
StatFails ==
  /\ pc = "stat" /\ file = None
  /\ Return(Empty)
  /\ UNCHANGED <<cache, steady>>

(* MUTANT: an older file does not replace what is cached. *)
CurrentOrNewer(f) == cache # None /\ f # None /\ cache.mtime >= f.mtime
Current(f) == cache # None /\ f # None /\ cache.mtime = f.mtime

StatHit ==
  /\ pc = "stat" /\ Current(file)
  /\ Return(cache.lines)
  /\ UNCHANGED <<cache, steady>>

StatMiss ==
  /\ pc = "stat" /\ file # None /\ ~Current(file)
  /\ mtime' = file.mtime
  /\ pc' = "read"
  /\ UNCHANGED <<now, file, cache, lines, steady, hasty>>

Read ==
  /\ pc = "read" /\ file # None
  /\ cache' = [mtime |-> mtime, lines |-> file.lines]
  /\ Return(file.lines)
  /\ UNCHANGED steady

(* read_text raises: the cache keeps what it has. *)
ReadFails ==
  /\ pc = "read"
  /\ Return(Empty)
  /\ steady' = FALSE
  /\ UNCHANGED cache

Next ==
  \/ Tick \/ Truncate \/ Remove
  \/ \E list \in Lists : Write(list) \/ \E at \in Times : Replace(list, at)
  \/ Load \/ StatFails \/ StatHit \/ StatMiss \/ Read \/ ReadFails

Spec == Init /\ [][Next]_vars

-----------------------------------------------------------------------------
(* Every variable has its type; a load between its two looks knows what    *)
(* the first one saw.                                                      *)
TypeOK ==
  /\ now \in Times
  /\ file \in Files \cup {None} /\ cache \in Files \cup {None}
  /\ pc \in {"idle", "stat", "read"}
  /\ mtime \in Times \cup {None} /\ (mtime # None <=> pc = "read")
  /\ lines \in Contents \cup {None}
  /\ steady \in BOOLEAN /\ hasty \in BOOLEAN

(* The lines a load returns are those of the file, if that did not change  *)
(* meanwhile and opened - as long as no file came with an mtime that was   *)
(* known before.                                                           *)
ReloadedUnlessHasty ==
  ~hasty /\ pc = "idle" /\ steady /\ file # None =>
    lines \in {None, file.lines}
=============================================================================
