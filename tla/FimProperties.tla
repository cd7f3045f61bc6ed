---------------------------- MODULE FimProperties ----------------------------
(* What the file integrity monitor promises of its baselines and events.   *)
EXTENDS Fim

Kinds == {"MODIFIED", "DELETED", "CREATED"}
Events == [n : 1 .. MaxEvents, path : Paths, kind : Kinds,
           digest : Contents \cup {NoDigest}, loud : BOOLEAN, by : Checkers]

(* The tables and every check's locals keep their shape. *)
TypeOK ==
  /\ disk \in [Paths -> Contents \cup {NoDigest}]
  /\ readable \subseteq Paths /\ changes \in 0 .. MaxChanges
  /\ file_baselines \in [Paths -> Contents \cup {NoDigest}]
  /\ fim_directories \subseteq Roots
  /\ alerts \subseteq fim_events /\ fim_events \subseteq Events
  /\ accepted \subseteq Paths \X Contents
  /\ pc \in [Checkers -> {"idle", "files", "dispatch", "notify", "list", "create"}]
  /\ todo \in [Checkers -> SUBSET (Paths \X (Contents \cup Roots))]
  /\ roots \in [Checkers -> SUBSET Roots]
  /\ known \in [Checkers -> SUBSET Paths]
  /\ \A c \in Checkers : event[c].path \in Paths /\ event[c].kind \in Kinds \cup {"none"}
  /\ touched \in [Checkers -> SUBSET Paths] /\ handled \in [Checkers -> SUBSET Paths]
  /\ baselining \in BOOLEAN /\ hashed \subseteq Paths
  /\ hashes \in [Paths -> Contents \cup {NoDigest}]

CreatedEvents(p) == {e \in fim_events : e.kind = "CREATED" /\ e.path = p}

(* "Each new file alerts once, then folds into the baseline"               *)
(* (docs/ARCHITECTURE.md:86), however checks overlap, fail and die: of the *)
(* CREATED events of a file at most one folded it in.                      *)
OneEventFolds ==
  \A p \in Paths : \A e, f \in CreatedEvents(p) :
    e.digest # NoDigest /\ f.digest # NoDigest => e = f

(* Nothing enters the baseline unseen: every baseline is a content an      *)
(* operator baselined or one that a persisted CREATED event reported.      *)
BaselinesAreAccounted ==
  /\ TypeOK
  /\ \A p \in Baselined :
       \/ <<p, file_baselines[p]>> \in accepted
       \/ \E e \in CreatedEvents(p) : e.digest = file_baselines[p]

(* So a new file is folded in once, and with its event.                    *)
FoldedOnce == OneEventFolds /\ BaselinesAreAccounted

(* What a check that ran to its end must have reported: a file that is not *)
(* what its baseline says, or has none under a registered root.            *)
Suspicious(p) ==
  IF p \in Baselined THEN calculate_sha256(p) # file_baselines[p]
  ELSE Exists(p) /\ \E r \in fim_directories : p \in Under[r]

(* A check misses nothing that stayed as it was from its beginning to its  *)
(* end: it persisted an event of it and handed a CRITICAL one to alerting, *)
(* or logged that it could not.                                            *)
NoTamperMissed ==
  [][\A c \in Checkers : CheckEnd(c) =>
       \A p \in Paths \ touched[c] : Suspicious(p) => p \in handled[c]]_vars
=============================================================================
