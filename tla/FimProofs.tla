------------------------------- MODULE FimProofs -------------------------------
(***************************************************************************)
(* Proofs about Fim, for any files, roots and number of overlapping        *)
(* checks: a new file is folded in once and with its event, and a check    *)
(* that ran to its end missed nothing that stayed as it was.               *)
(***************************************************************************)
EXTENDS FimProperties, FiniteSetTheorems, TLAPS

USE NoDigestAssumption, UnderAssumption, BoundsAssumption

-----------------------------------------------------------------------------
(* The inductive invariant.                                                *)

Pending == [path : Paths, kind : Kinds \cup {"none"}, digest : Contents \cup {NoDigest},
            loud : BOOLEAN]
Shaped == TypeOK /\ IsFiniteSet(fim_events) /\ event \in [Checkers -> Pending]

(* What a check is about to persist. *)
OfKind(c) ==
  /\ pc[c] = "dispatch" => event[c].kind \in {"MODIFIED", "DELETED"}
  /\ pc[c] = "create" => event[c].kind = "CREATED"
  /\ pc[c] = "notify" => event[c].kind \in Kinds

(* A new file's event that has a digest folded it in, for good. *)
Folded ==
  \A e \in fim_events : e.kind = "CREATED" /\ e.digest # NoDigest => e.path \in Baselined
Accounted ==
  \A p \in Baselined :
    \/ <<p, file_baselines[p]>> \in accepted
    \/ \E e \in CreatedEvents(p) : e.digest = file_baselines[p]

(* Of the paths nothing else touched since a check began: *)
FirstHalf(c) == pc[c] \in {"files", "dispatch"} \/ (pc[c] = "notify" /\ event[c].kind # "CREATED")
SecondHalf(c) == pc[c] \in {"list", "create"} \/ (pc[c] = "notify" /\ event[c].kind = "CREATED")
Reporting(c, p) == pc[c] \in {"dispatch", "create", "notify"} /\ event[c].path = p
Breached(p) == p \in Baselined /\ calculate_sha256(p) # file_baselines[p]

(* one that is not what its baseline says was handled or is still to come; *)
BreachTracked(c) ==
  \A p \in Paths \ touched[c] : Breached(p) =>
    \/ p \in handled[c] \/ Reporting(c, p)
    \/ FirstHalf(c) /\ <<p, file_baselines[p]>> \in todo[c]

(* so was a new one under a registered root, in the second half;           *)
NewTracked(c) ==
  \A p \in Paths \ touched[c] : \A r \in fim_directories :
    SecondHalf(c) /\ p \in Under[r] /\ Exists(p) /\ p \notin Baselined =>
      \/ p \in handled[c] \/ Reporting(c, p)
      \/ r \in roots[c] \/ <<p, r>> \in todo[c]

(* the baselines read are the table's, and the digest is the disk's.       *)
KnownCurrent(c) ==
  \A p \in Paths \ touched[c] : SecondHalf(c) => (p \in known[c] <=> p \in Baselined)
HashCurrent(c) ==
  pc[c] = "create" =>
    /\ event[c].path \notin known[c]
    /\ event[c].path \notin touched[c] => event[c].digest = calculate_sha256(event[c].path)

Tracked(c) ==
  pc[c] # "idle" => BreachTracked(c) /\ NewTracked(c) /\ KnownCurrent(c) /\ HashCurrent(c)

Inv ==
  /\ Shaped /\ Folded /\ OneEventFolds /\ Accounted
  /\ \A c \in Checkers : OfKind(c) /\ Tracked(c)

-----------------------------------------------------------------------------
(* What one check does to the others.                                      *)

Stands(c) ==
  /\ pc'[c] = pc[c] /\ todo'[c] = todo[c] /\ roots'[c] = roots[c] /\ known'[c] = known[c]
  /\ event'[c] = event[c] /\ handled'[c] = handled[c]

(* Whatever changed about a path, the check has it as touched. *)
Warned(c) ==
  /\ touched[c] \subseteq touched'[c]
  /\ \A p \in Paths \ touched'[c] :
       /\ file_baselines'[p] = file_baselines[p] /\ disk'[p] = disk[p]
       /\ p \in readable' <=> p \in readable
       /\ fim_directories' = fim_directories

LEMMA OthersStay ==
  ASSUME Inv, NEW c \in Checkers, Stands(c), Warned(c)
  PROVE  OfKind(c)' /\ Tracked(c)'
<1>1. OfKind(c)'
  BY DEF Inv, OfKind, Stands
<1>2. ASSUME pc'[c] # "idle" PROVE (BreachTracked(c) /\ NewTracked(c) /\ KnownCurrent(c) /\ HashCurrent(c))'
  <2>1. BreachTracked(c) /\ NewTracked(c) /\ KnownCurrent(c) /\ HashCurrent(c)
    BY <1>2 DEF Inv, Tracked, Stands
  <2>2. ASSUME NEW p \in Paths \ touched'[c]
        PROVE  /\ p \in Paths \ touched[c] /\ file_baselines'[p] = file_baselines[p]
               /\ disk'[p] = disk[p] /\ calculate_sha256(p)' = calculate_sha256(p)
               /\ p \in Baselined' <=> p \in Baselined
               /\ fim_directories' = fim_directories
    BY DEF Warned, calculate_sha256, Baselined
  <2>3. BreachTracked(c)'
    BY <2>1, <2>2 DEF BreachTracked, Breached, Stands, FirstHalf, Reporting
  <2>4. NewTracked(c)'
    BY <2>1, <2>2 DEF NewTracked, Stands, SecondHalf, Reporting, Exists
  <2>5. KnownCurrent(c)'
    BY <2>1, <2>2 DEF KnownCurrent, Stands, SecondHalf
  <2>6. HashCurrent(c)'
    <3>1. event[c].path \in Paths
      BY DEF Inv, Shaped, Pending
    <3> QED BY <2>1, <2>2, <3>1 DEF HashCurrent, Stands
  <2> QED BY <2>3, <2>4, <2>5, <2>6
<1> QED BY <1>1, <1>2 DEF Tracked

(* The locals of the checks keep their shape.                              *)
LocalsTyped ==
  /\ pc \in [Checkers -> {"idle", "files", "dispatch", "notify", "list", "create"}]
  /\ todo \in [Checkers -> SUBSET (Paths \X (Contents \cup Roots))]
  /\ roots \in [Checkers -> SUBSET Roots]
  /\ known \in [Checkers -> SUBSET Paths]
  /\ event \in [Checkers -> Pending]
  /\ touched \in [Checkers -> SUBSET Paths] /\ handled \in [Checkers -> SUBSET Paths]
FilesTyped ==
  /\ disk \in [Paths -> Contents \cup {NoDigest}]
  /\ readable \subseteq Paths /\ changes \in 0 .. MaxChanges
OperatorTyped ==
  /\ baselining \in BOOLEAN /\ hashed \subseteq Paths
  /\ hashes \in [Paths -> Contents \cup {NoDigest}]
TablesTyped ==
  /\ file_baselines \in [Paths -> Contents \cup {NoDigest}]
  /\ fim_directories \subseteq Roots
  /\ alerts \subseteq fim_events /\ fim_events \subseteq Events /\ IsFiniteSet(fim_events)
  /\ accepted \subseteq Paths \X Contents

LEMMA ShapedParts == Shaped <=> LocalsTyped /\ FilesTyped /\ OperatorTyped /\ TablesTyped
<1>1. event \in [Checkers -> Pending] =>
        \A c \in Checkers : event[c].path \in Paths /\ event[c].kind \in Kinds \cup {"none"}
  BY DEF Pending
<1> QED BY <1>1 DEF Shaped, TypeOK, LocalsTyped, FilesTyped, OperatorTyped, TablesTyped

(* A step of one check that touches neither the disk nor the database.     *)
OnlyMoves(c) ==
  /\ UNCHANGED <<files, database, operator>>
  /\ \A d \in Checkers \ {c} : Stands(d) /\ touched'[d] = touched[d]

LEMMA ShapedNext == LocalsTyped' /\ FilesTyped' /\ OperatorTyped' /\ TablesTyped' => Shaped'
BY ShapedParts, PTL

LEMMA LocalStep ==
  ASSUME Inv, NEW c \in Checkers, OnlyMoves(c), LocalsTyped', OfKind(c)', Tracked(c)'
  PROVE  Inv'
<1>1. Shaped'
  BY ShapedParts, ShapedNext DEF Inv, OnlyMoves, FilesTyped, OperatorTyped, TablesTyped, files,
     database, operator
<1>2. Folded' /\ OneEventFolds' /\ Accounted'
  BY DEF Inv, OnlyMoves, database, Folded, OneEventFolds, Accounted, CreatedEvents, Baselined
<1>3. ASSUME NEW d \in Checkers PROVE OfKind(d)' /\ Tracked(d)'
  <2>1. CASE d = c
    BY <2>1
  <2>2. CASE d # c
    <3>1. Stands(d) /\ Warned(d)
      BY <2>2 DEF OnlyMoves, Warned, files, database
    <3> QED BY <3>1, OthersStay
  <2> QED BY <2>1, <2>2
<1>4. Shaped' /\ \A d \in Checkers : OfKind(d)' /\ Tracked(d)'
  BY <1>1, <1>3
<1> QED BY <1>2, <1>4 DEF Inv

-----------------------------------------------------------------------------
(* The steps of a check that only move it.                                 *)

LEMMA CheckBeginStep ==
  ASSUME Inv, NEW c \in Checkers, CheckBegin(c)
  PROVE  Inv'
<1>1. LocalsTyped
  BY ShapedParts DEF Inv
<1>2. file_baselines \in [Paths -> Contents \cup {NoDigest}]
  BY ShapedParts DEF Inv, TablesTyped
<1>3. OnlyMoves(c)
  BY <1>1 DEF CheckBegin, OnlyMoves, Stands, LocalsTyped, database
<1>4. LocalsTyped'
  <2>1. {<<p, file_baselines[p]>> : p \in Baselined} \subseteq Paths \X (Contents \cup Roots)
    BY <1>2 DEF Baselined
  <2> QED BY <1>1, <2>1 DEF CheckBegin, LocalsTyped
<1>5. /\ pc'[c] = "files" /\ todo'[c] = {<<p, file_baselines[p]>> : p \in Baselined}
      /\ UNCHANGED <<files, database>>
  BY <1>1 DEF CheckBegin, LocalsTyped
<1>6. OfKind(c)'
  BY <1>5 DEF OfKind
<1>7. BreachTracked(c)'
  BY <1>5 DEF BreachTracked, Breached, Baselined, FirstHalf, database
<1>8. NewTracked(c)' /\ KnownCurrent(c)' /\ HashCurrent(c)'
  BY <1>5 DEF NewTracked, KnownCurrent, HashCurrent, SecondHalf
<1> QED BY <1>3, <1>4, <1>6, <1>7, <1>8, LocalStep DEF Tracked

LEMMA UnchangedStep ==
  ASSUME Inv, NEW c \in Checkers, NEW q \in Paths, NEW d \in Contents, Unchanged(c, q, d)
  PROVE  Inv'
<1>1. LocalsTyped
  BY ShapedParts DEF Inv
<1>2. OnlyMoves(c) /\ LocalsTyped'
  BY <1>1 DEF Unchanged, OnlyMoves, Stands, LocalsTyped, database
<1>3. /\ pc[c] = "files" /\ calculate_sha256(q) = d /\ todo'[c] = todo[c] \ {<<q, d>>}
      /\ UNCHANGED <<files, database, pc, roots, known, event, touched, handled>>
  BY <1>1 DEF Unchanged, LocalsTyped
<1>4. OfKind(c)'
  BY <1>3 DEF OfKind
<1>5. BreachTracked(c)'
  <2>1. BreachTracked(c)
    BY <1>3 DEF Inv, Tracked
  <2> QED
    BY <1>3, <2>1 DEF BreachTracked, Breached, Baselined, calculate_sha256, FirstHalf, Reporting,
       files, database
<1>6. NewTracked(c)' /\ KnownCurrent(c)' /\ HashCurrent(c)'
  BY <1>3 DEF NewTracked, KnownCurrent, HashCurrent, SecondHalf
<1> QED BY <1>2, <1>4, <1>5, <1>6, LocalStep DEF Tracked

LEMMA BreachStep ==
  ASSUME Inv, NEW c \in Checkers, NEW q \in Paths, NEW d \in Contents, Breach(c, q, d)
  PROVE  Inv'
<1>1. LocalsTyped
  BY ShapedParts DEF Inv
<1> DEFINE found == [path |-> q, digest |-> NoDigest, loud |-> TRUE,
                     kind |-> IF calculate_sha256(q) = NoDigest THEN "DELETED" ELSE "MODIFIED"]
<1>2. found \in Pending /\ found.path = q /\ found.kind \in {"MODIFIED", "DELETED"}
  BY DEF Pending, Kinds
<1>3. /\ pc[c] = "files" /\ pc' = [pc EXCEPT ![c] = "dispatch"]
      /\ todo' = [todo EXCEPT ![c] = @ \ {<<q, d>>}] /\ event' = [event EXCEPT ![c] = found]
      /\ UNCHANGED <<files, database, roots, known, touched, handled, operator>>
  BY DEF Breach
<1> HIDE DEF found
<1>4. OnlyMoves(c) /\ LocalsTyped'
  BY <1>1, <1>2, <1>3 DEF OnlyMoves, Stands, LocalsTyped, database
<1>5. pc'[c] = "dispatch" /\ todo'[c] = todo[c] \ {<<q, d>>} /\ event'[c] = found
  BY <1>1, <1>3 DEF LocalsTyped
<1>6. OfKind(c)'
  BY <1>2, <1>5 DEF OfKind
<1>7. BreachTracked(c)'
  <2>1. BreachTracked(c)
    BY <1>3 DEF Inv, Tracked
  <2> QED
    BY <1>2, <1>3, <1>5, <2>1 DEF BreachTracked, Breached, Baselined, calculate_sha256, FirstHalf,
       Reporting, files, database
<1>8. NewTracked(c)' /\ KnownCurrent(c)' /\ HashCurrent(c)'
  BY <1>5 DEF NewTracked, KnownCurrent, HashCurrent, SecondHalf
<1> QED BY <1>4, <1>6, <1>7, <1>8, LocalStep DEF Tracked

(* The loop goes on once its event was handled.                            *)
LEMMA ResumeStep ==
  ASSUME Inv, NEW c \in Checkers, Resume(c), pc[c] \in {"dispatch", "create", "notify"},
         \A d \in Checkers : d # c => handled'[d] = handled[d],
         handled[c] \subseteq handled'[c],
         event[c].path \in handled'[c] \/ (pc[c] = "create" /\ event[c].path \in touched[c]),
         UNCHANGED <<files, file_baselines, fim_directories, todo, roots, known, touched>>
  PROVE  /\ OfKind(c)' /\ Tracked(c)'
         /\ pc' \in [Checkers -> {"idle", "files", "dispatch", "notify", "list", "create"}]
         /\ event' \in [Checkers -> Pending]
         /\ \A d \in Checkers \ {c} : Stands(d)
<1>1. LocalsTyped
  BY ShapedParts DEF Inv
<1>2. NoEvent \in Pending
  BY DEF NoEvent, Pending
<1>3. /\ pc' \in [Checkers -> {"idle", "files", "dispatch", "notify", "list", "create"}]
      /\ event' \in [Checkers -> Pending]
      /\ \A d \in Checkers \ {c} : Stands(d)
      /\ pc'[c] = IF event[c].kind = "CREATED" THEN "list" ELSE "files"
  BY <1>1, <1>2 DEF Resume, LocalsTyped, Stands
<1>4. OfKind(c) /\ BreachTracked(c) /\ NewTracked(c) /\ KnownCurrent(c)
  BY DEF Inv, Tracked
<1>5. OfKind(c)'
  BY <1>3 DEF OfKind
<1>6. /\ FirstHalf(c)' <=> FirstHalf(c)
      /\ SecondHalf(c)' <=> SecondHalf(c)
  BY <1>3, <1>4 DEF FirstHalf, SecondHalf, OfKind, Kinds
<1>7. \A p \in Paths \ touched[c] : p \in handled[c] \/ Reporting(c, p) => p \in handled'[c]
  BY DEF Reporting
<1>8. BreachTracked(c)'
  BY <1>4, <1>6, <1>7 DEF BreachTracked, Breached, Baselined, calculate_sha256, files
<1>9. NewTracked(c)'
  BY <1>4, <1>6, <1>7 DEF NewTracked, Baselined, Exists, files
<1>10. KnownCurrent(c)' /\ HashCurrent(c)'
  BY <1>3, <1>4, <1>6 DEF KnownCurrent, HashCurrent, Baselined
<1> QED BY <1>3, <1>5, <1>8, <1>9, <1>10 DEF Tracked

LEMMA PersistFailsStep ==
  ASSUME Inv, NEW c \in Checkers, PersistFails(c)
  PROVE  Inv'
<1>1. LocalsTyped
  BY ShapedParts DEF Inv
<1>2. /\ pc[c] \in {"dispatch", "create"} /\ Resume(c)
      /\ handled' = [handled EXCEPT ![c] = @ \cup {event[c].path}]
      /\ UNCHANGED <<files, database, todo, roots, known, touched, operator>>
      /\ event[c].path \in Paths
  BY <1>1 DEF PersistFails, LocalsTyped, Pending
<1>3. /\ handled'[c] = handled[c] \cup {event[c].path}
      /\ \A d \in Checkers : d # c => handled'[d] = handled[d]
      /\ handled' \in [Checkers -> SUBSET Paths]
  BY <1>1, <1>2 DEF LocalsTyped
<1>4. /\ OfKind(c)' /\ Tracked(c)'
      /\ pc' \in [Checkers -> {"idle", "files", "dispatch", "notify", "list", "create"}]
      /\ event' \in [Checkers -> Pending]
      /\ \A d \in Checkers \ {c} : Stands(d)
  BY <1>2, <1>3, ResumeStep DEF database
<1>5. LocalsTyped' /\ OnlyMoves(c)
  BY <1>1, <1>2, <1>3, <1>4 DEF LocalsTyped, OnlyMoves
<1> QED BY <1>4, <1>5, LocalStep

(* Another check folded the file in: it is touched.                        *)
LEMMA CreateSkippedStep ==
  ASSUME Inv, NEW c \in Checkers, CreateSkipped(c)
  PROVE  Inv'
<1>1. LocalsTyped
  BY ShapedParts DEF Inv
<1>2. /\ pc[c] = "create" /\ event[c].path \in Baselined /\ Resume(c)
      /\ UNCHANGED <<files, database, todo, roots, known, touched, handled, operator>>
      /\ event[c].path \in Paths
  BY <1>1 DEF CreateSkipped, LocalsTyped, Pending
<1>3. event[c].path \in touched[c]
  BY <1>2 DEF Inv, Tracked, KnownCurrent, HashCurrent, SecondHalf
<1>4. /\ OfKind(c)' /\ Tracked(c)'
      /\ pc' \in [Checkers -> {"idle", "files", "dispatch", "notify", "list", "create"}]
      /\ event' \in [Checkers -> Pending]
      /\ \A d \in Checkers \ {c} : Stands(d)
  BY <1>2, <1>3, ResumeStep DEF database
<1>5. LocalsTyped' /\ OnlyMoves(c)
  BY <1>1, <1>2, <1>4 DEF LocalsTyped, OnlyMoves
<1> QED BY <1>4, <1>5, LocalStep

LEMMA ReadKnownStep ==
  ASSUME Inv, NEW c \in Checkers, ReadKnown(c)
  PROVE  Inv'
<1>1. LocalsTyped /\ fim_directories \subseteq Roots
  BY ShapedParts DEF Inv, TablesTyped
<1>2. /\ pc[c] = "files" /\ todo[c] = {} /\ pc' = [pc EXCEPT ![c] = "list"]
      /\ roots' = [roots EXCEPT ![c] = fim_directories]
      /\ known' = [known EXCEPT ![c] = Baselined]
      /\ UNCHANGED <<files, database, todo, event, touched, handled, operator>>
  BY DEF ReadKnown
<1>3. LocalsTyped' /\ OnlyMoves(c)
  BY <1>1, <1>2 DEF LocalsTyped, OnlyMoves, Stands, Baselined
<1>4. pc'[c] = "list" /\ roots'[c] = fim_directories /\ known'[c] = Baselined
  BY <1>1, <1>2 DEF LocalsTyped
<1>5. OfKind(c)'
  BY <1>4 DEF OfKind
<1>6. BreachTracked(c)'
  <2>1. BreachTracked(c)
    BY <1>2 DEF Inv, Tracked
  <2> QED
    BY <1>2, <2>1 DEF BreachTracked, Breached, Baselined, calculate_sha256, Reporting, files,
       database
<1>7. NewTracked(c)' /\ KnownCurrent(c)' /\ HashCurrent(c)'
  BY <1>2, <1>4 DEF NewTracked, KnownCurrent, HashCurrent, Baselined, database
<1> QED BY <1>3, <1>5, <1>6, <1>7, LocalStep DEF Tracked

LEMMA ListStep ==
  ASSUME Inv, NEW c \in Checkers, NEW r \in Roots, List(c, r)
  PROVE  Inv'
<1> DEFINE shown == {<<p, r>> : p \in {q \in Under[r] : Exists(q)}}
<1>1. LocalsTyped
  BY ShapedParts DEF Inv
<1>2. /\ pc[c] = "list" /\ todo[c] = {} /\ roots' = [roots EXCEPT ![c] = @ \ {r}]
      /\ todo' = [todo EXCEPT ![c] = shown]
      /\ UNCHANGED <<files, database, pc, known, event, touched, handled, operator>>
  BY DEF List
<1>3. shown \in SUBSET (Paths \X (Contents \cup Roots))
  OBVIOUS
<1>4. \A p \in Under[r] : Exists(p) => <<p, r>> \in shown
  OBVIOUS
<1> HIDE DEF shown
<1>5. LocalsTyped' /\ OnlyMoves(c)
  BY <1>1, <1>2, <1>3 DEF LocalsTyped, OnlyMoves, Stands, database
<1>6. roots'[c] = roots[c] \ {r} /\ todo'[c] = shown
  BY <1>1, <1>2 DEF LocalsTyped
<1>7. BreachTracked(c) /\ NewTracked(c) /\ KnownCurrent(c)
  BY <1>2 DEF Inv, Tracked
<1>8. OfKind(c)' /\ HashCurrent(c)'
  BY <1>2 DEF OfKind, HashCurrent
<1>9. BreachTracked(c)'
  BY <1>2, <1>7 DEF BreachTracked, Breached, Baselined, calculate_sha256, Reporting, files, database
<1>10. NewTracked(c)'
  BY <1>2, <1>4, <1>6, <1>7 DEF NewTracked, SecondHalf, Reporting, Exists, Baselined, files,
     database
<1>11. KnownCurrent(c)'
  BY <1>2, <1>7 DEF KnownCurrent, SecondHalf, Baselined, database
<1> QED BY <1>5, <1>8, <1>9, <1>10, <1>11, LocalStep DEF Tracked

LEMMA SkipStep ==
  ASSUME Inv, NEW c \in Checkers, NEW q \in Paths, NEW r \in Roots, Skip(c, q, r)
  PROVE  Inv'
<1>1. LocalsTyped
  BY ShapedParts DEF Inv
<1>2. /\ pc[c] = "list" /\ q \in known[c] /\ todo' = [todo EXCEPT ![c] = @ \ {<<q, r>>}]
      /\ UNCHANGED <<files, database, pc, roots, known, event, touched, handled, operator>>
  BY DEF Skip
<1>3. LocalsTyped' /\ OnlyMoves(c) /\ todo'[c] = todo[c] \ {<<q, r>>}
  BY <1>1, <1>2 DEF LocalsTyped, OnlyMoves, Stands, database
<1>4. BreachTracked(c) /\ NewTracked(c) /\ KnownCurrent(c)
  BY <1>2 DEF Inv, Tracked
<1>5. OfKind(c)' /\ HashCurrent(c)'
  BY <1>2 DEF OfKind, HashCurrent
<1>6. BreachTracked(c)'
  BY <1>2, <1>4 DEF BreachTracked, Breached, Baselined, calculate_sha256, FirstHalf, Reporting,
     files, database
<1>7. KnownCurrent(c)'
  BY <1>2, <1>4 DEF KnownCurrent, SecondHalf, Baselined, database
<1>8. NewTracked(c)'
  BY <1>2, <1>3, <1>4 DEF NewTracked, KnownCurrent, SecondHalf, Reporting, Exists, Baselined,
     files, database
<1> QED BY <1>3, <1>5, <1>6, <1>7, <1>8, LocalStep DEF Tracked

LEMMA HashNewStep ==
  ASSUME Inv, NEW c \in Checkers, NEW q \in Paths, NEW r \in Roots, HashNew(c, q, r)
  PROVE  Inv'
<1> DEFINE found == [path |-> q, kind |-> "CREATED", digest |-> calculate_sha256(q),
                     loud |-> r \in LoudRoots]
<1>1. LocalsTyped /\ FilesTyped
  BY ShapedParts DEF Inv
<1>2. /\ pc[c] = "list" /\ q \notin known[c] /\ todo' = [todo EXCEPT ![c] = @ \ {<<q, r>>}]
      /\ pc' = [pc EXCEPT ![c] = "create"] /\ event' = [event EXCEPT ![c] = found]
      /\ UNCHANGED <<files, database, roots, known, touched, handled, operator>>
  BY DEF HashNew
<1>3. /\ found \in Pending /\ found.path = q /\ found.kind = "CREATED"
      /\ found.digest = calculate_sha256(q)
  BY <1>1 DEF Pending, Kinds, calculate_sha256, FilesTyped
<1> HIDE DEF found
<1>4. LocalsTyped' /\ OnlyMoves(c)
  BY <1>1, <1>2, <1>3 DEF LocalsTyped, OnlyMoves, Stands, database
<1>5. pc'[c] = "create" /\ event'[c] = found /\ todo'[c] = todo[c] \ {<<q, r>>}
  BY <1>1, <1>2 DEF LocalsTyped
<1>6. BreachTracked(c) /\ NewTracked(c) /\ KnownCurrent(c)
  BY <1>2 DEF Inv, Tracked
<1>7. OfKind(c)' /\ HashCurrent(c)'
  BY <1>2, <1>3, <1>5 DEF OfKind, HashCurrent, calculate_sha256, files
<1>8. BreachTracked(c)'
  BY <1>2, <1>6 DEF BreachTracked, Breached, Baselined, calculate_sha256, FirstHalf, Reporting,
     files, database
<1>9. KnownCurrent(c)'
  BY <1>2, <1>6 DEF KnownCurrent, SecondHalf, Baselined, database
<1>10. NewTracked(c)'
  BY <1>2, <1>3, <1>5, <1>6 DEF NewTracked, SecondHalf, Reporting, Exists, Baselined, files,
     database
<1> QED BY <1>4, <1>7, <1>8, <1>9, <1>10, LocalStep DEF Tracked

LEMMA EndStep ==
  ASSUME Inv, NEW c \in Checkers, CheckEnd(c) \/ Killed(c)
  PROVE  Inv'
<1>1. LocalsTyped /\ NoEvent \in Pending
  BY ShapedParts DEF Inv, NoEvent, Pending
<1>2. /\ pc' = [pc EXCEPT ![c] = "idle"] /\ known' = [known EXCEPT ![c] = {}]
      /\ touched' = [touched EXCEPT ![c] = {}] /\ handled' = [handled EXCEPT ![c] = {}]
      /\ todo' = todo \/ todo' = [todo EXCEPT ![c] = {}]
      /\ roots' = roots \/ roots' = [roots EXCEPT ![c] = {}]
      /\ event' = event \/ event' = [event EXCEPT ![c] = NoEvent]
      /\ UNCHANGED <<files, database, operator>>
  BY DEF CheckEnd, Killed
<1>3. pc'[c] = "idle" /\ LocalsTyped'
  BY <1>1, <1>2 DEF LocalsTyped
<1>4. OnlyMoves(c)
  BY <1>1, <1>2 DEF LocalsTyped, OnlyMoves, Stands
<1>5. OfKind(c)' /\ Tracked(c)'
  BY <1>3 DEF OfKind, Tracked
<1> QED BY <1>3, <1>4, <1>5, LocalStep

-----------------------------------------------------------------------------
(* The steps of a check that write to the database.                        *)

(* The event persisted is the one the check holds. *)
LEMMA PersistAdds ==
  ASSUME Inv, NEW c \in Checkers, pc[c] \in {"dispatch", "create"}, _persist_fim_event(c)
  PROVE  \E row \in Events :
           /\ fim_events' = fim_events \cup {row}
           /\ row.path = event[c].path /\ row.kind = event[c].kind
           /\ row.digest = event[c].digest
           /\ fim_events' \subseteq Events /\ IsFiniteSet(fim_events')
<1> DEFINE m == Cardinality(fim_events) + 1
           row == [n |-> m, path |-> event[c].path, kind |-> event[c].kind,
                   digest |-> event[c].digest, loud |-> event[c].loud, by |-> c]
<1>1. event[c] \in Pending /\ event[c].kind \in Kinds
  BY DEF Inv, Shaped, OfKind, Kinds
<1>2. IsFiniteSet(fim_events) /\ fim_events \subseteq Events
  BY DEF Inv, Shaped, TypeOK
<1>3. m \in 1 .. MaxEvents
  BY <1>2, FS_CardinalityType DEF _persist_fim_event
<1>4. fim_events' = fim_events \cup {row}
  BY DEF _persist_fim_event
<1> HIDE DEF m
<1>5. row \in Events
  BY <1>1, <1>3 DEF Events, Pending
<1>6. IsFiniteSet(fim_events')
  BY <1>2, <1>4, FS_AddElement
<1> QED BY <1>2, <1>4, <1>5, <1>6

LEMMA DispatchStep ==
  ASSUME Inv, NEW c \in Checkers, Dispatch(c)
  PROVE  Inv'
<1>1. LocalsTyped /\ FilesTyped /\ OperatorTyped /\ TablesTyped
  BY ShapedParts DEF Inv
<1>2. /\ pc[c] = "dispatch" /\ pc' = [pc EXCEPT ![c] = "notify"]
      /\ UNCHANGED <<files, file_baselines, fim_directories, alerts, accepted,
                     todo, roots, known, event, touched, handled, operator>>
      /\ _persist_fim_event(c)
  BY DEF Dispatch
<1>3. OfKind(c) /\ BreachTracked(c)
  BY <1>2 DEF Inv, Tracked
<1>4. PICK row \in Events :
        /\ fim_events' = fim_events \cup {row} /\ row.kind # "CREATED"
        /\ fim_events' \subseteq Events /\ IsFiniteSet(fim_events')
  BY <1>2, <1>3, PersistAdds DEF OfKind
<1>5. Shaped'
  BY <1>1, <1>2, <1>4, ShapedNext DEF LocalsTyped, FilesTyped, OperatorTyped, TablesTyped,
     files, operator
<1>6. Folded' /\ OneEventFolds' /\ Accounted'
  BY <1>2, <1>4 DEF Inv, Folded, OneEventFolds, Accounted, CreatedEvents, Baselined
<1>7. pc'[c] = "notify"
  BY <1>1, <1>2 DEF LocalsTyped
<1>8. OfKind(c)' /\ Tracked(c)'
  <2>1. OfKind(c)' /\ event'[c].kind # "CREATED"
    BY <1>2, <1>3, <1>7 DEF OfKind, Kinds
  <2>2. BreachTracked(c)'
    BY <1>2, <1>3, <1>7, <2>1 DEF BreachTracked, Breached, Baselined, calculate_sha256,
       FirstHalf, Reporting, files
  <2>3. NewTracked(c)' /\ KnownCurrent(c)' /\ HashCurrent(c)'
    BY <1>7, <2>1 DEF NewTracked, KnownCurrent, HashCurrent, SecondHalf
  <2> QED BY <2>1, <2>2, <2>3 DEF Tracked
<1>9. ASSUME NEW d \in Checkers, d # c PROVE OfKind(d)' /\ Tracked(d)'
  <2>1. Stands(d) /\ Warned(d)
    BY <1>1, <1>2, <1>9 DEF Stands, Warned, LocalsTyped, files
  <2> QED BY <2>1, OthersStay
<1> QED BY <1>5, <1>6, <1>8, <1>9 DEF Inv

LEMMA NotifyStep ==
  ASSUME Inv, NEW c \in Checkers, Notify(c)
  PROVE  Inv'
<1>1. LocalsTyped /\ FilesTyped /\ OperatorTyped /\ TablesTyped
  BY ShapedParts DEF Inv
<1>2. /\ pc[c] = "notify" /\ Resume(c) /\ alerts' \subseteq fim_events
      /\ handled' = [handled EXCEPT ![c] = @ \cup {event[c].path}]
      /\ UNCHANGED <<files, file_baselines, fim_directories, fim_events, accepted,
                     todo, roots, known, touched, operator>>
      /\ event[c].path \in Paths
  BY <1>1 DEF Notify, LocalsTyped, TablesTyped, Pending
<1>3. /\ handled'[c] = handled[c] \cup {event[c].path}
      /\ \A d \in Checkers : d # c => handled'[d] = handled[d]
      /\ handled' \in [Checkers -> SUBSET Paths]
  BY <1>1, <1>2 DEF LocalsTyped
<1>4. /\ OfKind(c)' /\ Tracked(c)'
      /\ pc' \in [Checkers -> {"idle", "files", "dispatch", "notify", "list", "create"}]
      /\ event' \in [Checkers -> Pending]
      /\ \A d \in Checkers \ {c} : Stands(d)
  BY <1>2, <1>3, ResumeStep
<1>5. Shaped'
  BY <1>1, <1>2, <1>3, <1>4, ShapedNext DEF LocalsTyped, FilesTyped, OperatorTyped, TablesTyped,
     files, operator
<1>6. Folded' /\ OneEventFolds' /\ Accounted'
  BY <1>2 DEF Inv, Folded, OneEventFolds, Accounted, CreatedEvents, Baselined
<1>7. ASSUME NEW d \in Checkers, d # c PROVE OfKind(d)' /\ Tracked(d)'
  <2>1. Stands(d) /\ Warned(d)
    BY <1>2, <1>4, <1>7 DEF Warned, files
  <2> QED BY <2>1, OthersStay
<1> QED BY <1>4, <1>5, <1>6, <1>7 DEF Inv

(* A new file had no baseline, so no event folded it in before.            *)
LEMMA CreateStep ==
  ASSUME Inv, NEW c \in Checkers, Create(c)
  PROVE  Inv'
<1> DEFINE q == event[c].path
           d == event[c].digest
<1>1. LocalsTyped /\ FilesTyped /\ OperatorTyped /\ TablesTyped
  BY ShapedParts DEF Inv
<1>2. /\ pc[c] = "create" /\ q \notin Baselined /\ q \in Paths /\ d \in Contents \cup {NoDigest}
      /\ file_baselines' = [file_baselines EXCEPT ![q] = d]
      /\ known' = [known EXCEPT ![c] = IF d = NoDigest THEN @ ELSE @ \cup {q}]
      /\ pc' = [pc EXCEPT ![c] = "notify"]
      /\ touched' = [x \in Checkers |-> IF x = c THEN touched[x] ELSE touched[x] \cup {q}]
      /\ UNCHANGED <<files, fim_directories, alerts, accepted, todo, roots, event,
                     handled, operator>>
  BY <1>1 DEF Create, LocalsTyped, Pending
<1>3. /\ event[c].kind = "CREATED" /\ BreachTracked(c) /\ NewTracked(c) /\ KnownCurrent(c)
      /\ q \notin known[c] /\ (q \notin touched[c] => d = calculate_sha256(q))
  BY <1>2 DEF Inv, Tracked, OfKind, HashCurrent
<1>4. PICK row \in Events :
        /\ fim_events' = fim_events \cup {row}
        /\ row.path = q /\ row.kind = "CREATED" /\ row.digest = d
        /\ fim_events' \subseteq Events /\ IsFiniteSet(fim_events')
  BY <1>2, <1>3, PersistAdds DEF Create
<1>5. q' = q /\ d' = d /\ event'[c].path = q /\ event'[c].kind = "CREATED"
  BY <1>2, <1>3
<1>6. /\ pc'[c] = "notify" /\ touched'[c] = touched[c]
      /\ known'[c] = IF d = NoDigest THEN known[c] ELSE known[c] \cup {q}
      /\ file_baselines'[q] = d /\ \A p \in Paths : p # q => file_baselines'[p] = file_baselines[p]
  BY <1>1, <1>2 DEF LocalsTyped, TablesTyped
<1> HIDE DEF q, d
<1>7. Shaped'
  <2>1. LocalsTyped'
    BY <1>1, <1>2 DEF LocalsTyped
  <2>2. TablesTyped'
    BY <1>1, <1>2, <1>4 DEF TablesTyped
  <2> QED BY <1>1, <1>2, <2>1, <2>2, ShapedNext DEF FilesTyped, OperatorTyped, files, operator
<1>8. /\ q \in Baselined' <=> d # NoDigest
      /\ \A p \in Paths : p # q => (p \in Baselined' <=> p \in Baselined)
  BY <1>2, <1>6 DEF Baselined
<1>9. Folded'
  <2>1. \A e \in fim_events : e.path \in Paths
    BY <1>1 DEF TablesTyped, Events
  <2> QED BY <1>2, <1>4, <1>8, <2>1 DEF Inv, Folded
<1>10. OneEventFolds'
  <2>1. \A e \in fim_events : e.kind = "CREATED" /\ e.path = q => e.digest = NoDigest
    BY <1>2 DEF Inv, Folded
  <2> QED BY <1>4, <2>1 DEF Inv, OneEventFolds, CreatedEvents
<1>11. Accounted'
  <2> SUFFICES ASSUME NEW p \in Baselined'
               PROVE  \/ <<p, file_baselines'[p]>> \in accepted'
                      \/ \E e \in CreatedEvents(p)' : e.digest = file_baselines'[p]
    BY DEF Accounted
  <2>1. CASE p = q
    BY <1>4, <1>6, <2>1 DEF CreatedEvents
  <2>2. CASE p # q
    BY <1>2, <1>4, <1>6, <1>8, <2>2 DEF Inv, Accounted, CreatedEvents, Baselined
  <2> QED BY <2>1, <2>2
<1>12. OfKind(c)' /\ Tracked(c)'
  <2>1. OfKind(c)'
    BY <1>5, <1>6 DEF OfKind, Kinds
  <2>2. BreachTracked(c)'
    BY <1>2, <1>3, <1>5, <1>6, <1>8 DEF BreachTracked, Breached, calculate_sha256, FirstHalf,
       Reporting, files
  <2>3. NewTracked(c)'
    BY <1>2, <1>3, <1>5, <1>6, <1>8 DEF NewTracked, SecondHalf, Reporting, Exists, files
  <2>4. KnownCurrent(c)' /\ HashCurrent(c)'
    BY <1>2, <1>3, <1>6, <1>8 DEF KnownCurrent, HashCurrent, SecondHalf
  <2> QED BY <2>1, <2>2, <2>3, <2>4 DEF Tracked
<1>13. ASSUME NEW x \in Checkers, x # c PROVE OfKind(x)' /\ Tracked(x)'
  <2>1. Stands(x)
    BY <1>1, <1>2, <1>13 DEF Stands, LocalsTyped
  <2>2. Warned(x)
    BY <1>2, <1>6, <1>13 DEF Warned, files
  <2> QED BY <2>1, <2>2, OthersStay
<1> QED BY <1>7, <1>9, <1>10, <1>11, <1>12, <1>13 DEF Inv

-----------------------------------------------------------------------------
(* The disk and the operator: whoever is at it is warned.                  *)

LEMMA DiskStep ==
  ASSUME Inv, NEW p \in Paths, (\E d \in Contents \cup {NoDigest} : Write(p, d)) \/ Chmod(p)
  PROVE  Inv'
<1>1. LocalsTyped /\ FilesTyped /\ OperatorTyped /\ TablesTyped
  BY ShapedParts DEF Inv
<1>2. /\ changes < MaxChanges /\ changes' = changes + 1
      /\ touched' = [c \in Checkers |-> touched[c] \cup {p}]
      /\ UNCHANGED <<database, pc, todo, roots, known, event, handled, operator>>
      /\ disk' \in [Paths -> Contents \cup {NoDigest}] /\ readable' \subseteq Paths
      /\ \A q \in Paths \ {p} : disk'[q] = disk[q] /\ (q \in readable' <=> q \in readable)
  BY <1>1 DEF Write, Chmod, Touch, FilesTyped
<1>3. Shaped'
  <2>1. changes' \in 0 .. MaxChanges
    BY <1>1, <1>2 DEF FilesTyped
  <2>2. LocalsTyped'
    BY <1>1, <1>2 DEF LocalsTyped
  <2> QED BY <1>1, <1>2, <2>1, <2>2, ShapedNext DEF FilesTyped, OperatorTyped, TablesTyped,
         database, operator
<1>4. Folded' /\ OneEventFolds' /\ Accounted'
  BY <1>2 DEF Inv, Folded, OneEventFolds, Accounted, CreatedEvents, Baselined, database
<1>5. ASSUME NEW c \in Checkers PROVE OfKind(c)' /\ Tracked(c)'
  <2>1. Stands(c) /\ Warned(c)
    BY <1>2 DEF Stands, Warned, database
  <2> QED BY <2>1, OthersStay
<1> QED BY <1>3, <1>4, <1>5 DEF Inv

LEMMA BaselineReadStep ==
  ASSUME Inv, BaselineBegin \/ \E p \in Paths : BaselineHash(p)
  PROVE  Inv'
<1>1. LocalsTyped /\ FilesTyped /\ OperatorTyped /\ TablesTyped
  BY ShapedParts DEF Inv
<1>2. UNCHANGED <<files, database, locals>>
  BY DEF BaselineBegin, BaselineHash
<1>3. OperatorTyped'
  BY <1>1 DEF BaselineBegin, BaselineHash, OperatorTyped, FilesTyped, calculate_sha256
<1>4. Shaped'
  BY <1>1, <1>2, <1>3, ShapedNext DEF LocalsTyped, FilesTyped, TablesTyped, files, database, locals
<1>5. Folded' /\ OneEventFolds' /\ Accounted'
  BY <1>2 DEF Inv, Folded, OneEventFolds, Accounted, CreatedEvents, Baselined, database
<1>6. ASSUME NEW c \in Checkers PROVE OfKind(c)' /\ Tracked(c)'
  <2>1. Stands(c) /\ Warned(c)
    BY <1>2 DEF Stands, Warned, files, database, locals
  <2> QED BY <2>1, OthersStay
<1> QED BY <1>4, <1>5, <1>6 DEF Inv

LEMMA BaselineStoreStep ==
  ASSUME Inv, BaselineStore
  PROVE  Inv'
<1>1. LocalsTyped /\ FilesTyped /\ OperatorTyped /\ TablesTyped
  BY ShapedParts DEF Inv
<1>2. /\ file_baselines' = [p \in Paths |-> IF p \in Hashed THEN hashes[p] ELSE file_baselines[p]]
      /\ fim_directories' = Roots
      /\ accepted' = accepted \cup {<<p, hashes[p]>> : p \in Hashed}
      /\ touched' = [c \in Checkers |-> Paths]
      /\ baselining' = FALSE /\ hashed' = {} /\ hashes' = [p \in Paths |-> NoDigest]
      /\ UNCHANGED <<files, fim_events, alerts, pc, todo, roots, known, event, handled>>
  BY DEF BaselineStore
<1>3. Shaped'
  <2>1. LocalsTyped'
    BY <1>1, <1>2 DEF LocalsTyped
  <2>2. OperatorTyped'
    BY <1>2 DEF OperatorTyped
  <2>3. TablesTyped'
    <3>1. \A p \in Hashed : p \in Paths /\ hashes[p] \in Contents
      BY <1>1 DEF Hashed, OperatorTyped
    <3>2. file_baselines' \in [Paths -> Contents \cup {NoDigest}]
      BY <1>1, <1>2, <3>1 DEF TablesTyped
    <3>3. accepted' \subseteq Paths \X Contents
      BY <1>1, <1>2, <3>1 DEF TablesTyped
    <3> QED BY <1>1, <1>2, <3>2, <3>3 DEF TablesTyped
  <2> QED BY <1>1, <1>2, <2>1, <2>2, <2>3, ShapedNext DEF FilesTyped, files
<1>4. \A p \in Paths : p \in Baselined => p \in Baselined'
  BY <1>2 DEF Baselined, Hashed
<1>5. Folded'
  <2>1. \A e \in fim_events : e.path \in Paths
    BY <1>1 DEF TablesTyped, Events
  <2> QED BY <1>2, <1>4, <2>1 DEF Inv, Folded
<1>6. OneEventFolds'
  BY <1>2 DEF Inv, OneEventFolds, CreatedEvents
<1>7. Accounted'
  <2> SUFFICES ASSUME NEW p \in Baselined'
               PROVE  \/ <<p, file_baselines'[p]>> \in accepted'
                      \/ \E e \in CreatedEvents(p)' : e.digest = file_baselines'[p]
    BY DEF Accounted
  <2>1. p \in Paths /\ file_baselines'[p] = IF p \in Hashed THEN hashes[p] ELSE file_baselines[p]
    BY <1>2 DEF Baselined
  <2>2. CASE p \in Hashed
    BY <1>2, <2>1, <2>2
  <2>3. CASE p \notin Hashed
    <3>1. p \in Baselined /\ file_baselines'[p] = file_baselines[p]
      BY <2>1, <2>3 DEF Baselined
    <3>2. \/ <<p, file_baselines[p]>> \in accepted
          \/ \E e \in CreatedEvents(p) : e.digest = file_baselines[p]
      BY <3>1 DEF Inv, Accounted
    <3>3. accepted \subseteq accepted' /\ CreatedEvents(p)' = CreatedEvents(p)
      BY <1>2 DEF CreatedEvents
    <3> QED BY <3>1, <3>2, <3>3
  <2> QED BY <2>2, <2>3
<1>8. ASSUME NEW c \in Checkers PROVE OfKind(c)' /\ Tracked(c)'
  <2>1. Stands(c) /\ Warned(c)
    BY <1>1, <1>2 DEF Stands, Warned, LocalsTyped
  <2> QED BY <2>1, OthersStay
<1> QED BY <1>3, <1>5, <1>6, <1>7, <1>8 DEF Inv

LEMMA StutterStep == Inv /\ UNCHANGED vars => Inv'
<1> SUFFICES ASSUME Inv, UNCHANGED vars PROVE Inv'
  OBVIOUS
<1>1. LocalsTyped /\ FilesTyped /\ OperatorTyped /\ TablesTyped
  BY ShapedParts DEF Inv
<1>2. Shaped'
  BY <1>1, ShapedNext DEF LocalsTyped, FilesTyped, OperatorTyped, TablesTyped, vars, files,
     database, locals, operator
<1>3. Folded' /\ OneEventFolds' /\ Accounted'
  BY DEF Inv, Folded, OneEventFolds, Accounted, CreatedEvents, Baselined, vars, database
<1>4. ASSUME NEW c \in Checkers PROVE OfKind(c)' /\ Tracked(c)'
  <2>1. Stands(c) /\ Warned(c)
    BY DEF Stands, Warned, vars, files, database, locals
  <2> QED BY <2>1, OthersStay
<1> QED BY <1>2, <1>3, <1>4 DEF Inv

LEMMA InitStep == Init => Inv
<1> SUFFICES ASSUME Init PROVE Inv
  OBVIOUS
<1>1. NoEvent \in Pending
  BY DEF NoEvent, Pending
<1>2. LocalsTyped
  BY <1>1 DEF Init, LocalsTyped
<1>3. FilesTyped /\ OperatorTyped
  <2>1. 0 \in 0 .. MaxChanges /\ FALSE \in BOOLEAN
    OBVIOUS
  <2>2. FilesTyped
    BY <2>1 DEF Init, FilesTyped
  <2>3. OperatorTyped
    BY <2>1 DEF Init, OperatorTyped
  <2> QED BY <2>2, <2>3
<1>4. TablesTyped
  BY FS_EmptySet DEF Init, TablesTyped
<1>5. Shaped
  BY <1>2, <1>3, <1>4, ShapedParts
<1>6. Folded /\ OneEventFolds /\ Accounted
  BY DEF Init, Folded, OneEventFolds, Accounted, CreatedEvents, Baselined
<1>7. \A c \in Checkers : OfKind(c) /\ Tracked(c)
  BY DEF Init, OfKind, Tracked
<1> QED BY <1>5, <1>6, <1>7 DEF Inv

(* The invariant holds.                                                    *)
THEOREM InvHolds == Spec => []Inv
<1>1. ASSUME Inv, NEW c \in Checkers, Check(c) PROVE Inv'
  <2>1. CASE CheckBegin(c) \/ ReadKnown(c) \/ CheckEnd(c) \/ Killed(c)
    BY <1>1, <2>1, CheckBeginStep, ReadKnownStep, EndStep
  <2>2. CASE Dispatch(c) \/ PersistFails(c) \/ Notify(c) \/ Create(c) \/ CreateSkipped(c)
    BY <1>1, <2>2, DispatchStep, PersistFailsStep, NotifyStep, CreateStep, CreateSkippedStep
  <2>3. CASE \E p \in Paths, d \in Contents : Unchanged(c, p, d) \/ Breach(c, p, d)
    BY <1>1, <2>3, UnchangedStep, BreachStep
  <2>4. CASE \E r \in Roots : List(c, r) \/ \E p \in Paths : Skip(c, p, r) \/ HashNew(c, p, r)
    BY <1>1, <2>4, ListStep, SkipStep, HashNewStep
  <2> QED BY <1>1, <2>1, <2>2, <2>3, <2>4 DEF Check
<1>2. Inv /\ [Next]_vars => Inv'
  BY <1>1, DiskStep, BaselineReadStep, BaselineStoreStep, StutterStep DEF Next
<1> QED BY <1>2, InitStep, PTL DEF Spec

(* A new file is folded into the baseline once, and with its event.        *)
THEOREM NewFilesFoldOnce == Spec => []FoldedOnce
<1>1. Inv => FoldedOnce
  BY DEF Inv, Shaped, Accounted, FoldedOnce, BaselinesAreAccounted
<1> QED BY <1>1, InvHolds, PTL

(* A check that ran to its end handled all that was suspicious throughout. *)
THEOREM ChecksMissNothing == Spec => NoTamperMissed
<1>1. ASSUME Inv, NEW c \in Checkers, CheckEnd(c), NEW p \in Paths \ touched[c], Suspicious(p)
      PROVE  p \in handled[c]
  <2>1. pc[c] = "list" /\ todo[c] = {} /\ roots[c] = {}
    BY <1>1 DEF CheckEnd
  <2>2. BreachTracked(c) /\ NewTracked(c)
    BY <1>1, <2>1 DEF Inv, Tracked
  <2>3. CASE p \in Baselined
    BY <1>1, <2>1, <2>2, <2>3 DEF Suspicious, BreachTracked, Breached, FirstHalf, Reporting
  <2>4. CASE p \notin Baselined
    BY <1>1, <2>1, <2>2, <2>4 DEF Suspicious, NewTracked, SecondHalf, Reporting
  <2> QED BY <2>3, <2>4
<1>2. Inv => [\A c \in Checkers : CheckEnd(c) =>
                \A p \in Paths \ touched[c] : Suspicious(p) => p \in handled[c]]_vars
  BY <1>1
<1> QED BY <1>2, InvHolds, PTL DEF NoTamperMissed
=============================================================================
