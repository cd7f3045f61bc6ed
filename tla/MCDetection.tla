----------------------------- MODULE MCDetection -----------------------------
(***************************************************************************)
(* The detection package for TLC: the scores, the import of event records, *)
(* the watchlist, the analysis of URLs and the normalisation of rows.  They *)
(* share no state, so a behaviour is one of one part.                      *)
(***************************************************************************)
EXTENDS Scoring, Sequences, FiniteSets, TLC

CONSTANTS
  None,
  Importers, Offsets, MaxRecords, MaxLogged, MaxSeconds,
  Lists, Empty, MaxTicks,
  Letters, Digits, Labels, Brands, KeywordCounts,
  Users, Paths, Sources, OneWord, Says, Quoted, Dotted, Word, host

VARIABLES
  part,
  time, rows, committed, writing, at, records, resolved, base,
  ticks, file, cache, loading, mtime, lines, steady, hasty,
  url, protected, verdict,
  dispatched, row

import == <<time, rows, committed, writing, at, records, resolved, base>>
intel == <<ticks, file, cache, loading, mtime, lines, steady, hasty>>
phishing == <<url, protected, verdict>>
normal == <<dispatched, row>>

E == INSTANCE EventImport WITH now <- time, MaxTime <- MaxSeconds,
                               lock <- writing, pc <- at, file <- records
T == INSTANCE ThreatIntel WITH now <- ticks, pc <- loading, MaxTime <- MaxTicks
P == INSTANCE Phishing
N == INSTANCE Normalization WITH event <- dispatched

ASSUME DetectionAssumption ==
  /\ E!ImportAssumption /\ E!NoneAssumption
  /\ T!IntelAssumption /\ T!NoneAssumption
  /\ P!PhishingAssumption /\ N!NormalizationAssumption /\ N!NoneAssumption

(* For the run: bounds and their neighbours, offsets on both sides of 0,   *)
(* every label of three or four letters, names that read like messages.    *)
MCPortCounts == {0, 100}
MCMacCounts == {3}
MCOffsets == {-1, 0, 2}
MCWords(n) == [1 .. n -> Letters \cup Digits]
MCLabels == MCWords(3) \cup MCWords(4)
MCBrands == {<<"a", "a", "a", "a">>, <<"a", "1", "a">>}
MCSays ==
  [x \in Users \cup Paths |->
     CASE x = "revoked-1" -> {"revoked"} [] x = "Replay attack" -> {x}
       [] x = "/deleted" -> {"deleted"} [] x = "/modified" -> {"modified"}
       [] x = "/srv/my file x" -> {"file "} [] x = "/srv/file " -> {"file "} [] OTHER -> {}]
MCQuoted == [u \in Users |-> IF u = "o'brien" THEN "o" ELSE u]
MCDotted == [s \in Sources |-> IF s = "fe80::1" THEN None ELSE s]
MCMarkers == {"directory: ", "file ", " in "}
(* The words of the messages; log lines have the path at their end. *)
MCWord ==
  [p \in Paths |->
     LET first == CASE p = "/srv/my file x" -> "/srv/my" [] p = "/srv/file " -> "/srv/file"
                    [] OTHER -> p
         x     == IF p = "/srv/my file x" THEN "x" ELSE None
     IN  [MODIFIED |-> [m \in MCMarkers |-> CASE m = " in " -> first [] m = "file " -> x
                                              [] OTHER -> None],
          DELETED |-> [m \in MCMarkers |-> IF m = "file " THEN first ELSE None],
          CREATED |-> [m \in MCMarkers |-> CASE m = "directory: " -> first
                                             [] m = "file " -> "created" [] OTHER -> "monitored"],
          fim_monitor |-> [m \in MCMarkers |-> IF m = "file " THEN x ELSE None]]]

(* A part that is not the behaviour's stays in one of its initial states.  *)
Plain(p, state) == part = p \/ state
MCInit ==
  /\ part \in {"scores", "import", "intel", "phishing", "normal"}
  /\ Init /\ Plain("scores", event = CHOOSE e \in Events : e.severity = "INFO")
  /\ E!Init /\ Plain("import", \A p \in Importers : records[p] = <<>>)
  /\ T!Init /\ Plain("intel", file = None)
  /\ P!Init /\ Plain("phishing", url = P!Plain(<<"a", "a", "a">>))
  /\ N!Init /\ Plain("normal", dispatched = CHOOSE e \in N!Events : TRUE)

Scored == part = "scores" /\ Next /\ UNCHANGED <<import, intel, phishing, normal>>
Imported == part = "import" /\ E!Next /\ UNCHANGED <<vars, intel, phishing, normal>>
Loaded == part = "intel" /\ T!Next /\ UNCHANGED <<vars, import, phishing, normal>>
Analysed == part = "phishing" /\ P!Next /\ UNCHANGED <<vars, import, intel, normal>>
Normalised == part = "normal" /\ N!Next /\ UNCHANGED <<vars, import, intel, phishing>>
MCNext ==
  /\ Scored \/ Imported \/ Loaded \/ Analysed \/ Normalised
  /\ UNCHANGED part
MCSpec ==
  MCInit /\ [][MCNext]_<<part, vars, import, intel, phishing, normal>>

Symmetry == Permutations(Importers) \cup Permutations(Lists)

(* Signs are gathered for some of the labels. *)
Gathered == {<<"a", "a", "a", "1">>, <<"1", "a", "a", "1">>,
             <<"a", "1", "a">>, <<"a", "1", "1">>, <<"1", "1", "1">>}
Explored == url.label \in Gathered \/ url = P!Plain(url.label)

(* A file of events is in the table as a whole or not at all, and what it  *)
(* says in offsets ends at the base time, as EventImport.tla states it     *)
(* (detection/replay.py).                                                  *)
ImportsAreWhole == E!TypeOK /\ E!WholeOrNotAtAll /\ E!ScenarioEndsAtBase
(* A load returns what the file says, unless an mtime came twice, as       *)
(* ThreatIntel.tla states it (detection/intel.py).                         *)
ReloadedUnlessHasty == T!TypeOK /\ T!ReloadedUnlessHasty
(* Nothing is high risk for one kind of sign, and a label looks like a     *)
(* brand if it is one or two edits away, as Phishing.tla states it         *)
(* (detection/phishing.py)...                                              *)
VerdictsAreSound == P!TypeOK /\ P!HighIsCorroborated /\ P!LookAlikesAreFound
(* ...and what shows more is judged no milder.                             *)
MoreIsNoMilder == P!MoreIsNoMilder
(* The rules see events, all of them and nothing else, in the rows, as     *)
(* Normalization.tla states it (detection/normalize.py).                   *)
RulesSeeEvents ==
  N!TypeOK /\ N!RowsTellTheEvent /\ N!FilesAreNamed /\ N!LinesAreNoEvents
===============================================================================
