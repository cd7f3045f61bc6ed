-------------------------------- MODULE MCFim --------------------------------
(* Fim for TLC: a critical file and a watched directory. *)
EXTENDS FimProperties, TLC

CONSTANTS file, planted, root

MCUnder == [r \in Roots |-> {planted} \cap Paths]
MCCritical == {file} \cap Paths
Symmetry == Permutations(Checkers) \cup Permutations(Contents)

(* Checks overlap on the watched directory; one checker runs on both paths. *)
Active == {c \in Checkers : pc[c] # "idle"} \cup {e.by : e \in fim_events}
Explored ==
  \/ Cardinality(Active) <= 1
  \/ NoDigest = disk[file] /\ NoDigest = file_baselines[file] /\ NoDigest = hashes[file]
=============================================================================
