-------------------------------- MODULE MCDemo --------------------------------
(***************************************************************************)
(* The correlation engine for TLC, under its own sweeps and a few shapes   *)
(* of rows, and the demonstration that runs one more with its defaults.    *)
(* The two are on tables of their own: a behaviour is one of either part.  *)
(***************************************************************************)
EXTENDS MCCorrelation

CONSTANTS MaxRuns, MaxChecks, Start, MaxHalfMinutes, MaxFaults

VARIABLES
  part,
  ticks, table, written, found_incidents, ever_opened, at, began, selected, next_at, lacking,
  step, run, own_list, disk, file_baselines, watched, found, before, pending, checks, summary,
  faults, lost

demo ==
  <<ticks, table, written, found_incidents, ever_opened, at, began, selected, next_at, lacking,
    step, run, own_list, disk, file_baselines, watched, found, before, pending, checks, summary,
    faults, lost>>

D == INSTANCE Demo WITH
  now <- ticks, audit_events <- table, logged <- written, incidents <- found_incidents,
  opened <- ever_opened, pc <- at, loaded_at <- began, candidates <- selected, due <- next_at,
  skipped <- lacking, host <- h1, MaxTime <- MaxHalfMinutes

ASSUME DemoAssumption == D!DemoAssumption

MCInit ==
  /\ part \in {"engine", "demo"}
  /\ Init /\ D!Init
  /\ part = "engine" => own_list
Correlated == part = "engine" /\ Next /\ UNCHANGED demo
Shown == part = "demo" /\ D!Next /\ UNCHANGED vars
MCNext == (Correlated \/ Shown) /\ UNCHANGED part
MCSpec == MCInit /\ [][MCNext]_<<part, vars, demo>>

(* Time passes and a second run is swept by others only where nobody else  *)
(* checks, and an operator's own list changes its sweep alone.  Faults     *)
(* come where time stands still, in the first run or where nobody else     *)
(* checks, and two of them where both hold.                                *)
Exhibited ==
  /\ \/ checks["cron"].n = 0
     \/ ticks = Start /\ (run <= 1 \/ at["correlator"] = "idle")
  /\ part = "demo" /\ own_list => run <= 1 /\ checks["cron"].n = 0
  /\ faults > 0 => ticks = Start /\ (run <= 1 \/ checks["cron"].n = 0)
  /\ faults > 1 => run <= 1 /\ checks["cron"].n = 0
MCExplored == Explored /\ Exhibited

(* The demonstration shows what it is for, beside whatever runs, as        *)
(* Demo.tla states it (demo/attack_chain.py): its six rules, and its       *)
(* damage, found by a real check.                                          *)
ChainIsShown == D!ShowsTheChain /\ D!DamageIsFound
===============================================================================
