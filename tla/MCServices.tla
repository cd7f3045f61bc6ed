------------------------------ MODULE MCServices ------------------------------
(***************************************************************************)
(* What python -m ids run keeps going, for TLC: the generators of the      *)
(* dashboard's live stream, the page at the other end of it, and the       *)
(* supervisor with the correlator's loop.  The feed has a generator of its *)
(* own, without the clock, so that connections end and break and are made  *)
(* again; the parts share no variable: a behaviour is one of one part.     *)
(***************************************************************************)
EXTENDS EventStream

CONSTANTS sensor, correlator, dashboard, FeedPage, MaxPages, FeedIds, MaxBreaks

VARIABLES
  part,
  main, requested, left, launched, skipped, looking, alive, stop_event, sweeper, asked,
  feed, fed, signed_in, source, badge, shown, wire, sender, breaks

supervisor ==
  <<main, requested, left, launched, skipped, looking, alive, stop_event, sweeper, asked>>
page == <<feed, fed, signed_in, source, badge, shown, wire, sender, breaks>>
all == <<part, vars, supervisor, page>>

MCOrder == <<sensor, correlator, dashboard>>
R == INSTANCE Supervisor WITH Order <- MCOrder, Correlator <- correlator, started <- launched
F == INSTANCE LiveFeed WITH PageSize <- FeedPage, MaxId <- FeedIds, audit_events <- feed,
                            logged <- fed, session <- signed_in, generator <- sender

ASSUME PartsAssumption == R!OrderAssumption /\ F!FeedAssumption

Streaming(A) == part = "stream" /\ A /\ UNCHANGED <<part, supervisor, page>>
Supervising(A) == part = "supervisor" /\ A /\ UNCHANGED <<part, vars, page>>
Feeding(A) == part = "feed" /\ A /\ UNCHANGED <<part, vars, supervisor>>

MCInit ==
  /\ Init /\ R!Init /\ F!Init
  /\ part \in {"stream", "supervisor", "feed"}
  /\ part = "supervisor" \/ requested = R!Components
MCNext == Streaming(Next) \/ Supervising(R!Next) \/ Feeding(F!Next)
MCSpec == MCInit /\ [][MCNext]_all

(* Time passes, and a connected client reads: its generator is resumed,    *)
(* and its page takes what comes and connects again by itself.             *)
(* The main thread and the correlator's are scheduled, starters return,    *)
(* and a sweep, whose statements time out, ends.  Ctrl+C need not come, a  *)
(* server need not stop, and nobody has to log.                            *)
LiveSpec ==
  /\ MCSpec
  /\ WF_all(Streaming(Tick)) /\ \A s \in Streams : WF_all(Streaming(Generate(s)))
  /\ WF_all(Supervising(R!Launch)) /\ WF_all(Supervising(R!Look \/ R!Wake))
  /\ WF_all(Supervising(R!Stop \/ R!Exit)) /\ WF_all(Supervising(R!Loop))
  /\ WF_all(Feeding(F!Program))

(* The process ends when it should and only then, as Supervisor.tla states *)
(* it: supervise() returns by itself only when all have stopped, and then  *)
(* it does; and Ctrl+C ends it (ids/orchestrator.py).  Until then a        *)
(* started correlator goes on sweeping (ids/services.py).                  *)
EndsWhenItShould ==
  /\ [](R!TypeOK /\ R!ReturnsWhenAllStopped)
  /\ R!StopsWhenAsked /\ R!EndsWithComponents /\ R!KeepsSweeping
(* A feed that is not behind shows every row, misses none of those it was  *)
(* sent, and says when it is over, as LiveFeed.tla states it                     *)
(* (dashboard/static/dashboard.js).                                        *)
FeedKeepsUp == [](F!TypeOK /\ F!NoGap) /\ F!FeedKeepsUp
===============================================================================
