--------------------------- MODULE LoginRateLimiter ---------------------------
(***************************************************************************)
(* LoginRateLimiter (dashboard/security.py): request threads ask whether   *)
(* an attempt of their client is allowed, reading the clock before they    *)
(* take the lock.  The clock runs in fractions of a second; a caller is    *)
(* held up between the two for at most Lag, which is a scheduling delay    *)
(* and far less than half of a window of a minute.                         *)
(***************************************************************************)
EXTENDS Integers, FiniteSets

CONSTANTS
  Threads,
  Clients,      (* client addresses                                        *)
  MaxAttempts,  (* LOGIN_RATE_LIMIT_ATTEMPTS                               *)
  Second,       (* ticks of the clock in a second                          *)
  Window,       (* LOGIN_RATE_LIMIT_WINDOW_SECONDS, in ticks               *)
  Lag,          (* in ticks                                                *)
  MaxClients,   (* 10_000                                                  *)
  None,         (* no call, no window                                      *)
  MaxCalls,     (* bound on the calls                                      *)
  MaxTime       (* bound on the clock                                      *)

LimiterAssumption ==
  /\ MaxAttempts \in Nat \ {0} /\ Second \in Nat \ {0} /\ MaxClients \in Nat
  /\ Window \in Nat \ {0} /\ Window % Second = 0 /\ Lag \in Nat /\ 2 * Lag <= Window
  /\ MaxCalls \in Nat /\ MaxTime \in Nat

Times == 0 .. MaxTime
Windows == [start : Times, count : 1 .. MaxCalls]
Attempts == [client : Clients, ts : Times]
NoneAssumption == None \notin Windows \cup Attempts

VARIABLES
  now,      (* time.monotonic()                                            *)
  windows,  (* per client: [start, count], or None                         *)
  call,     (* per thread: [client, ts], or None                           *)
  calls,    (* how many calls there were                                   *)
  allowed,  (* history: [id, client, at, start], the attempts allowed, and *)
            (* the window each was counted in                              *)
  refused   (* the last attempt refused: [ts, start, retry], or None         *)

vars == <<now, windows, call, calls, allowed, refused>>

Init ==
  /\ now = 0 /\ calls = 0
  /\ windows = [c \in Clients |-> None]
  /\ call = [t \in Threads |-> None]
  /\ allowed = {} /\ refused = None

Tick ==
  /\ now < MaxTime
  /\ \A t \in Threads : call[t] # None => now - call[t].ts < Lag
  /\ now' = now + 1
  /\ UNCHANGED <<windows, call, calls, allowed, refused>>

Call(t, c) ==
  /\ call[t] = None /\ calls < MaxCalls
  /\ call' = [call EXCEPT ![t] = [client |-> c, ts |-> now]]
  /\ calls' = calls + 1
  /\ UNCHANGED <<now, windows, allowed, refused>>

Opened(ts) == [start |-> ts, count |-> 1]
(* The window of a client after one more attempt.                          *)
Counted(w, ts) ==
  IF w = None \/ ts - w.start >= Window THEN Opened(ts) ELSE [w EXCEPT !.count = @ + 1]

(* The clients in the table.                                               *)
Known(ws) == {c \in Clients : ws[c] # None}
(* MUTANT: over the limit every other client is forgotten. *)
CleanedAll(ws, ts) ==
  IF Cardinality(Known(ws)) > MaxClients
  THEN [c \in Clients |-> IF ws[c] # None /\ ws[c].start = ts THEN ws[c] ELSE None]
  ELSE ws
(* MUTANT: over the limit nothing goes. *)
CleanedNever(ws, ts) == ws
(* Over the limit, windows that have ended go.                             *)
Cleaned(ws, ts) ==
  IF Cardinality(Known(ws)) > MaxClients
  THEN [c \in Clients |-> IF ws[c] # None /\ ws[c].start >= ts - Window THEN ws[c] ELSE None]
  ELSE ws

(* MUTANT: the rest of the window is not rounded up. *)
RetryAfterDown(w, ts) == (Window - (ts - w.start)) \div Second
(* int(...) + 1, in seconds.                                               *)
RetryAfter(w, ts) == (Window - (ts - w.start)) \div Second + 1

(* check, under the lock.                                                  *)
Check(t) ==
  /\ call[t] # None
  /\ LET c == call[t].client
         ts == call[t].ts
         w == Counted(windows[c], ts)
     IN  /\ windows' = Cleaned([windows EXCEPT ![c] = w], ts)
         /\ IF w.count > MaxAttempts
            THEN /\ refused' = [ts |-> ts, start |-> w.start, retry |-> RetryAfter(w, ts)]
                 /\ UNCHANGED allowed
            ELSE /\ allowed' = allowed \cup
                      {[id |-> Cardinality(allowed), client |-> c, at |-> now, start |-> w.start]}
                 /\ UNCHANGED refused
  /\ call' = [call EXCEPT ![t] = None]
  /\ UNCHANGED <<now, calls>>

Next ==
  \/ Tick
  \/ \E t \in Threads : Check(t) \/ \E c \in Clients : Call(t, c)

Spec == Init /\ [][Next]_vars

-----------------------------------------------------------------------------
(* Every variable has its type; no window starts in the future.            *)
TypeOK ==
  /\ now \in Times /\ calls \in 0 .. MaxCalls
  /\ call \in [Threads -> {None} \cup [client : Clients, ts : 0 .. now]]
  /\ windows \in [Clients -> {None} \cup [start : 0 .. now, count : 1 .. MaxCalls]]
  /\ allowed \subseteq [id : 0 .. MaxCalls, client : Clients, at : 0 .. now, start : 0 .. now]
  /\ refused # None => refused.ts \in 0 .. now /\ refused.start \in 0 .. now

(* In no stretch as long as a window are two full windows' attempts of a   *)
(* client allowed - three, when threads may be held up so that a window    *)
(* opens later than it counts from - even as the table is cleaned.         *)
FewAttempts ==
  \A c \in Clients, from \in Times :
    Cardinality({a \in allowed : a.client = c /\ a.at \in from .. from + Window - 1})
      < (IF Lag = 0 THEN 2 ELSE 3) * MaxAttempts

(* Retry-After is honest: the window is over for who comes back then, and  *)
(* would not be a second earlier.                                          *)
RetryAfterIsHonest ==
  refused # None =>
    LET back == refused.ts + refused.retry * Second
    IN  back - refused.start >= Window /\ back - Second - refused.start <= Window

(* A table over the limit holds no window that has ended: all of them      *)
(* began within one window, give or take a thread held up.                 *)
EndedWindowsGo ==
  Cardinality(Known(windows)) > MaxClients =>
    \A c, d \in Known(windows) : windows[d].start - windows[c].start <= Window + Lag
=============================================================================
