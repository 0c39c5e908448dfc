---------------------------- MODULE RateLimiter ----------------------------
(***************************************************************************)
(* The limiter every request to the league's site passes through: a        *)
(* sliding window, a least interval and a penalty after a refusal.  Time   *)
(* is counted in ticks of a clock that the code only ever reads.           *)
(*                                                                         *)
(*   clock    now                                                          *)
(*   sends    when each request was let through, oldest first; the code    *)
(*            keeps the tail that starts at `oldest`, its _events, and the *)
(*            last one, its _last_request                                  *)
(*   oldest   the first request the window still remembers                 *)
(*   penalty  no request before this time                                  *)
(***************************************************************************)
EXTENDS Integers, Sequences

CONSTANTS
  Horizon,      \* bound: the clock stops here
  MaxRequests,  \* of a window, 30
  Window,       \* window_seconds, 60
  MinInterval   \* min_interval_seconds, 1

ASSUME LimiterAssumption ==
  /\ Horizon \in Nat /\ Window \in Nat
  /\ MaxRequests \in Nat \ {0} /\ MinInterval \in Nat \ {0}

VARIABLES clock, sends, oldest, penalty

limiterVars == <<clock, sends, oldest, penalty>>

LimiterTypeOK ==
  /\ clock \in Nat
  /\ sends \in Seq(Nat)
  /\ oldest \in 1..(Len(sends) + 1)
  /\ penalty \in Nat

-----------------------------------------------------------------------------
\* Slip: compares with the far end of the window, so drops what still counts.
PurgedEarly(k) ==
  /\ k \in oldest..(Len(sends) + 1)
  /\ \A i \in oldest..(k - 1) : sends[i] + Window <= clock + 1
  /\ k <= Len(sends) => sends[k] + Window > clock + 1

\* The window drops requests from its old end until it meets one that is not
\* too old: k is then its first.
Purged(k) ==
  /\ k \in oldest..(Len(sends) + 1)
  /\ \A i \in oldest..(k - 1) : sends[i] + Window < clock
  /\ k <= Len(sends) => sends[k] + Window >= clock

\* Slip: the interval is taken from the oldest request of the window.
SpacedFromOldest(k) ==
  k <= Len(sends) => sends[k] + MinInterval <= clock

Spaced(k) ==
  sends # <<>> => sends[Len(sends)] + MinInterval <= clock

Room(k) ==
  Len(sends) - k + 1 >= MaxRequests => sends[k] + Window <= clock

\* The times the limiter waits for; the latest one counts.
WaitsFor(k) ==
  {penalty}
    \union {sends[i] + MinInterval : i \in {Len(sends)} \ {0}}
    \union {sends[i] + Window : i \in {j \in {k} : Len(sends) - j + 1 >= MaxRequests}}

Free(k) == penalty <= clock /\ Spaced(k) /\ Room(k)

Acquire ==
  \E k \in oldest..(Len(sends) + 1) :
    /\ Purged(k) /\ Free(k)
    /\ sends' = Append(sends, clock)
    /\ oldest' = k
    /\ UNCHANGED <<clock, penalty>>

\* Too early: the window is tidied all the same.
TurnAway ==
  \E k \in oldest..(Len(sends) + 1) :
    /\ Purged(k) /\ ~Free(k)
    /\ oldest' = k
    /\ UNCHANGED <<clock, sends, penalty>>

Penalise(delay) ==
  /\ penalty' = IF clock + delay > penalty THEN clock + delay ELSE penalty
  /\ UNCHANGED <<clock, sends, oldest>>

ResetPenalty ==
  /\ penalty' = 0
  /\ UNCHANGED <<clock, sends, oldest>>

Tick ==
  /\ clock < Horizon
  /\ clock' = clock + 1
  /\ UNCHANGED <<sends, oldest, penalty>>

LimiterInit == clock = 1 /\ sends = <<>> /\ oldest = 1 /\ penalty = 0

-----------------------------------------------------------------------------
(* Properties.                                                             *)

\* Two requests are never let through closer together than the least interval
\* (RateLimitPolicy: "Never issue two requests closer together than this").
SpacingHolds ==
  \A i \in 1..(Len(sends) - 1) : sends[i] + MinInterval <= sends[i + 1]

\* No span as long as the window sees more than MaxRequests requests, although
\* the window keeps one that is exactly as old as it is long, and so may hold one
\* more than its limit ("Hard ceiling on request rate").
CeilingHolds ==
  \A i \in 1..(Len(sends) - MaxRequests) : sends[i] + Window <= sends[i + MaxRequests]
=============================================================================
