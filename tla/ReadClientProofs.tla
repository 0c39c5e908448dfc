------------------------- MODULE ReadClientProofs --------------------------
(***************************************************************************)
(* The client that reads from MFL, whatever the threads, retries,          *)
(* penalties, logins and expiries.                                         *)
(*                                                                         *)
(* 1.  The pace of the requests.  Only the limiter's own steps touch its   *)
(* variables, so the invariant is about these: what the window forgot is   *)
(* older than it is long, and it holds one request more than its limit     *)
(* only if the newest of them came just when the oldest had aged out, in   *)
(* which case the next request finds the oldest gone.                      *)
(*                                                                         *)
(* 2.  What the callers are given.  A call that found or fetched an answer *)
(* holds one that is recent (GotFresh) and, if it insisted, no older than  *)
(* itself (NotBefore); the cache and the calls hold the league's private   *)
(* exports only as a known user sees them (EntryKnown, GotKnown), because  *)
(* a call gets past the login with a session or a key alone                *)
(* (HasCredentials).                                                       *)
(***************************************************************************)
EXTENDS ReadClient, TLAPS

LTypes ==
  /\ clock \in Nat
  /\ sends \in Seq(Nat)
  /\ oldest \in 1..(Len(sends) + 1)

PastSends == \A i \in 1..Len(sends) : sends[i] <= clock

ForgottenAreOld == \A i \in 1..(oldest - 1) : sends[i] + Window < clock

WindowHolds ==
  /\ Len(sends) - oldest + 1 <= MaxRequests + 1
  /\ Len(sends) - oldest + 1 = MaxRequests + 1 =>
       sends[oldest] + Window <= sends[Len(sends)]

LimiterInv ==
  LTypes /\ PastSends /\ ForgottenAreOld /\ WindowHolds /\ SpacingHolds /\ CeilingHolds

-----------------------------------------------------------------------------
LEMMA LimiterStarts == LimiterInit => LimiterInv
<1> SUFFICES ASSUME LimiterInit PROVE LimiterInv
  OBVIOUS
<1>1. clock = 1 /\ sends = <<>> /\ oldest = 1
  BY DEF LimiterInit
<1>2. Len(sends) = 0 /\ sends \in Seq(Nat)
  BY <1>1
<1> QED BY <1>1, <1>2, LimiterAssumption
        DEF LimiterInv, LTypes, PastSends, ForgottenAreOld, WindowHolds, SpacingHolds,
            CeilingHolds

LEMMA TickKeeps == ASSUME LimiterInv, Tick PROVE LimiterInv'
<1>1. clock' = clock + 1 /\ sends' = sends /\ oldest' = oldest
  BY DEF Tick
<1>2. /\ clock \in Nat /\ oldest \in Nat /\ Len(sends) \in Nat
      /\ \A i \in 1..Len(sends) : sends[i] \in Nat
      /\ oldest <= Len(sends) + 1
  BY DEF LimiterInv, LTypes
<1>3. LTypes' /\ WindowHolds' /\ SpacingHolds' /\ CeilingHolds'
  BY <1>1, <1>2 DEF LimiterInv, LTypes, WindowHolds, SpacingHolds, CeilingHolds
<1>4. PastSends'
  BY <1>1, <1>2 DEF LimiterInv, PastSends
<1>5. ForgottenAreOld'
  BY <1>1, <1>2, LimiterAssumption DEF LimiterInv, ForgottenAreOld
<1> QED BY <1>3, <1>4, <1>5 DEF LimiterInv

\* After tidying, the window starts at k: what it forgot is old, and it holds one
\* more than the limit only if it did before and nothing was forgotten.
LEMMA Tidied ==
  ASSUME LimiterInv, NEW k \in oldest..(Len(sends) + 1), Purged(k)
  PROVE  /\ k \in 1..(Len(sends) + 1)
         /\ \A i \in 1..(k - 1) : sends[i] + Window < clock
         /\ Len(sends) - k + 1 <= MaxRequests + 1
         /\ Len(sends) - k + 1 = MaxRequests + 1 =>
              /\ k = oldest
              /\ sends[k] + Window <= sends[Len(sends)]
         /\ k <= Len(sends) => sends[k] + Window >= clock
<1>1. /\ oldest \in Nat /\ Len(sends) \in Nat /\ oldest >= 1
      /\ MaxRequests \in Nat
  BY LimiterAssumption DEF LimiterInv, LTypes
<1>2. \A i \in 1..(k - 1) : sends[i] + Window < clock
  <2> SUFFICES ASSUME NEW i \in 1..(k - 1) PROVE sends[i] + Window < clock
    OBVIOUS
  <2>1. CASE i < oldest
    BY <2>1, <1>1 DEF LimiterInv, ForgottenAreOld
  <2>2. CASE i >= oldest
    BY <2>2, <1>1 DEF Purged
  <2> QED BY <2>1, <2>2, <1>1
<1>3. /\ Len(sends) - k + 1 <= MaxRequests + 1
      /\ Len(sends) - k + 1 = MaxRequests + 1 =>
           k = oldest /\ sends[k] + Window <= sends[Len(sends)]
  BY <1>1 DEF LimiterInv, WindowHolds
<1>4. k <= Len(sends) => sends[k] + Window >= clock
  BY DEF Purged
<1> QED BY <1>1, <1>2, <1>3, <1>4

LEMMA TurnAwayKeeps == ASSUME LimiterInv, TurnAway PROVE LimiterInv'
<1>1. PICK k \in oldest..(Len(sends) + 1) :
        Purged(k) /\ oldest' = k /\ UNCHANGED <<clock, sends, penalty>>
  BY DEF TurnAway
<1>2. /\ k \in 1..(Len(sends) + 1)
      /\ \A i \in 1..(k - 1) : sends[i] + Window < clock
      /\ Len(sends) - k + 1 <= MaxRequests + 1
      /\ Len(sends) - k + 1 = MaxRequests + 1 => sends[k] + Window <= sends[Len(sends)]
  BY <1>1, Tidied
<1>3. LTypes'
  BY <1>1, <1>2 DEF LimiterInv, LTypes
<1>4. ForgottenAreOld' /\ WindowHolds'
  BY <1>1, <1>2 DEF ForgottenAreOld, WindowHolds
<1>5. PastSends' /\ SpacingHolds' /\ CeilingHolds'
  BY <1>1 DEF LimiterInv, PastSends, SpacingHolds, CeilingHolds
<1> QED BY <1>3, <1>4, <1>5 DEF LimiterInv

LEMMA AcquireKeeps == ASSUME LimiterInv, Acquire PROVE LimiterInv'
<1> DEFINE n == Len(sends)
<1>1. PICK k \in oldest..(n + 1) :
        /\ Purged(k) /\ Free(k)
        /\ sends' = Append(sends, clock) /\ oldest' = k /\ clock' = clock
  BY DEF Acquire
<1>2. /\ clock \in Nat /\ n \in Nat /\ oldest \in Nat /\ sends \in Seq(Nat)
      /\ MaxRequests \in Nat /\ MaxRequests >= 1 /\ MinInterval \in Nat /\ MinInterval >= 1
      /\ Window \in Nat
      /\ \A i \in 1..n : sends[i] \in Nat
  BY LimiterAssumption DEF LimiterInv, LTypes
<1>3. /\ k \in 1..(n + 1)
      /\ \A i \in 1..(k - 1) : sends[i] + Window < clock
      /\ n - k + 1 <= MaxRequests + 1
      /\ n - k + 1 = MaxRequests + 1 => sends[k] + Window <= sends[n]
      /\ k <= n => sends[k] + Window >= clock
  BY <1>1, Tidied
<1>4. /\ n > 0 => sends[n] + MinInterval <= clock
      /\ n - k + 1 >= MaxRequests => sends[k] + Window <= clock
  <2>1. n > 0 => sends # <<>>
    BY <1>2
  <2> QED BY <1>1, <2>1 DEF Free, Spaced, Room
<1>5. n - k + 1 <= MaxRequests
  <2> HIDE DEF n
  <2>1. n - k + 1 # MaxRequests + 1
    <3> SUFFICES ASSUME n - k + 1 = MaxRequests + 1 PROVE FALSE
      OBVIOUS
    <3>1. k \in 1..n /\ n \in 1..n
      BY <1>2, <1>3
    <3>2. sends[k] \in Nat /\ sends[n] \in Nat
      BY <1>2, <3>1
    <3>3. sends[k] + Window <= sends[n]
      BY <1>3
    <3>4. sends[n] + MinInterval <= clock
      BY <1>4, <3>1
    <3>5. clock <= sends[k] + Window
      BY <1>2, <1>3, <3>1, <3>2
    <3> QED BY <1>2, <3>2, <3>3, <3>4, <3>5
  <2> QED BY <1>2, <1>3, <2>1
<1>6. /\ Len(sends') = n + 1 /\ sends' \in Seq(Nat)
      /\ \A i \in 1..n : sends'[i] = sends[i]
      /\ sends'[n + 1] = clock
  BY <1>1, <1>2
<1> HIDE DEF n
<1>7. LTypes'
  BY <1>1, <1>2, <1>3, <1>6 DEF LTypes
<1>8. PastSends'
  <2> SUFFICES ASSUME NEW i \in 1..(n + 1) PROVE sends'[i] <= clock
    BY <1>1, <1>6 DEF PastSends
  <2>1. CASE i = n + 1
    BY <1>2, <1>6, <2>1
  <2>2. CASE i \in 1..n
    BY <1>6, <2>2 DEF LimiterInv, PastSends, n
  <2> QED BY <1>2, <2>1, <2>2
<1>9. ForgottenAreOld'
  <2> SUFFICES ASSUME NEW i \in 1..(k - 1) PROVE sends'[i] + Window < clock
    BY <1>1 DEF ForgottenAreOld
  <2>1. i \in 1..n
    BY <1>2, <1>3
  <2> QED BY <1>3, <1>6, <2>1
<1>10. WindowHolds'
  <2>1. (n + 1) - k + 1 <= MaxRequests + 1
    BY <1>2, <1>3, <1>5
  <2>2. ASSUME (n + 1) - k + 1 = MaxRequests + 1 PROVE sends'[k] + Window <= clock
    <3>1. k \in 1..n /\ n - k + 1 >= MaxRequests
      BY <1>2, <1>3, <2>2
    <3> QED BY <1>4, <1>6, <3>1
  <2> QED BY <1>1, <1>6, <2>1, <2>2 DEF WindowHolds
<1>11. SpacingHolds'
  <2> SUFFICES ASSUME NEW i \in 1..n PROVE sends'[i] + MinInterval <= sends'[i + 1]
    BY <1>2, <1>6 DEF SpacingHolds
  <2>1. CASE i = n
    BY <1>2, <1>4, <1>6, <2>1
  <2>2. CASE i \in 1..(n - 1)
    <3>1. sends[i] + MinInterval <= sends[i + 1]
      BY <2>2 DEF LimiterInv, SpacingHolds, n
    <3>2. i + 1 \in 1..n
      BY <1>2, <2>2
    <3> QED BY <1>6, <3>1, <3>2
  <2> QED BY <1>2, <2>1, <2>2
<1>12. CeilingHolds'
  <2> SUFFICES ASSUME NEW i \in 1..(n + 1 - MaxRequests)
               PROVE  sends'[i] + Window <= sends'[i + MaxRequests]
    BY <1>2, <1>6 DEF CeilingHolds
  <2>1. i \in 1..n /\ i \in Nat
    BY <1>2
  <2>2. CASE i + MaxRequests = n + 1
    <3>0. sends'[i] = sends[i] /\ sends'[i + MaxRequests] = clock /\ sends[i] \in Nat
      BY <1>2, <1>6, <2>1, <2>2
    <3>1. CASE i < k
      <4>1. sends[i] + Window < clock
        BY <1>2, <1>3, <2>1, <3>1
      <4> QED BY <1>2, <3>0, <4>1
    <3>2. CASE i = k
      <4>1. sends[i] + Window <= clock
        BY <1>2, <1>4, <2>1, <2>2, <3>2
      <4> QED BY <3>0, <4>1
    <3>3. CASE i > k
      BY <1>2, <1>3, <1>5, <2>2, <3>3
    <3> QED BY <1>2, <1>3, <3>1, <3>2, <3>3
  <2>3. CASE i + MaxRequests \in 1..n
    <3>1. sends[i] + Window <= sends[i + MaxRequests]
      BY <1>2, <2>1, <2>3 DEF LimiterInv, CeilingHolds, n
    <3> QED BY <1>6, <2>1, <2>3, <3>1
  <2> QED BY <1>2, <2>2, <2>3
<1> QED BY <1>7, <1>8, <1>9, <1>10, <1>11, <1>12 DEF LimiterInv

LEMMA PenaltyKeeps ==
  ASSUME LimiterInv, UNCHANGED <<clock, sends, oldest>> PROVE LimiterInv'
BY DEF LimiterInv, LTypes, PastSends, ForgottenAreOld, WindowHolds, SpacingHolds,
       CeilingHolds

-----------------------------------------------------------------------------
\* Of a thread's steps only the two that ask the limiter touch its window.
LEMMA ThreadKeeps == ASSUME LimiterInv, NEW t \in Threads, Thread(t) PROVE LimiterInv'
<1>1. CASE LetThrough(t)
  BY <1>1, AcquireKeeps DEF LetThrough
<1>2. CASE Sleep(t)
  BY <1>2, TurnAwayKeeps DEF Sleep
<1>3. CASE \/ \E e \in Exports, forced \in BOOLEAN : Begin(t, e, forced)
           \/ LoggedIn(t) \/ LoginFails(t) \/ LookUp(t) \/ Rejected(t)
           \/ OpenEntry(t) \/ WriteEntry(t) \/ Return(t)
  <2>1. UNCHANGED limiterVars
    BY <1>3 DEF Begin, LoggedIn, LoginFails, LookUp, Rejected, OpenEntry, WriteEntry, Return
  <2> QED BY <2>1, PenaltyKeeps DEF limiterVars
<1>4. CASE Refused(t) \/ Lost(t) \/ Answered(t)
  <2>1. UNCHANGED <<clock, sends, oldest>>
    BY <1>4 DEF Refused, Lost, Answered, Again, Penalise, ResetPenalty, limiterVars
  <2> QED BY <2>1, PenaltyKeeps
<1> QED BY <1>1, <1>2, <1>3, <1>4 DEF Thread

\* The limiter's invariant is inductive, for every limit, window and clock.
THEOREM PaceInductive == LimiterInv /\ [Next]_vars => LimiterInv'
<1> SUFFICES ASSUME LimiterInv, [Next]_vars PROVE LimiterInv'
  OBVIOUS
<1>1. CASE Pass
  BY <1>1, TickKeeps DEF Pass
<1>2. CASE Change \/ GrowOld \/ UNCHANGED vars
  <2>1. UNCHANGED limiterVars
    BY <1>2 DEF Change, GrowOld, vars
  <2> QED BY <2>1, PenaltyKeeps DEF limiterVars
<1>3. ASSUME NEW t \in Threads, Thread(t) PROVE LimiterInv'
  BY <1>3, ThreadKeeps
<1> QED BY <1>1, <1>2, <1>3 DEF Next

LEMMA PaceAlways == Spec => []LimiterInv
<1>1. Init => LimiterInv
  BY LimiterStarts DEF Init
<1> QED BY <1>1, PaceInductive, PTL DEF Spec

\* Two requests of a process are never closer together than the least interval
\* (mfl/ratelimit.py), for any number of threads, exports and retries.
THEOREM Spacing == Spec => []SpacingHolds
<1>1. LimiterInv => SpacingHolds
  BY DEF LimiterInv
<1> QED BY <1>1, PaceAlways, PTL

\* No span as long as the window sees more than MaxRequests requests
\* (mfl/ratelimit.py), for every policy and whatever penalties come and go.
THEOREM Ceiling == Spec => []CeilingHolds
<1>1. LimiterInv => CeilingHolds
  BY DEF LimiterInv
<1> QED BY <1>1, PaceAlways, PTL

-----------------------------------------------------------------------------
(* What the callers are given.  An answer is stored with the time it was   *)
(* read, whatever happens on the site meanwhile: its version is the site's *)
(* or was replaced at this very time, for the clock stands until it is     *)
(* stored.                                                                 *)

Call ==
  [at : {"idle", "login", "entered", "lookup", "pace", "asked", "fetched", "storing",
         "answered"},
   export : Exports, forced : BOOLEAN, attempt : 0..MaxRetries, wake : Nat,
   from : 1..MaxVersion, got : Stored]

Fetching == {"fetched", "storing"}
Given == Fetching \union {"answered"}
Begun == {"lookup", "pace", "asked"} \union Given

\* What is stored of an export: no younger than its expiry says, and if the export
\* needs a session, not from an anonymous request.
EntryFresh(x) ==
  0 < x.expires =>
    /\ x.version \in 1..version
    /\ x.expires <= clock + Ttl
    /\ x.version = version \/ x.expires <= until[x.version] + Ttl
EntryKnown(e, x) == e \in NeedAuth /\ 0 < x.expires => x.known

\* A call in progress.
GotFresh(c) ==
  /\ c.at \in Given => c.got.version \in 1..version
  /\ c.at \in Fetching => c.got.version = version \/ until[c.got.version] = clock
  /\ c.at = "answered" => c.got.version = version \/ clock < until[c.got.version] + Ttl
NotBefore(c) ==
  c.from <= version /\ (c.at \in Given /\ c.forced => c.from <= c.got.version)
HasCredentials(c) == c.at \in Begun /\ c.export \in NeedAuth => session # "none" \/ key
GotKnown(c) == c.at \in Given /\ c.export \in NeedAuth => c.got.known
CallHolds(c) == GotFresh(c) /\ NotBefore(c) /\ HasCredentials(c) /\ GotKnown(c)

ClientTypes ==
  /\ clock \in Nat /\ penalty \in Nat
  /\ login \in BOOLEAN /\ key \in BOOLEAN
  /\ session \in {"none", "live", "stale"}
  /\ cache \in [Exports -> Stored]
  /\ version \in 1..MaxVersion
  /\ until \in [1..MaxVersion -> Nat]
  /\ call \in [Threads -> Call]

ClientHolds ==
  /\ \A e \in Exports : EntryFresh(cache[e]) /\ EntryKnown(e, cache[e])
  /\ \A t \in Threads : CallHolds(call[t])

ClientInv == ClientTypes /\ ClientHolds

LEMMA IdleCall == /\ Absent \in Stored /\ Idle \in Call /\ Idle.at = "idle" /\ Idle.from = 1
<1>1. Absent \in Stored
  BY ClientAssumption DEF Absent, Stored, Never
<1>2. (CHOOSE e \in Exports : TRUE) \in Exports
  BY ClientAssumption
<1>3. Idle \in Call
  BY <1>1, <1>2, ClientAssumption DEF Idle, Call
<1> QED BY <1>1, <1>3 DEF Idle

LEMMA IdleHolds == ASSUME ClientTypes PROVE CallHolds(Idle)
BY IdleCall DEF ClientTypes, CallHolds, GotFresh, NotBefore, HasCredentials, GotKnown, Given,
   Fetching, Begun

LEMMA ClientStarts == Init => ClientInv
<1> SUFFICES ASSUME Init PROVE ClientInv
  OBVIOUS
<1>1. ClientTypes
  BY IdleCall, ClientAssumption DEF Init, LimiterInit, ClientTypes, Never
<1>2. \A e \in Exports : cache[e] = Absent
  BY DEF Init
<1>3. ~(0 < Absent.expires)
  BY DEF Absent
<1>4. \A t \in Threads : call[t] = Idle
  BY DEF Init
<1> QED BY <1>1, <1>2, <1>3, <1>4, IdleHolds DEF ClientInv, ClientHolds, EntryFresh, EntryKnown

\* A thread moves to where its call holds; a session may have come of it.
LEMMA MoveKeeps ==
  ASSUME ClientInv, NEW t \in Threads, NEW d \in Call, CallHolds(d)',
         call' = [call EXCEPT ![t] = d],
         UNCHANGED <<clock, login, key, cache, version, until>>, penalty' \in Nat,
         session' = session \/ session' \in {"live", "stale"}
  PROVE  ClientInv'
<1>1. ClientTypes'
  BY DEF ClientInv, ClientTypes
<1>2. ASSUME NEW c \in Call, CallHolds(c) PROVE CallHolds(c)'
  BY <1>2 DEF CallHolds, GotFresh, NotBefore, HasCredentials, GotKnown
<1>3. ASSUME NEW u \in Threads PROVE CallHolds(call[u])'
  <2>1. CASE u = t
    <3>1. call'[u] = d
      BY <2>1 DEF ClientInv, ClientTypes
    <3> QED BY <3>1 DEF CallHolds, GotFresh, NotBefore, HasCredentials, GotKnown
  <2>2. CASE u # t
    <3>1. PICK c \in Call : c = call[u]
      BY DEF ClientInv, ClientTypes
    <3>2. CallHolds(c)'
      BY <3>1, <1>2 DEF ClientInv, ClientHolds
    <3>3. call'[u] = c
      BY <2>2, <3>1 DEF ClientInv, ClientTypes
    <3> QED BY <3>2, <3>3 DEF CallHolds, GotFresh, NotBefore, HasCredentials, GotKnown
  <2> QED BY <2>1, <2>2
<1>4. \A u \in Threads : CallHolds(call[u])'
  BY <1>3
<1>5. \A e \in Exports : EntryFresh(cache[e])' /\ EntryKnown(e, cache[e])'
  BY DEF ClientInv, ClientHolds, EntryFresh, EntryKnown
<1> QED BY <1>1, <1>4, <1>5 DEF ClientInv, ClientHolds

\* What a step that goes on with its export leaves: only at and wake move.
LEMMA OnwardKeeps ==
  ASSUME ClientInv, NEW t \in Threads, NEW d \in Call,
         d.export = call[t].export, d.forced = call[t].forced, d.from = call[t].from,
         d.got = call[t].got,
         d.at \notin Given, d.at \in Begun => call[t].at \in Begun,
         call' = [call EXCEPT ![t] = d],
         UNCHANGED <<clock, login, key, session, cache, version, until>>, penalty' \in Nat
  PROVE  ClientInv'
<1>1. CallHolds(d)'
  BY DEF ClientInv, ClientHolds, CallHolds, GotFresh, NotBefore, HasCredentials, GotKnown, Given
<1> QED BY <1>1, MoveKeeps

LEMMA LeaveKeeps ==
  ASSUME ClientInv, NEW t \in Threads, Leave(t),
         UNCHANGED <<clock, login, key, session, cache, version, until>>, penalty' \in Nat
  PROVE  ClientInv'
<1>1. CallHolds(Idle)'
  BY IdleHolds DEF ClientInv, CallHolds, GotFresh, NotBefore, HasCredentials, GotKnown
<1> QED BY <1>1, IdleCall, MoveKeeps DEF Leave

LEMMA BeginKeeps ==
  ASSUME ClientInv, NEW t \in Threads, NEW e \in Exports, NEW forced \in BOOLEAN,
         Begin(t, e, forced)
  PROVE  ClientInv'
<1>1. PICK n : n = IF forced THEN version ELSE 1
  OBVIOUS
<1>2. n \in 1..MaxVersion /\ n <= version
  <2>1. version \in 1..MaxVersion /\ MaxVersion \in Nat /\ 1 \in 1..version
    BY ClientAssumption DEF ClientInv, ClientTypes
  <2>2. n = version \/ n = 1
    BY <1>1
  <2> QED BY <2>1, <2>2
<1>3. PICK d : d = [Idle EXCEPT !.at = Door(e), !.export = e, !.forced = forced, !.from = n]
  OBVIOUS
<1>4. Door(e) \in {"login", "lookup"}
  BY DEF Begin, Door
<1>5. d \in Call /\ d.at = Door(e) /\ d.export = e /\ d.from = n
  BY <1>2, <1>3, <1>4, IdleCall DEF Call
<1>6. e \in NeedAuth /\ Door(e) = "lookup" => session # "none" \/ key
  BY DEF Door
<1>7. /\ UNCHANGED <<limiterVars, login, key, session, cache, version, until>>
      /\ call' = [call EXCEPT ![t] = d]
  BY <1>1, <1>3 DEF Begin
<1>8. CallHolds(d)'
  BY <1>2, <1>4, <1>5, <1>6, <1>7
     DEF CallHolds, GotFresh, NotBefore, HasCredentials, GotKnown, Given, Fetching, Begun
<1> QED BY <1>5, <1>7, <1>8, MoveKeeps DEF limiterVars, ClientInv, ClientTypes

LEMMA LoggedInKeeps == ASSUME ClientInv, NEW t \in Threads, LoggedIn(t) PROVE ClientInv'
<1>1. PICK c \in Call : c = call[t]
  BY DEF ClientInv, ClientTypes
<1>2. PICK d : d = [c EXCEPT !.at = "lookup"]
  OBVIOUS
<1>3. d \in Call /\ d.at = "lookup" /\ d.from = c.from
  BY <1>2 DEF Call
<1>4. /\ session' = "live" /\ UNCHANGED <<limiterVars, login, key, cache, version, until>>
      /\ call' = [call EXCEPT ![t] = d]
  BY <1>1, <1>2 DEF LoggedIn, Go
<1>5. c.from <= version
  BY <1>1 DEF ClientInv, ClientHolds, CallHolds, NotBefore
<1>6. CallHolds(d)'
  BY <1>3, <1>4, <1>5
     DEF CallHolds, GotFresh, NotBefore, HasCredentials, GotKnown, Given, Fetching
<1> QED BY <1>3, <1>4, <1>6, MoveKeeps DEF limiterVars, ClientInv, ClientTypes

\* The cache answers only a caller who takes what is there, with what has not expired.
LEMMA LookUpKeeps == ASSUME ClientInv, NEW t \in Threads, LookUp(t) PROVE ClientInv'
<1>1. PICK c \in Call : c = call[t]
  BY DEF ClientInv, ClientTypes
<1>2. /\ c.at = "lookup" /\ c.export \in Exports
      /\ UNCHANGED <<limiterVars, login, key, session, cache, version, until>>
  BY <1>1 DEF LookUp, At, Call
<1>3. PICK x \in Stored : x = cache[c.export]
  BY <1>2 DEF ClientInv, ClientTypes
<1>4. CASE ~c.forced /\ Usable(c.export)
  <2>1. PICK d : d = [c EXCEPT !.at = "answered", !.got = x]
    OBVIOUS
  <2>2. /\ d \in Call /\ d.at = "answered" /\ d.export = c.export /\ d.from = c.from
        /\ d.got = x
    BY <2>1 DEF Call
  <2>3. d.forced = c.forced
    BY <2>1 DEF Call
  <2>4. call' = [call EXCEPT ![t] = d]
    BY <1>1, <1>3, <1>4, <2>1 DEF LookUp
  <2>5. clock \in Nat /\ Ttl \in Nat /\ x.expires \in Nat /\ clock < x.expires /\ 0 < x.expires
    BY <1>3, <1>4, ClientAssumption DEF Usable, Stored, ClientInv, ClientTypes
  <2>6. EntryFresh(x) /\ EntryKnown(c.export, x)
    BY <1>2, <1>3 DEF ClientInv, ClientHolds
  <2>7. GotFresh(d)
    <3>1. x.version \in 1..version /\ until \in [1..MaxVersion -> Nat] /\ version \in 1..MaxVersion
      BY <2>5, <2>6 DEF EntryFresh, ClientInv, ClientTypes
    <3>2. until[x.version] \in Nat
      <4>1. x.version \in 1..MaxVersion
        BY <3>1, ClientAssumption
      <4> QED BY <3>1, <4>1
    <3>3. x.version = version \/ clock < until[x.version] + Ttl
      BY <2>5, <2>6, <3>2 DEF EntryFresh
    <3> QED BY <2>2, <3>1, <3>3 DEF GotFresh, Given, Fetching
  <2>8. GotKnown(d)
    BY <2>2, <2>5, <2>6 DEF GotKnown, EntryKnown
  <2>9. HasCredentials(d) /\ NotBefore(d)
    BY <1>1, <1>2, <1>4, <2>2, <2>3
       DEF ClientInv, ClientHolds, CallHolds, HasCredentials, NotBefore, Begun
  <2>10. CallHolds(d)'
    BY <1>2, <2>7, <2>8, <2>9
       DEF CallHolds, GotFresh, NotBefore, HasCredentials, GotKnown, limiterVars
  <2> QED BY <1>2, <2>2, <2>4, <2>10, MoveKeeps DEF limiterVars, ClientInv, ClientTypes
<1>5. CASE ~(~c.forced /\ Usable(c.export))
  <2>1. PICK d : d = [c EXCEPT !.at = "pace"]
    OBVIOUS
  <2>2. /\ d \in Call /\ d.at = "pace" /\ d.export = c.export /\ d.from = c.from
        /\ d.got = c.got
    BY <2>1 DEF Call
  <2>3. d.forced = c.forced
    BY <2>1 DEF Call
  <2>4. call' = [call EXCEPT ![t] = d]
    BY <1>1, <1>5, <2>1 DEF LookUp
  <2> QED BY <1>1, <1>2, <2>2, <2>3, <2>4, OnwardKeeps
          DEF limiterVars, ClientInv, ClientTypes, Given, Fetching, Begun
<1> QED BY <1>4, <1>5

LEMMA LetThroughKeeps == ASSUME ClientInv, NEW t \in Threads, LetThrough(t) PROVE ClientInv'
<1>1. PICK c \in Call : c = call[t]
  BY DEF ClientInv, ClientTypes
<1>2. PICK a : a = IF c.at = "login" THEN "entered" ELSE "asked"
  OBVIOUS
<1>3. PICK d : d = [c EXCEPT !.at = a, !.wake = 0]
  OBVIOUS
<1>4. /\ d \in Call /\ d.at = a /\ d.export = c.export /\ d.from = c.from /\ d.got = c.got
  BY <1>2, <1>3 DEF Call
<1>5. d.forced = c.forced
  BY <1>3 DEF Call
<1>6. /\ call' = [call EXCEPT ![t] = d]
      /\ UNCHANGED <<login, key, session, cache, version, until>>
      /\ clock' = clock /\ penalty' = penalty
      /\ c.at = "login" \/ c.at = "pace"
  BY <1>1, <1>2, <1>3 DEF LetThrough, At, Paced, Acquire
<1>7. d.at \notin Given /\ (d.at \in Begun => c.at \in Begun)
  BY <1>2, <1>4, <1>6 DEF Given, Fetching, Begun
<1> QED BY <1>1, <1>4, <1>5, <1>6, <1>7, OnwardKeeps DEF ClientInv, ClientTypes

\* The limiter names a time.
LEMMA WaitNamed ==
  ASSUME LimiterInv, penalty \in Nat, NEW k \in 1..(Len(sends) + 1)
  PROVE  Max(WaitsFor(k)) \in Nat
<1> DEFINE A == {sends[i] + MinInterval : i \in {Len(sends)} \ {0}}
           B == {sends[i] + Window : i \in {j \in {k} : Len(sends) - j + 1 >= MaxRequests}}
<1>1. /\ Len(sends) \in Nat /\ \A i \in 1..Len(sends) : sends[i] \in Nat
      /\ MinInterval \in Nat /\ Window \in Nat /\ MaxRequests \in Nat \ {0}
  BY LimiterAssumption DEF LimiterInv, LTypes
<1>2. A = {} \/ \E a \in Nat : A = {a}
  <2>1. CASE Len(sends) = 0
    BY <2>1
  <2>2. CASE Len(sends) # 0
    <3>1. A = {sends[Len(sends)] + MinInterval}
      BY <2>2
    <3>2. sends[Len(sends)] + MinInterval \in Nat
      BY <1>1, <2>2
    <3> QED BY <3>1, <3>2
  <2> QED BY <2>1, <2>2
<1>3. B = {} \/ \E b \in Nat : B = {b}
  <2>1. CASE ~(Len(sends) - k + 1 >= MaxRequests)
    BY <2>1
  <2>2. CASE Len(sends) - k + 1 >= MaxRequests
    <3>1. B = {sends[k] + Window}
      BY <2>2
    <3>2. sends[k] + Window \in Nat
      BY <1>1, <2>2
    <3> QED BY <3>1, <3>2
  <2> QED BY <2>1, <2>2
<1>4. PICK W : W = WaitsFor(k)
  OBVIOUS
<1>5. W = {penalty} \union A \union B
  BY <1>4 DEF WaitsFor
<1>6. \E m \in W : m \in Nat /\ \A y \in W : m >= y
  <2> HIDE DEF A, B
  <2> QED BY <1>2, <1>3, <1>5
<1>7. Max(W) \in W /\ W \subseteq Nat
  <2>1. Max(W) \in W
    BY <1>6 DEF Max
  <2> HIDE DEF A, B
  <2>2. W \subseteq Nat
    BY <1>2, <1>3, <1>5
  <2> QED BY <2>1, <2>2
<1> QED BY <1>4, <1>7

LEMMA SleepKeeps == ASSUME ClientInv, LimiterInv, NEW t \in Threads, Sleep(t) PROVE ClientInv'
<1>1. PICK c \in Call : c = call[t]
  BY DEF ClientInv, ClientTypes
<1>2. PICK k \in 1..(Len(sends) + 1) : oldest' = k
  <2>1. oldest \in 1..(Len(sends) + 1) /\ Len(sends) \in Nat
    BY DEF LimiterInv, LTypes
  <2>2. PICK k \in oldest..(Len(sends) + 1) : oldest' = k
    BY DEF Sleep, TurnAway
  <2>3. k \in 1..(Len(sends) + 1)
    BY <2>1
  <2> QED BY <2>2, <2>3
<1>3. /\ UNCHANGED <<login, key, session, cache, version, until>>
      /\ UNCHANGED <<clock, sends, penalty>>
      /\ c.at = "login" \/ c.at = "pace"
  BY <1>1 DEF Sleep, TurnAway, Paced, At
<1>4. PICK w \in Nat : w = Max(WaitsFor(oldest'))
  <2>1. Max(WaitsFor(k)) \in Nat
    BY WaitNamed DEF ClientInv, ClientTypes
  <2> QED BY <2>1, <1>2, <1>3 DEF WaitsFor
<1>5. PICK d : d = [c EXCEPT !.wake = w]
  OBVIOUS
<1>6. /\ d \in Call /\ d.at = c.at /\ d.export = c.export /\ d.from = c.from /\ d.got = c.got
  BY <1>5 DEF Call
<1>7. d.forced = c.forced
  BY <1>5 DEF Call
<1>8. call' = [call EXCEPT ![t] = d]
  BY <1>1, <1>4, <1>5 DEF Sleep
<1>9. d.at \notin Given
  BY <1>3, <1>6 DEF Given, Fetching
<1> QED BY <1>1, <1>3, <1>6, <1>7, <1>8, <1>9, OnwardKeeps DEF ClientInv, ClientTypes

LEMMA AgainKeeps ==
  ASSUME ClientInv, NEW t \in Threads, NEW delay \in Nat, Again(t, delay),
         At(t, "asked"), call[t].attempt < MaxRetries,
         UNCHANGED <<login, key, session, cache, version, until>>
  PROVE  ClientInv'
<1>1. PICK c \in Call : c = call[t]
  BY DEF ClientInv, ClientTypes
<1>2. c.attempt + 1 \in 0..MaxRetries
  BY <1>1, ClientAssumption DEF Call
<1>4. PICK d : d = [c EXCEPT !.at = "pace", !.attempt = c.attempt + 1]
  OBVIOUS
<1>5. /\ d \in Call /\ d.at = "pace" /\ d.export = c.export /\ d.from = c.from /\ d.got = c.got
  BY <1>2, <1>4 DEF Call
<1>6. d.forced = c.forced
  BY <1>4 DEF Call
<1>7. call' = [call EXCEPT ![t] = d] /\ clock' = clock
  BY <1>1, <1>4 DEF Again, Penalise
<1>8. penalty' \in Nat
  <2>1. penalty' = clock + delay \/ penalty' = penalty
    BY DEF Again, Penalise
  <2> QED BY <2>1 DEF ClientInv, ClientTypes
<1>9. d.at \notin Given /\ c.at \in Begun
  BY <1>1, <1>5 DEF At, Given, Fetching, Begun
<1> QED BY <1>1, <1>5, <1>6, <1>7, <1>8, <1>9, OnwardKeeps

LEMMA DelaysAreNat == ASSUME NEW n PROVE Backoff(n) \subseteq Nat /\ {Capped(r) : r \in RetryAfter} \subseteq Nat
<1>1. Backoff(n) \subseteq Nat
  <2>1. PICK base : base = Capped(InitialBackoff * 2^n)
    OBVIOUS
  <2>2. Backoff(n) = {d \in 1..(2 * base) : base <= 2 * d /\ 2 * d < 3 * base}
    BY <2>1 DEF Backoff
  <2>3. 1..(2 * base) \subseteq Nat
    OBVIOUS
  <2> QED BY <2>2, <2>3
<1>2. ASSUME NEW r \in RetryAfter PROVE Capped(r) \in Nat
  BY ClientAssumption DEF Capped
<1> QED BY <1>1, <1>2

\* A request that came to nothing, at once or once more.
LEMMA UnansweredKeeps ==
  ASSUME ClientInv, NEW t \in Threads, Refused(t) \/ Lost(t) \/ Rejected(t) PROVE ClientInv'
<1>1. /\ At(t, "asked")
      /\ UNCHANGED <<login, key, session, cache, version, until>>
  BY DEF Refused, Lost, Rejected
<1>2. PICK c \in Call : c = call[t]
  BY DEF ClientInv, ClientTypes
<1>3. c.attempt \in Nat /\ MaxRetries \in Nat /\ penalty \in Nat
  BY ClientAssumption DEF Call, ClientInv, ClientTypes
<1>4. CASE Leave(t) /\ UNCHANGED limiterVars
  BY <1>1, <1>3, <1>4, LeaveKeeps DEF limiterVars
<1>5. CASE \E delay \in Waits(t) \union Backoff(call[t].attempt) :
             Again(t, delay) /\ call[t].attempt < MaxRetries
  <2>1. Waits(t) \subseteq Nat /\ Backoff(call[t].attempt) \subseteq Nat
    BY DelaysAreNat DEF Waits
  <2> QED BY <1>1, <1>5, <2>1, AgainKeeps
<1>6. CASE Refused(t)
  <2>1. CASE call[t].attempt >= MaxRetries
    BY <1>4, <1>6, <2>1 DEF Refused
  <2>2. CASE ~(call[t].attempt >= MaxRetries)
    <3>1. \E delay \in Waits(t) : Again(t, delay)
      BY <1>6, <2>2 DEF Refused
    <3>2. call[t].attempt < MaxRetries
      BY <1>2, <1>3, <2>2
    <3> QED BY <3>1, <3>2, <1>5
  <2> QED BY <2>1, <2>2
<1>7. CASE Lost(t)
  <2>1. CASE call[t].attempt >= MaxRetries - 1
    BY <1>4, <1>7, <2>1 DEF Lost
  <2>2. CASE ~(call[t].attempt >= MaxRetries - 1)
    <3>1. \E delay \in Backoff(call[t].attempt) : Again(t, delay)
      BY <1>7, <2>2 DEF Lost
    <3>2. call[t].attempt < MaxRetries
      BY <1>2, <1>3, <2>2
    <3> QED BY <3>1, <3>2, <1>5
  <2> QED BY <2>1, <2>2
<1>8. CASE Rejected(t)
  BY <1>4, <1>8 DEF Rejected, limiterVars
<1> QED BY <1>6, <1>7, <1>8

\* The answer is the site's data now, and says whether the request was anonymous.
LEMMA AnsweredKeeps == ASSUME ClientInv, NEW t \in Threads, Answered(t) PROVE ClientInv'
<1>1. /\ UNCHANGED <<clock, login, key, session, cache, version, until>> /\ penalty' = 0
      /\ At(t, "asked")
  BY DEF Answered, ResetPenalty
<1>2. PICK c \in Call : c = call[t]
  BY DEF ClientInv, ClientTypes
<1>3. PICK kn : kn = (session # "none" \/ key)
  OBVIOUS
<1>4. PICK x : x = [version |-> version, expires |-> 0, known |-> kn]
  OBVIOUS
<1>5. CASE Leave(t)
  BY <1>1, <1>5, LeaveKeeps
<1>6. CASE call' = [call EXCEPT ![t] = [c EXCEPT !.at = "fetched", !.attempt = 0, !.got = x]]
  <2>1. kn \in BOOLEAN
    BY <1>3
  <2>2. x \in Stored /\ x.version = version
    <3>1. version \in 0..MaxVersion
      BY ClientAssumption DEF ClientInv, ClientTypes
    <3> QED BY <3>1, <2>1, <1>4 DEF Stored
  <2>3. x.known = kn
    BY <1>4
  <2>4. PICK d : d = [c EXCEPT !.at = "fetched", !.attempt = 0, !.got = x]
    OBVIOUS
  <2>5. 0 \in 0..MaxRetries
    BY ClientAssumption
  <2>6. /\ d \in Call /\ d.at = "fetched" /\ d.export = c.export /\ d.from = c.from /\ d.got = x
    BY <2>2, <2>4, <2>5 DEF Call
  <2>7. /\ version \in 1..version /\ c.from <= version
        /\ c.export \in NeedAuth => session # "none" \/ key
    BY <1>1, <1>2
       DEF ClientInv, ClientTypes, ClientHolds, CallHolds, NotBefore, HasCredentials, At, Begun
  <2>8. GotFresh(d) /\ NotBefore(d) /\ HasCredentials(d)
    BY <2>2, <2>6, <2>7 DEF GotFresh, NotBefore, HasCredentials, Given, Fetching
  <2>9. GotKnown(d)
    <3>1. d.export \in NeedAuth => kn
      BY <1>3, <2>6, <2>7
    <3>2. d.got.known = kn
      BY <2>3, <2>6
    <3> QED BY <3>1, <3>2 DEF GotKnown
  <2>10. CallHolds(d)'
    BY <1>1, <2>8, <2>9 DEF CallHolds, GotFresh, NotBefore, HasCredentials, GotKnown
  <2> QED BY <1>1, <1>6, <2>4, <2>6, <2>10, MoveKeeps
<1>7. Leave(t) \/ call' = [call EXCEPT ![t] = [c EXCEPT !.at = "fetched", !.attempt = 0, !.got = x]]
  BY <1>2, <1>3, <1>4 DEF Answered
<1> QED BY <1>5, <1>6, <1>7

\* While an entry is being written it is as if it were not there.
LEMMA OpenKeeps == ASSUME ClientInv, NEW t \in Threads, OpenEntry(t) PROVE ClientInv'
<1>1. PICK c \in Call : c = call[t]
  BY DEF ClientInv, ClientTypes
<1>2. PICK d : d = [c EXCEPT !.at = "storing"]
  OBVIOUS
<1>3. /\ d \in Call /\ d.at = "storing" /\ d.export = c.export /\ d.from = c.from /\ d.got = c.got
  BY <1>2 DEF Call
<1>4. d.forced = c.forced
  BY <1>2 DEF Call
<1>5. /\ c.at = "fetched" /\ call' = [call EXCEPT ![t] = d]
      /\ cache' = [cache EXCEPT ![c.export] = Absent]
      /\ UNCHANGED <<clock, penalty, login, key, session, version, until>>
  BY <1>1, <1>2 DEF OpenEntry, At, Go, limiterVars
<1>6. ClientTypes'
  BY <1>3, <1>5, IdleCall DEF ClientInv, ClientTypes
<1>7. CallHolds(d)
  BY <1>1, <1>3, <1>4, <1>5
     DEF ClientInv, ClientHolds, CallHolds, GotFresh, NotBefore, HasCredentials, GotKnown,
         Given, Fetching, Begun
<1>8. ASSUME NEW u \in Threads PROVE CallHolds(call[u])'
  <2>1. PICK b : b = call'[u] /\ CallHolds(b)
    BY <1>5, <1>7 DEF ClientInv, ClientTypes, ClientHolds
  <2> QED BY <2>1, <1>5 DEF CallHolds, GotFresh, NotBefore, HasCredentials, GotKnown
<1>9. ASSUME NEW e \in Exports PROVE EntryFresh(cache[e])' /\ EntryKnown(e, cache[e])'
  <2>1. ~(0 < Absent.expires)
    BY DEF Absent
  <2>2. EntryFresh(Absent) /\ EntryKnown(e, Absent)
    BY <2>1 DEF EntryFresh, EntryKnown
  <2>3. PICK x : x = cache'[e] /\ EntryFresh(x) /\ EntryKnown(e, x)
    BY <1>5, <2>2 DEF ClientInv, ClientTypes, ClientHolds
  <2> QED BY <2>3, <1>5 DEF EntryFresh, EntryKnown
<1> QED BY <1>6, <1>8, <1>9 DEF ClientInv, ClientHolds

\* The entry expires Ttl after the time at which it was still the site's.
LEMMA WriteKeeps == ASSUME ClientInv, NEW t \in Threads, WriteEntry(t) PROVE ClientInv'
<1>1. PICK c \in Call : c = call[t]
  BY DEF ClientInv, ClientTypes
<1>2. PICK d : d = [c EXCEPT !.at = "answered"]
  OBVIOUS
<1>3. /\ d \in Call /\ d.at = "answered" /\ d.export = c.export /\ d.from = c.from
      /\ d.got = c.got /\ c.got \in Stored /\ c.export \in Exports
  BY <1>2 DEF Call
<1>4. d.forced = c.forced
  BY <1>2 DEF Call
<1>5. PICK g \in Stored : g = c.got
  BY <1>3
<1>6. PICK y : y = [g EXCEPT !.expires = clock + Ttl]
  OBVIOUS
<1>7. clock \in Nat /\ Ttl \in Nat \ {0} /\ clock + Ttl \in Nat /\ clock < clock + Ttl
  BY ClientAssumption DEF ClientInv, ClientTypes
<1>8. /\ y \in Stored /\ y.version = g.version /\ y.expires = clock + Ttl
  BY <1>6, <1>7 DEF Stored
<1>9. y.known = g.known
  BY <1>6 DEF Stored
<1>10. /\ c.at = "storing" /\ call' = [call EXCEPT ![t] = d]
       /\ cache' = [cache EXCEPT ![c.export] = y]
       /\ UNCHANGED <<clock, penalty, login, key, session, version, until>>
  BY <1>1, <1>2, <1>5, <1>6 DEF WriteEntry, At, Go, limiterVars
<1>11. ClientTypes'
  BY <1>3, <1>8, <1>10 DEF ClientInv, ClientTypes
<1>12. CallHolds(c)
  BY <1>1 DEF ClientInv, ClientHolds
<1>13. /\ g.version \in 1..version
       /\ g.version = version \/ until[g.version] = clock
  BY <1>5, <1>10, <1>12 DEF CallHolds, GotFresh, Given, Fetching
<1>14. CallHolds(d)
  <2>1. GotFresh(d)
    BY <1>3, <1>5, <1>7, <1>13 DEF GotFresh, Given, Fetching
  <2> QED BY <2>1, <1>3, <1>4, <1>10, <1>12
          DEF CallHolds, NotBefore, HasCredentials, GotKnown, Given, Fetching, Begun
<1>15. EntryFresh(y)
  BY <1>7, <1>8, <1>13 DEF EntryFresh
<1>16. EntryKnown(c.export, y)
  BY <1>5, <1>9, <1>10, <1>12 DEF EntryKnown, CallHolds, GotKnown, Given, Fetching
<1>17. ASSUME NEW u \in Threads PROVE CallHolds(call[u])'
  <2>1. PICK b : b = call'[u] /\ CallHolds(b)
    BY <1>10, <1>14 DEF ClientInv, ClientTypes, ClientHolds
  <2> QED BY <2>1, <1>10 DEF CallHolds, GotFresh, NotBefore, HasCredentials, GotKnown
<1>18. ASSUME NEW e \in Exports PROVE EntryFresh(cache[e])' /\ EntryKnown(e, cache[e])'
  <2>1. PICK x : x = cache'[e] /\ EntryFresh(x) /\ EntryKnown(e, x)
    BY <1>3, <1>10, <1>15, <1>16 DEF ClientInv, ClientTypes, ClientHolds
  <2> QED BY <2>1, <1>10 DEF EntryFresh, EntryKnown
<1> QED BY <1>11, <1>17, <1>18 DEF ClientInv, ClientHolds

-----------------------------------------------------------------------------
\* The site changes: what was its data until now was so at this time.
LEMMA ChangeKeeps == ASSUME ClientInv, Change PROVE ClientInv'
<1>1. /\ version' = version + 1 /\ until' = [until EXCEPT ![version] = clock]
      /\ version < MaxVersion
      /\ UNCHANGED <<clock, penalty, login, key, session, cache, call>>
  BY DEF Change, limiterVars
<1>2. /\ version \in 1..MaxVersion /\ clock \in Nat /\ until \in [1..MaxVersion -> Nat]
      /\ MaxVersion \in Nat /\ Ttl \in Nat \ {0}
  BY ClientAssumption DEF ClientInv, ClientTypes
<1>3. ClientTypes'
  BY <1>1, <1>2 DEF ClientInv, ClientTypes
<1>4. /\ until'[version] = clock
      /\ \A v \in 1..version : v # version => until'[v] = until[v] /\ v # version'
      /\ \A v \in 1..version : v \in 1..version'
      /\ clock < clock + Ttl
  BY <1>1, <1>2
<1>5. ASSUME NEW u \in Threads PROVE CallHolds(call[u])'
  <2>1. PICK c \in Call : c = call[u] /\ CallHolds(c)
    BY DEF ClientInv, ClientTypes, ClientHolds
  <2>2. GotFresh(c)'
    <3>1. CASE c.at \notin Given
      BY <3>1 DEF GotFresh, Given
    <3>2. CASE c.at \in Given /\ c.got.version = version
      BY <1>1, <1>4, <2>1, <3>2 DEF CallHolds, GotFresh
    <3>3. CASE c.at \in Given /\ c.got.version # version
      BY <1>1, <1>4, <2>1, <3>3 DEF CallHolds, GotFresh
    <3> QED BY <3>1, <3>2, <3>3
  <2>3. NotBefore(c)'
    <3>1. c.from \in Nat
      BY DEF Call
    <3> QED BY <1>1, <1>2, <2>1, <3>1 DEF CallHolds, NotBefore
  <2>4. HasCredentials(c)' /\ GotKnown(c)'
    BY <1>1, <2>1 DEF CallHolds, HasCredentials, GotKnown
  <2> QED BY <1>1, <2>1, <2>2, <2>3, <2>4
          DEF CallHolds, GotFresh, NotBefore, HasCredentials, GotKnown
<1>6. ASSUME NEW e \in Exports PROVE EntryFresh(cache[e])' /\ EntryKnown(e, cache[e])'
  <2>1. PICK x \in Stored : x = cache[e] /\ EntryFresh(x) /\ EntryKnown(e, x)
    BY DEF ClientInv, ClientTypes, ClientHolds
  <2>2. x.expires \in Nat
    BY DEF Stored
  <2>3. EntryFresh(x)'
    <3>1. CASE x.version = version
      BY <1>1, <1>4, <2>1, <2>2, <3>1 DEF EntryFresh
    <3>2. CASE x.version # version
      BY <1>1, <1>4, <2>1, <2>2, <3>2 DEF EntryFresh
    <3> QED BY <3>1, <3>2
  <2> QED BY <1>1, <2>1, <2>3 DEF EntryFresh, EntryKnown
<1> QED BY <1>3, <1>5, <1>6 DEF ClientInv, ClientHolds

\* Time passes only while nothing is being read or stored.
LEMMA PassKeeps == ASSUME ClientInv, Pass PROVE ClientInv'
<1>1. /\ clock' = clock + 1 /\ UNCHANGED <<penalty, login, key, session, cache, version, until, call>>
      /\ \A t \in Threads : call[t].at \notin Given
  BY DEF Pass, Tick, clientVars, Given, Fetching
<1>2. clock \in Nat /\ Ttl \in Nat
  BY ClientAssumption DEF ClientInv, ClientTypes
<1>3. ClientTypes'
  BY <1>1, <1>2 DEF ClientInv, ClientTypes
<1>4. \A t \in Threads : CallHolds(call[t])'
  BY <1>1 DEF ClientInv, ClientHolds, CallHolds, GotFresh, NotBefore, HasCredentials, GotKnown,
              Given
<1>5. ASSUME NEW e \in Exports PROVE EntryFresh(cache[e])' /\ EntryKnown(e, cache[e])'
  <2>1. PICK x \in Stored : x = cache[e] /\ EntryFresh(x) /\ EntryKnown(e, x)
    BY DEF ClientInv, ClientTypes, ClientHolds
  <2>2. x.expires \in Nat
    BY DEF Stored
  <2> QED BY <1>1, <1>2, <2>1, <2>2 DEF EntryFresh, EntryKnown
<1> QED BY <1>3, <1>4, <1>5 DEF ClientInv, ClientHolds

LEMMA GrowOldKeeps == ASSUME ClientInv, GrowOld PROVE ClientInv'
<1>1. /\ session' = "stale"
      /\ UNCHANGED <<clock, penalty, login, key, cache, version, until, call>>
  BY DEF GrowOld, limiterVars
<1>2. ClientTypes'
  BY <1>1 DEF ClientInv, ClientTypes
<1> QED BY <1>1, <1>2
      DEF ClientInv, ClientHolds, CallHolds, GotFresh, NotBefore, HasCredentials, GotKnown,
          EntryFresh, EntryKnown

\* What the calls hold and the cache keeps stays recent, in order and known: the
\* invariant is inductive, for all threads and exports.
THEOREM ClientInductive == LimiterInv /\ ClientInv /\ [Next]_vars => ClientInv'
<1> SUFFICES ASSUME LimiterInv, ClientInv, [Next]_vars PROVE ClientInv'
  OBVIOUS
<1>1. ASSUME NEW t \in Threads, Thread(t) PROVE ClientInv'
  <2>1. CASE LoginFails(t) \/ Return(t)
    BY <2>1, LeaveKeeps DEF LoginFails, Return, limiterVars, ClientInv, ClientTypes
  <2> QED BY <1>1, <2>1, BeginKeeps, LoggedInKeeps, LookUpKeeps, LetThroughKeeps, SleepKeeps,
             UnansweredKeeps, AnsweredKeeps, OpenKeeps, WriteKeeps DEF Thread
<1>2. CASE UNCHANGED vars
  BY <1>2 DEF vars, limiterVars, clientVars, ClientInv, ClientTypes, ClientHolds, CallHolds,
              GotFresh, NotBefore, HasCredentials, GotKnown, EntryFresh, EntryKnown
<1> QED BY <1>1, <1>2, PassKeeps, ChangeKeeps, GrowOldKeeps DEF Next

LEMMA ClientAlways == Spec => []ClientInv
BY ClientStarts, ClientInductive, PaceAlways, PTL DEF Spec

\* Every reachable state is of the declared types.
THEOREM TypeCorrect == Spec => []TypeOK
<1>1. LimiterInv /\ ClientInv => TypeOK
  BY DEF LimiterInv, LTypes, ClientInv, ClientTypes, TypeOK, LimiterTypeOK, Call
<1> QED BY <1>1, PaceAlways, ClientAlways, PTL

\* What a caller is given was the site's data less than Ttl ago (mfl/cache.py), for
\* any number of threads that fetch, overwrite and look up the same exports.
THEOREM RecentAnswers == Spec => []AnswersAreRecent
<1>1. ClientInv => AnswersAreRecent
  BY DEF ClientInv, ClientHolds, CallHolds, GotFresh, AnswersAreRecent, At
<1> QED BY <1>1, ClientAlways, PTL

\* A caller who insists on a fresh answer is given nothing older than the call
\* (mfl/client.py), whoever else stores the same export meanwhile.
THEOREM FreshWhenForced == Spec => []ForcedAnswersAreFresh
<1>1. ClientInv => ForcedAnswersAreFresh
  <2> SUFFICES ASSUME ClientInv, NEW t \in Threads, At(t, "answered"), call[t].forced
               PROVE  call[t].got.version >= call[t].from
    BY DEF ForcedAnswersAreFresh
  <2>1. PICK c \in Call : c = call[t] /\ CallHolds(c)
    BY DEF ClientInv, ClientTypes, ClientHolds
  <2>2. c.from \in Nat /\ c.got \in Stored
    BY DEF Call
  <2>3. c.got.version \in Nat
    BY <2>2 DEF Stored
  <2> QED BY <2>1, <2>2, <2>3 DEF CallHolds, NotBefore, At, Given
<1> QED BY <1>1, ClientAlways, PTL

\* What needs a session is never answered from an anonymous request, also not out of
\* the cache (mfl/client.py, "never degrade quietly into anonymous access").
THEOREM NotAnonymous == Spec => []NeverAnonymous
<1>1. ClientInv => NeverAnonymous
  BY DEF ClientInv, ClientHolds, CallHolds, GotKnown, NeverAnonymous, At, Given
<1> QED BY <1>1, ClientAlways, PTL
=============================================================================
