----------------------------- MODULE ReadClient -----------------------------
(***************************************************************************)
(* The read client that all threads of a process share: an export is       *)
(* answered from the cache, or fetched through the limiter with retries    *)
(* and stored.  The site's data is a version number that grows.            *)
(*                                                                         *)
(*   login, key   the credentials the process was started with             *)
(*   session      the login session: "none", "live", or "stale" once old   *)
(*   cache        what is stored for each export, as of which version, and *)
(*                when it expires                                          *)
(*   version      the site's data now, and until[v], when v was replaced   *)
(*   call         each thread's export in progress                         *)
(***************************************************************************)
EXTENDS RateLimiter, FiniteSetsExt

CONSTANTS
  Threads,
  Exports,         \* the export types asked for
  NeedAuth,        \* those with requires_auth
  Ttl,             \* how long an answer is kept
  MaxRetries,      \* max_retries, 5
  InitialBackoff,  \* initial_backoff_seconds, 2
  MaxBackoff,      \* max_backoff_seconds, 120
  RetryAfter,      \* what Retry-After may say
  MaxVersion       \* bound: changes on the site

ASSUME ClientAssumption ==
  /\ Threads # {} /\ Exports # {} /\ NeedAuth \subseteq Exports
  /\ Ttl \in Nat \ {0} /\ MaxRetries \in Nat \ {0}
  /\ InitialBackoff \in Nat \ {0} /\ MaxBackoff \in Nat \ {0}
  /\ RetryAfter \subseteq Nat \ {0} /\ MaxVersion \in Nat \ {0}

VARIABLES login, key, session, cache, version, until, call

clientVars == <<login, key, session, cache, version, until, call>>
vars == <<limiterVars, clientVars>>

Never == 0
Absent == [version |-> Never, expires |-> 0, known |-> FALSE]
Idle == [at |-> "idle", export |-> CHOOSE e \in Exports : TRUE, forced |-> FALSE,
         attempt |-> 0, wake |-> 0, from |-> 1, got |-> Absent]

\* known: the request carried a session or a key.
Stored == [version : 0..MaxVersion, expires : Nat, known : BOOLEAN]

TypeOK ==
  /\ LimiterTypeOK
  /\ login \in BOOLEAN /\ key \in BOOLEAN
  /\ session \in {"none", "live", "stale"}
  /\ cache \in [Exports -> Stored]
  /\ version \in 1..MaxVersion
  /\ until \in [1..MaxVersion -> Nat]
  /\ call \in [Threads ->
        [at : {"idle", "login", "entered", "lookup", "pace", "asked", "fetched",
               "storing", "answered"},
         export : Exports, forced : BOOLEAN, attempt : 0..MaxRetries, wake : Nat,
         from : 1..MaxVersion, got : Stored]]

At(t, at) == call[t].at = at
Go(t, at) == call' = [call EXCEPT ![t].at = at]
Leave(t) == call' = [call EXCEPT ![t] = Idle]

-----------------------------------------------------------------------------
(* The site and the clock.                                                 *)

\* While an answer is being read and stored the clock stands: nothing there waits.
Pass ==
  /\ \A t \in Threads : call[t].at \notin {"fetched", "storing", "answered"}
  /\ Tick
  /\ UNCHANGED clientVars

Change ==
  /\ version < MaxVersion
  /\ version' = version + 1
  /\ until' = [until EXCEPT ![version] = clock]
  /\ UNCHANGED <<limiterVars, login, key, session, cache, call>>

GrowOld ==
  /\ session = "live" /\ session' = "stale"
  /\ UNCHANGED <<limiterVars, login, key, cache, version, until, call>>

-----------------------------------------------------------------------------
(* Waiting for the limiter, for a request or for a login.                  *)

Paced(t) == At(t, "pace") \/ At(t, "login")

LetThrough(t) ==
  /\ Paced(t) /\ call[t].wake <= clock
  /\ Acquire
  /\ call' = [call EXCEPT ![t] =
       [@ EXCEPT !.at = IF At(t, "login") THEN "entered" ELSE "asked", !.wake = 0]]
  /\ UNCHANGED <<login, key, session, cache, version, until>>

\* The thread sleeps until the time the limiter named, and asks again.
Sleep(t) ==
  /\ Paced(t) /\ call[t].wake <= clock
  /\ TurnAway
  /\ call' = [call EXCEPT ![t].wake = Max(WaitsFor(oldest'))]
  /\ UNCHANGED <<login, key, session, cache, version, until>>

-----------------------------------------------------------------------------
(* An export: credentials, cache, request, retries, cache.                 *)

\* Slip: goes on without a session when there is none to be had.
DoorAlwaysOpen(e) ==
  IF e \in NeedAuth /\ login /\ session # "live" THEN "login" ELSE "lookup"

\* Where an export starts: with a login when it needs one and the session is not
\* good, not at all when it needs what there are no credentials for.
Door(e) ==
  IF e \notin NeedAuth THEN "lookup"
  ELSE IF login /\ session # "live" THEN "login"
  ELSE IF session # "none" \/ key THEN "lookup" ELSE "idle"

Begin(t, e, forced) ==
  /\ At(t, "idle")
  /\ Door(e) # "idle"
  /\ call' = [call EXCEPT ![t] =
       [Idle EXCEPT !.at = Door(e), !.export = e, !.forced = forced,
                    !.from = IF forced THEN version ELSE 1]]
  /\ UNCHANGED <<limiterVars, login, key, session, cache, version, until>>

\* A login is not repeated: whatever is not a session is an error.
LoggedIn(t) ==
  /\ At(t, "entered")
  /\ session' = "live"
  /\ Go(t, "lookup")
  /\ UNCHANGED <<limiterVars, login, key, cache, version, until>>

LoginFails(t) ==
  /\ At(t, "entered")
  /\ Leave(t)
  /\ UNCHANGED <<limiterVars, login, key, session, cache, version, until>>

\* Slip: an entry counts however old it is.
UsableStale(e) == cache[e] # Absent

\* An expired entry is a miss; one that is missing or unreadable never counts.
Usable(e) == clock < cache[e].expires

\* Slip: the cache answers a caller who asked it not to.
LookUpAlways(t) ==
  /\ At(t, "lookup")
  /\ LET c == call[t] IN
     call' = [call EXCEPT ![t] =
       IF Usable(c.export)
       THEN [c EXCEPT !.at = "answered", !.got = cache[c.export]]
       ELSE [c EXCEPT !.at = "pace"]]
  /\ UNCHANGED <<limiterVars, login, key, session, cache, version, until>>

LookUp(t) ==
  /\ At(t, "lookup")
  /\ LET c == call[t] IN
     call' = [call EXCEPT ![t] =
       IF ~c.forced /\ Usable(c.export)
       THEN [c EXCEPT !.at = "answered", !.got = cache[c.export]]
       ELSE [c EXCEPT !.at = "pace"]]
  /\ UNCHANGED <<limiterVars, login, key, session, cache, version, until>>

Capped(d) == IF d < MaxBackoff THEN d ELSE MaxBackoff

\* The backoff of an attempt with its jitter, from half to one and a half of it; a
\* Retry-After counts as it is.  Both are capped.
Backoff(attempt) ==
  LET base == Capped(InitialBackoff * 2^attempt)
  IN {d \in 1..(2 * base) : base <= 2 * d /\ 2 * d < 3 * base}

Waits(t) ==
  Backoff(call[t].attempt) \union {Capped(r) : r \in RetryAfter}

\* The limiter is told to wait, and the request is made again.
Again(t, d) ==
  /\ Penalise(d)
  /\ call' = [call EXCEPT ![t] =
       [@ EXCEPT !.at = "pace", !.attempt = call[t].attempt + 1]]

\* 429 or a server error: the limiter gives up after MaxRetries of them.
Refused(t) ==
  /\ At(t, "asked")
  /\ IF call[t].attempt >= MaxRetries
     THEN Leave(t) /\ UNCHANGED limiterVars
     ELSE \E d \in Waits(t) : Again(t, d)
  /\ UNCHANGED <<login, key, session, cache, version, until>>

\* No answer: the client gives up one request earlier.
Lost(t) ==
  /\ At(t, "asked")
  /\ IF call[t].attempt >= MaxRetries - 1
     THEN Leave(t) /\ UNCHANGED limiterVars
     ELSE \E d \in Backoff(call[t].attempt) : Again(t, d)
  /\ UNCHANGED <<login, key, session, cache, version, until>>

\* Another status is an error at once, and leaves the penalty alone.
Rejected(t) ==
  /\ At(t, "asked")
  /\ Leave(t)
  /\ UNCHANGED <<limiterVars, login, key, session, cache, version, until>>

\* 200: the penalty is over, whoever it was imposed on; the body may still hold
\* an error, or not be JSON.
Answered(t) ==
  /\ At(t, "asked")
  /\ ResetPenalty
  /\ \E ok \in BOOLEAN :
       IF ok THEN call' = [call EXCEPT ![t] =
                    [@ EXCEPT !.at = "fetched", !.attempt = 0,
                              !.got = [version |-> version, expires |-> 0,
                                       known |-> session # "none" \/ key]]]
       ELSE Leave(t)
  /\ UNCHANGED <<login, key, session, cache, version, until>>

\* The file is truncated before it is written, and unreadable until then.
OpenEntry(t) ==
  /\ At(t, "fetched")
  /\ cache' = [cache EXCEPT ![call[t].export] = Absent]
  /\ Go(t, "storing")
  /\ UNCHANGED <<limiterVars, login, key, session, version, until>>

WriteEntry(t) ==
  /\ At(t, "storing")
  /\ cache' = [cache EXCEPT ![call[t].export] =
                 [call[t].got EXCEPT !.expires = clock + Ttl]]
  /\ Go(t, "answered")
  /\ UNCHANGED <<limiterVars, login, key, session, version, until>>

Return(t) ==
  /\ At(t, "answered")
  /\ Leave(t)
  /\ UNCHANGED <<limiterVars, login, key, session, cache, version, until>>

-----------------------------------------------------------------------------
Init ==
  /\ LimiterInit
  /\ login \in BOOLEAN /\ key \in BOOLEAN /\ session = "none"
  /\ cache = [e \in Exports |-> Absent]
  /\ version = 1 /\ until = [v \in 1..MaxVersion |-> Never]
  /\ call = [t \in Threads |-> Idle]

Thread(t) ==
  \/ \E e \in Exports, forced \in BOOLEAN : Begin(t, e, forced)
  \/ LoggedIn(t) \/ LoginFails(t) \/ LookUp(t)
  \/ LetThrough(t) \/ Sleep(t)
  \/ Refused(t) \/ Lost(t) \/ Rejected(t) \/ Answered(t)
  \/ OpenEntry(t) \/ WriteEntry(t) \/ Return(t)

Next == Pass \/ Change \/ GrowOld \/ \E t \in Threads : Thread(t)

Spec == Init /\ [][Next]_vars

-----------------------------------------------------------------------------
(* Properties.                                                             *)

\* What a caller is given was the site's data less than Ttl ago, whichever
\* threads stored it and in whatever order (mfl/cache.py).
AnswersAreRecent ==
  \A t \in Threads : At(t, "answered") =>
    LET v == call[t].got.version
    IN v = version \/ clock < until[v] + Ttl

\* A caller who insists on a fresh answer is given nothing older than the call:
\* the executor's checks before a write and after it rely on this.
ForcedAnswersAreFresh ==
  \A t \in Threads : At(t, "answered") /\ call[t].forced =>
    call[t].got.version >= call[t].from

\* What needs a session is never answered from an anonymous request, also when it
\* comes from the cache ("a wrong password must never degrade quietly into
\* anonymous access").
NeverAnonymous ==
  \A t \in Threads : At(t, "answered") /\ call[t].export \in NeedAuth =>
    call[t].got.known
=============================================================================
