------------------------------ MODULE JobPage -------------------------------
(***************************************************************************)
(* An open page of the dashboard beside the job queue: it shows runs from  *)
(* the events of its stream, and re-reads the newest ones when an event    *)
(* says that something changed or, while the stream is down, from time to  *)
(* time.  Each re-read is a request of its own: the server answers with    *)
(* what is true then, the answers may overtake each other, and a re-read   *)
(* that fails is not repeated.                                             *)
(*                                                                         *)
(*   shown    what the page shows of each run                              *)
(*   link     its stream: "down" or "open"                                 *)
(*   polling  the timer of the polling that covers an interrupted stream   *)
(*   asked    requests the server has not answered                         *)
(*   answers  answers under way, oldest first; old marks those that would  *)
(*            put back something the page already showed newer             *)
(***************************************************************************)
EXTENDS JobQueue

CONSTANTS
  ShownRuns,   \* how many runs /api/state returns, 10
  MaxReads,    \* bound: requests and answers under way
  MaxLosses    \* bound: interruptions of the stream

ASSUME JobPageAssumption ==
  {ShownRuns, MaxReads} \subseteq Nat \ {0} /\ MaxLosses \in Nat

VARIABLES shown, link, polling, asked, answers, losses

pageVars == <<shown, link, polling, asked, answers, losses>>
vars == <<jobVars, pageVars>>

View == [Runs -> Status \union {"absent"}]

TypeOK ==
  /\ JobTypeOK
  /\ shown \in View
  /\ link \in {"down", "open"} /\ polling \in BOOLEAN
  /\ asked \in 0..MaxReads /\ answers \in Seq([says : View, old : BOOLEAN])
  /\ losses \in 0..MaxLosses

\* The runs of /api/state: the newest of the registry.
Newest == {order[i] : i \in 1..(IF Len(order) < ShownRuns THEN Len(order) ELSE ShownRuns)}
State == [r \in Runs |-> IF r \in Newest THEN status[r] ELSE "absent"]

Upsert(view, news) == [r \in Runs |-> IF news[r] = "absent" THEN view[r] ELSE news[r]]

Room == asked + Len(answers) < MaxReads

-----------------------------------------------------------------------------
(* The stream: subscribed when it opens, forgotten when it breaks.         *)

Open ==
  /\ link = "down" /\ ~stopping
  /\ link' = "open" /\ polling' = FALSE
  /\ bus' = [bus EXCEPT !.subscribed = TRUE]
  /\ UNCHANGED <<status, unparsable, order, queue, request, worker, stopping,
                 shown, asked, answers, losses>>

LoseLink ==
  /\ link = "open" /\ losses < MaxLosses
  /\ losses' = losses + 1
  /\ link' = "down" /\ polling' = TRUE
  /\ bus' = [subscribed |-> FALSE, events |-> <<>>,
             missed |-> IF \E i \in DOMAIN bus.events : bus.events[i].name # "log"
                        THEN bus.missed \union {"gap"} ELSE bus.missed]
  /\ UNCHANGED <<status, unparsable, order, queue, request, worker, stopping,
                 shown, asked, answers>>

\* An event reaches the page.
HandleJob ==
  /\ link = "open" /\ bus.events # <<>> /\ Head(bus.events).name = "job"
  /\ LET e == Head(bus.events)
     IN /\ shown' = [shown EXCEPT ![e.run] = e.status]
        /\ answers' = [i \in DOMAIN answers |->
             [answers[i] EXCEPT !.old = @ \/ answers[i].says[e.run] \notin {e.status, "absent"}]]
  /\ bus' = [bus EXCEPT !.events = Tail(@)]
  /\ UNCHANGED <<status, unparsable, order, queue, request, worker, stopping,
                 link, polling, asked, losses>>

HandleOther ==
  /\ link = "open" /\ bus.events # <<>> /\ Head(bus.events).name # "job"
  /\ bus' = [bus EXCEPT !.events = Tail(@)]
  /\ IF Head(bus.events).name = "changed" THEN Room /\ asked' = asked + 1
     ELSE UNCHANGED asked
  /\ UNCHANGED <<status, unparsable, order, queue, request, worker, stopping,
                 shown, link, polling, answers, losses>>

-----------------------------------------------------------------------------
(* Re-reading the state (refreshState).                                    *)

Poll ==
  /\ polling /\ asked = 0 /\ Room
  /\ asked' = asked + 1
  /\ UNCHANGED <<jobVars, shown, link, polling, answers, losses>>

\* With no event left on the way, the answer makes up for whatever was missed.
Answer ==
  /\ asked > 0
  /\ asked' = asked - 1
  /\ answers' = Append(answers, [says |-> State, old |-> FALSE])
  /\ bus' = IF bus.events = <<>> THEN [bus EXCEPT !.missed = {}] ELSE bus
  /\ UNCHANGED <<status, unparsable, order, queue, request, worker, stopping,
                 shown, link, polling, losses>>

\* No answer, or none of use: nothing is shown and nothing asked again.  Another
\* question that is still out makes up for it.
ReadFails ==
  /\ asked > 0
  /\ asked' = asked - 1
  /\ bus' = IF asked = 1 THEN [bus EXCEPT !.missed = @ \union {"unread"}] ELSE bus
  /\ UNCHANGED <<status, unparsable, order, queue, request, worker, stopping,
                 shown, link, polling, answers, losses>>

\* The session has expired: the page loads anew, as rendered once the owner has
\* logged in, and connects and asks again.
Reload ==
  /\ asked > 0
  /\ shown' = State
  /\ link' = "down" /\ polling' = FALSE /\ asked' = 1 /\ answers' = <<>>
  /\ bus' = [subscribed |-> FALSE, events |-> <<>>, missed |-> {}]
  /\ UNCHANGED <<status, unparsable, order, queue, request, worker, stopping, losses>>

Arrive(i) ==
  /\ shown' = Upsert(shown, answers[i].says)
  /\ answers' = [j \in 1..(Len(answers) - 1) |->
                   IF j < i THEN [answers[j] EXCEPT !.old = TRUE] ELSE answers[j + 1]]
  /\ bus' = IF answers[i].old THEN [bus EXCEPT !.missed = @ \union {"stale"}] ELSE bus
  /\ UNCHANGED <<status, unparsable, order, queue, request, worker, stopping,
                 link, polling, asked, losses>>

-----------------------------------------------------------------------------
\* The page loads: it connects, and asks for the state.
Init ==
  /\ JobInit
  /\ shown = [r \in Runs |-> "absent"]
  /\ link = "down" /\ polling = FALSE /\ asked = 1 /\ answers = <<>>
  /\ losses = 0

Page ==
  \/ Open \/ LoseLink \/ HandleJob \/ HandleOther
  \/ Poll \/ Answer \/ ReadFails \/ Reload
  \/ \E i \in DOMAIN answers : Arrive(i)

Next == \/ JobNext /\ UNCHANGED pageVars
        \/ Page

Spec == Init /\ [][Next]_vars

-----------------------------------------------------------------------------
(* Properties.                                                             *)

Quiet ==
  /\ link = "open" /\ bus.events = <<>> /\ asked = 0 /\ answers = <<>>
  /\ request.at = "idle"
  /\ worker.at \notin {"announce", "announceEnd", "nudge"}

ShowsTheTruth == \A r \in Newest : shown[r] = status[r]

\* When nothing is under way, an open page shows each of the newest runs as it is,
\* unless it was deprived of news in one of five ways (Causes) and has not been
\* answered since: events and re-reads reach it in any order, and one re-read that
\* succeeds puts everything right (web/events.py, static/app.js).
QuietPageIsRight == Quiet /\ bus.missed = {} => ShowsTheTruth
=============================================================================
