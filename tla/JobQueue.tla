------------------------------ MODULE JobQueue ------------------------------
(***************************************************************************)
(* The dashboard's job manager and the bus it publishes to: requests queue *)
(* runs of the bot's own commands, one worker thread runs them, and both   *)
(* publish what happens to the subscription of an open page.               *)
(*                                                                         *)
(*   status     of each run; the runs are numbered as they are submitted   *)
(*   unparsable the runs whose arguments the command line refuses          *)
(*   order      the registry: the runs it remembers, newest first          *)
(*   queue      runs not yet taken, and None once stop was called          *)
(*   request    the submission in progress (they run on the event loop)    *)
(*   worker     where the worker thread stands, and its run                *)
(*   bus        the page's subscription: is there one, its queue, and for  *)
(*              the properties how the page was deprived of news (missed)  *)
(***************************************************************************)
EXTENDS Naturals, Sequences, FiniteSetsExt

CONSTANTS
  MaxRuns,       \* bound: submissions
  HistoryLimit,  \* history_limit, 25
  QueueSize,     \* maxsize of a subscription's queue, 256
  Weeks          \* what the form's Week field may hold

ASSUME JobQueueAssumption ==
  /\ {MaxRuns, HistoryLimit, QueueSize} \subseteq Nat \ {0}
  /\ Weeks \subseteq {"empty", "digits", "words", "dashed"}

Runs == 1..MaxRuns
None == 0

VARIABLES status, unparsable, order, queue, request, worker, stopping, bus

jobVars == <<status, unparsable, order, queue, request, worker, stopping, bus>>

Status == {"queued", "running", "succeeded", "failed"}
Ended == {"succeeded", "failed"}

Job(r, s) == [name |-> "job", run |-> r, status |-> s]
JobLog(r) == [name |-> "log", run |-> r, status |-> "running"]
Changed(r) == [name |-> "changed", run |-> r, status |-> "running"]
Event == [name : {"job", "log", "changed"}, run : Runs, status : Status]

\* An event while the page was not connected, or while its queue was full; a
\* submission's event later than the worker's; an answer older than what the page
\* had shown; a re-read that failed.
Causes == {"gap", "full", "late", "stale", "unread"}

JobTypeOK ==
  /\ status \in [Runs -> Status \union {"new"}]
  /\ unparsable \subseteq Runs
  /\ order \in Seq(Runs) /\ queue \in Seq(Runs \union {None})
  /\ request \in [at : {"idle", "registered", "queued", "read"},
                run : Runs \union {None}, saw : Status]
  /\ worker \in [at : {"none", "check", "get", "start", "announce", "work",
                     "announceEnd", "nudge", "dead", "ended"},
               run : Runs \union {None}]
  /\ stopping \in BOOLEAN
  /\ bus.subscribed \in BOOLEAN /\ bus.missed \subseteq Causes
  /\ bus.events \in Seq(Event) /\ Len(bus.events) <= QueueSize

-----------------------------------------------------------------------------
(* The bus: a publisher never waits.                                       *)

Deprive(b, cause, e) ==
  IF e.name = "log" THEN b ELSE [b EXCEPT !.missed = @ \union {cause}]

Published(b, e) ==
  IF ~b.subscribed THEN Deprive(b, "gap", e)
  ELSE IF Len(b.events) = QueueSize THEN Deprive(b, "full", e)
  ELSE [b EXCEPT !.events = Append(@, e)]

-----------------------------------------------------------------------------
(* Submission.                                                             *)

\* Slip: the history drops whatever is beyond its limit.
TrimmedHard(o) ==
  SubSeq(o, 1, IF Len(o) <= HistoryLimit THEN Len(o) ELSE HistoryLimit)

\* The history drops its oldest runs until it is short enough or ends in a run
\* that has not ended.
Trimmed(o) ==
  LET open == {i \in DOMAIN o : status[o[i]] \notin Ended}
  IN SubSeq(o, 1, IF Len(o) <= HistoryLimit THEN Len(o)
                  ELSE Max(open \union {HistoryLimit}))

\* The Week field may be empty, digits, words, or a number that int() reads and
\* the command line takes for an option ("-1_0"): build_argv refuses the words.
Built(week) == week # "words"

Submit(r, week) ==
  /\ request.at = "idle" /\ ~stopping
  /\ status[r] = "new" /\ \A s \in 1..(r - 1) : status[s] # "new"
  /\ Built(week)
  /\ status' = [status EXCEPT ![r] = "queued"]
  /\ unparsable' = IF week = "dashed" THEN unparsable \union {r} ELSE unparsable
  /\ order' = Trimmed(<<r>> \o order)
  /\ request' = [at |-> "registered", run |-> r, saw |-> "queued"]
  /\ UNCHANGED <<queue, worker, stopping, bus>>

\* Put the run on the queue, and start the worker unless there is one; a thread
\* that died still counts as one.
Enqueue ==
  /\ request.at = "registered"
  /\ queue' = Append(queue, request.run)
  /\ worker' = IF worker.at = "none" THEN [worker EXCEPT !.at = "check"] ELSE worker
  /\ request' = [request EXCEPT !.at = "queued"]
  /\ UNCHANGED <<status, unparsable, order, stopping, bus>>

ReadRun ==
  /\ request.at = "queued"
  /\ request' = [request EXCEPT !.at = "read", !.saw = status[request.run]]
  /\ UNCHANGED <<status, unparsable, order, queue, worker, stopping, bus>>

\* Out of date, and the worker has nothing more to say about the run for now.
Late == /\ request.saw # status[request.run]
        /\ ~ (/\ worker.run = request.run
              /\ worker.at \in {"announce", "announceEnd", "nudge"})

PublishSubmitted ==
  /\ request.at = "read"
  /\ LET b == Published(bus, Job(request.run, request.saw))
     IN bus' = IF Late THEN [b EXCEPT !.missed = @ \union {"late"}] ELSE b
  /\ request' = [at |-> "idle", run |-> None, saw |-> "queued"]
  /\ UNCHANGED <<status, unparsable, order, queue, worker, stopping>>

\* The application ends: no request comes after this.
Stop ==
  /\ request.at = "idle" /\ ~stopping
  /\ stopping' = TRUE
  /\ queue' = Append(queue, None)
  /\ UNCHANGED <<status, unparsable, order, request, worker, bus>>

-----------------------------------------------------------------------------
(* The worker thread.                                                      *)

Check ==
  /\ worker.at = "check"
  /\ worker' = [at |-> IF stopping THEN "ended" ELSE "get", run |-> None]
  /\ UNCHANGED <<status, unparsable, order, queue, request, stopping, bus>>

\* Slip: the newest first.
TakeNewest ==
  /\ worker.at = "get" /\ queue # <<>>
  /\ LET r == queue[Len(queue)]
     IN worker' = IF r = None THEN [at |-> "ended", run |-> None]
                  ELSE [at |-> "start", run |-> r]
  /\ queue' = SubSeq(queue, 1, Len(queue) - 1)
  /\ UNCHANGED <<status, unparsable, order, request, stopping, bus>>

Take ==
  /\ worker.at = "get" /\ queue # <<>>
  /\ worker' = IF Head(queue) = None THEN [at |-> "ended", run |-> None]
               ELSE [at |-> "start", run |-> Head(queue)]
  /\ queue' = Tail(queue)
  /\ UNCHANGED <<status, unparsable, order, request, stopping, bus>>

Start ==
  /\ worker.at = "start"
  /\ status' = [status EXCEPT ![worker.run] = "running"]
  /\ worker' = [worker EXCEPT !.at = "announce"]
  /\ UNCHANGED <<unparsable, order, queue, request, stopping, bus>>

Announce(from, to) ==
  /\ worker.at = from
  /\ bus' = Published(bus, Job(worker.run, status[worker.run]))
  /\ worker' = [worker EXCEPT !.at = to]
  /\ UNCHANGED <<status, unparsable, order, queue, request, stopping>>

Emit ==
  /\ worker.at = "work" /\ worker.run \notin unparsable
  /\ bus' = Published(bus, JobLog(worker.run))
  /\ UNCHANGED <<status, unparsable, order, queue, request, worker, stopping>>

\* Slip: nothing published when the command ends.
FinishQuietly(outcome) ==
  /\ worker.at = "work" /\ worker.run \notin unparsable
  /\ status' = [status EXCEPT ![worker.run] = outcome]
  /\ worker' = [at |-> "check", run |-> None]
  /\ UNCHANGED <<unparsable, order, queue, request, stopping, bus>>

\* The command ends, with an exit code or an exception.
Finish(outcome) ==
  /\ worker.at = "work" /\ worker.run \notin unparsable
  /\ status' = [status EXCEPT ![worker.run] = outcome]
  /\ worker' = [worker EXCEPT !.at = "announceEnd"]
  /\ UNCHANGED <<unparsable, order, queue, request, stopping, bus>>

\* parse_args raises SystemExit, which no handler catches: the status stays, the
\* run is published, and the thread is gone.
ParserExits ==
  /\ worker.at = "work" /\ worker.run \in unparsable
  /\ worker' = [worker EXCEPT !.at = "announceEnd"]
  /\ UNCHANGED <<status, unparsable, order, queue, request, stopping, bus>>

\* Slip: the exception of a failed command ends the loop.
NudgeOrFall ==
  /\ worker.at = "nudge"
  /\ bus' = Published(bus, Changed(worker.run))
  /\ worker' = IF worker.run \in unparsable THEN [worker EXCEPT !.at = "dead"]
               ELSE [at |-> IF status[worker.run] = "failed" THEN "ended" ELSE "check",
                     run |-> None]
  /\ UNCHANGED <<status, unparsable, order, queue, request, stopping>>

Nudge ==
  /\ worker.at = "nudge"
  /\ bus' = Published(bus, Changed(worker.run))
  /\ worker' = IF worker.run \in unparsable THEN [worker EXCEPT !.at = "dead"]
               ELSE [at |-> "check", run |-> None]
  /\ UNCHANGED <<status, unparsable, order, queue, request, stopping>>

-----------------------------------------------------------------------------
JobInit ==
  /\ status = [r \in Runs |-> "new"] /\ unparsable = {}
  /\ order = <<>> /\ queue = <<>>
  /\ request = [at |-> "idle", run |-> None, saw |-> "queued"]
  /\ worker = [at |-> "none", run |-> None]
  /\ stopping = FALSE
  /\ bus = [subscribed |-> FALSE, events |-> <<>>, missed |-> {}]

Submission ==
  \/ \E r \in Runs, week \in Weeks : Submit(r, week)
  \/ Enqueue \/ ReadRun \/ PublishSubmitted

\* The request and the thread run on; commands end, because every request they
\* make times out.  Log lines, submissions and the end need not come.
Steps ==
  \/ Check \/ Take \/ Start \/ ParserExits \/ Nudge
  \/ Announce("announce", "work")
  \/ Announce("announceEnd", "nudge")
  \/ \E outcome \in Ended : Finish(outcome)

JobNext == Submission \/ Stop \/ Emit \/ Steps

JobSpec == JobInit /\ [][JobNext]_jobVars

FairJobSpec ==
  /\ JobSpec
  /\ WF_jobVars(Enqueue \/ ReadRun \/ PublishSubmitted)
  /\ WF_jobVars(Steps)

-----------------------------------------------------------------------------
(* Properties.                                                             *)

Started(r) == status[r] \notin {"new", "queued"}

\* One at a time and in the order they were submitted: when a run has started,
\* every earlier one has ended (docstring of web/jobs.py: "Jobs run one at a
\* time"; the pacing of requests to MFL and the captured output rely on it).
OneAtATime == \A r, s \in Runs : r < s /\ Started(s) => status[r] \in Ended

\* A submission forgets no run that has not ended, and leaves the history longer
\* than its limit only when nothing in it has ended (JobManager._trim).
HistoryIsKept ==
  [][order' # order =>
       LET kept == {order'[i] : i \in DOMAIN order'}
       IN /\ \A r \in Runs : status'[r] \in {"queued", "running"} => r \in kept
          /\ \/ Len(order') <= HistoryLimit
             \/ \A r \in kept : status'[r] \notin Ended]_jobVars

\* Every run that is queued ends, unless the application stops first or an
\* earlier run killed the worker (JobManager._work).
QueuedRunsEnd ==
  \A r \in Runs :
    status[r] = "queued" ~> status[r] \in Ended \/ stopping \/ worker.at = "dead"
=============================================================================
