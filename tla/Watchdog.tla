------------------------------ MODULE Watchdog ------------------------------
(***************************************************************************)
(* The scheduler's recorded jobs, and the watchdog that judges them by     *)
(* what they recorded.                                                     *)
(*                                                                         *)
(* Time is kept as ages and timers, relative to now: a tick makes every    *)
(* age grow, up to Old, and every timer of a running scheduler fall.  What *)
(* is due happens before the next tick.                                    *)
(*                                                                         *)
(*   last      age of each job's last success (job:last_success:<id>)      *)
(*   due       ticks to each job's next start, while the scheduler is up   *)
(*   run       0, or 1 + the age of the run in progress                    *)
(*   clock     time of day; the daily jobs start at 0                      *)
(*   up, age   is there a scheduler, and since when (started_at)           *)
(*   beat      the heartbeat job: its timer, where it stands, its verdict  *)
(*   alerted   the row heartbeat:alerted                                   *)
(*   told      the last of the watchdog's messages that reached the owner  *)
(*                                                                         *)
(* For the properties: missed counts the runs of a job that came to        *)
(* nothing since its last success, restarted holds the jobs for which the  *)
(* scheduler was started since then, and astray says that a message was    *)
(* lost, or the process died between a message and its row.                *)
(***************************************************************************)
EXTENDS Naturals

CONSTANTS
  Interval,    \* jobs that run every Cadence ticks
  Daily,       \* jobs that run once a day
  Cadence,
  Factor,      \* heartbeat_stale_multiplier
  Day,         \* a day in ticks
  Slack,       \* what a daily job may take beyond a day (26 h - 24 h)
  Beat,        \* ticks from one heartbeat to the next
  MaxRun,      \* bound: no run lasts longer, in ticks
  Old          \* bound: ages from here on are not told apart

Jobs == Interval \union Daily

\* How long without a success is too long.
MaxGap(j) == IF j \in Interval THEN Factor * Cadence ELSE Day + Slack

ASSUME WatchdogAssumption ==
  /\ Interval \intersect Daily = {} /\ Jobs # {}
  /\ {Cadence, Factor, Day, Slack, Beat} \subseteq Nat \ {0}
  /\ MaxRun \in Nat /\ Old \in Nat
  /\ \A j \in Jobs : MaxGap(j) < Old

\* As configured by default: 3 times 45 minutes, a heartbeat every 15; and no run
\* takes as long as that.
ASSUME TimingAssumption ==
  /\ Factor >= 3
  /\ MaxRun < Beat /\ MaxRun < Cadence /\ MaxRun <= Slack

VARIABLES last, due, run, missed, restarted, clock, up, age, beat, alerted, told,
          astray

vars == <<last, due, run, missed, restarted, clock, up, age, beat, alerted, told,
          astray>>

jobs == <<last, due, run, missed, restarted>>
messages == <<alerted, told, astray>>

CatchUpAfter(j) == IF j \in Interval THEN Cadence ELSE Day

Never == Old + 1
Older(n) == IF n < Old THEN n + 1 ELSE n
Earlier(n) == IF n = 0 THEN 0 ELSE n - 1

TypeOK ==
  /\ last \in [Jobs -> 0..Never]
  /\ due \in [Jobs -> Nat] /\ \A j \in Jobs : due[j] <= CatchUpAfter(j)
  /\ run \in [Jobs -> 0..(MaxRun + 1)]
  /\ missed \in [Jobs -> 0..2] /\ restarted \subseteq Jobs
  /\ clock \in 0..(Day - 1)
  /\ up \in BOOLEAN /\ age \in 0..Old
  /\ beat \in [due : 0..Beat, pc : {"idle", "ping", "tell", "mark"},
             word : {"stalled", "recovered"}]
  /\ alerted \in BOOLEAN /\ told \in {"nothing", "stalled", "recovered"}
  /\ astray \in BOOLEAN

Miss(m, J) == [j \in Jobs |-> IF j \in J /\ m[j] < 2 THEN m[j] + 1 ELSE m[j]]

-----------------------------------------------------------------------------
(* The jobs.                                                               *)

\* Slip: one too late.
LateSlot(j) == IF j \in Interval THEN Cadence ELSE 1 + Day - clock
NextSlot(j) == IF j \in Interval THEN Cadence ELSE Day - clock

\* max_instances = 1: a job that is still running is not started again.
Fire(j) ==
  /\ up /\ due[j] = 0
  /\ due' = [due EXCEPT ![j] = NextSlot(j)]
  /\ run' = [run EXCEPT ![j] = IF @ = 0 THEN 1 ELSE @]
  /\ UNCHANGED <<last, missed, restarted, clock, up, age, beat, messages>>

Succeed(j) ==
  /\ run[j] > 0
  /\ run' = [run EXCEPT ![j] = 0]
  /\ last' = [last EXCEPT ![j] = 0]
  /\ missed' = [missed EXCEPT ![j] = 0]
  /\ restarted' = restarted \ {j}
  /\ UNCHANGED <<due, clock, up, age, beat, messages>>

\* Slip: a failed run counts as a run.
FailRecorded(j) ==
  /\ run[j] > 0
  /\ run' = [run EXCEPT ![j] = 0]
  /\ missed' = Miss(missed, {j})
  /\ last' = [last EXCEPT ![j] = 0]
  /\ UNCHANGED <<due, restarted, clock, up, age, beat, messages>>

Fail(j) ==
  /\ run[j] > 0
  /\ run' = [run EXCEPT ![j] = 0]
  /\ missed' = Miss(missed, {j})
  /\ UNCHANGED <<last, due, restarted, clock, up, age, beat, messages>>

-----------------------------------------------------------------------------
(* The watchdog.                                                           *)

\* A job that has never succeeded is judged by how long the scheduler is up.
Stale(j) == IF last[j] = Never THEN age > MaxGap(j) ELSE last[j] > MaxGap(j)
StaleJobs == {j \in Jobs : Stale(j)}

Idle(d) == [due |-> d, pc |-> "idle", word |-> "recovered"]

\* An alert already given is not given again.
Judge ==
  /\ up /\ beat.due = 0 /\ beat.pc = "idle"
  /\ beat' = CASE StaleJobs = {} -> [due |-> Beat, pc |-> "ping", word |-> "recovered"]
               [] StaleJobs # {} /\ ~alerted -> [due |-> Beat, pc |-> "tell", word |-> "stalled"]
               [] OTHER -> Idle(Beat)
  /\ UNCHANGED <<jobs, clock, up, age, messages>>

Ping ==
  /\ beat.pc = "ping"
  /\ beat' = IF alerted THEN [beat EXCEPT !.pc = "tell"] ELSE Idle(beat.due)
  /\ UNCHANGED <<jobs, clock, up, age, messages>>

\* What send returns is not looked at.
Tell(arrives) ==
  /\ beat.pc = "tell"
  /\ told' = IF arrives THEN beat.word ELSE told
  /\ astray' = ~arrives
  /\ beat' = [beat EXCEPT !.pc = "mark"]
  /\ UNCHANGED <<jobs, clock, up, age, alerted>>

\* Slip: the end of a stall is not written down.
MarkStall ==
  /\ beat.pc = "mark"
  /\ alerted' = (alerted \/ beat.word = "stalled")
  /\ beat' = Idle(beat.due)
  /\ UNCHANGED <<jobs, clock, up, age, told, astray>>

Mark ==
  /\ beat.pc = "mark"
  /\ alerted' = (beat.word = "stalled")
  /\ beat' = Idle(beat.due)
  /\ UNCHANGED <<jobs, clock, up, age, told, astray>>

-----------------------------------------------------------------------------
(* The scheduler starts and stops, and time passes.                        *)

\* Slip: only a job that never ran is caught up.
NeverRan(j) == last[j] = Never
Overdue(j) == last[j] = Never \/ last[j] > CatchUpAfter(j)
NothingRuns == (\A j \in Jobs : run[j] = 0) /\ beat.pc = "idle"

\* The heartbeat is not caught up: its first run is a Beat away.  The bound is
\* that runs a stopped scheduler has left behind end before the next starts.
Start ==
  /\ ~up /\ NothingRuns
  /\ up' = TRUE /\ age' = 0
  /\ due' = [j \in Jobs |-> IF Overdue(j) THEN 0 ELSE NextSlot(j)]
  /\ restarted' = Jobs
  /\ beat' = Idle(Beat)
  /\ UNCHANGED <<last, run, missed, clock, messages>>

\* The dashboard's switch or Ctrl-C: no more starts, but what runs goes on.
Stop ==
  /\ up
  /\ up' = FALSE /\ age' = 0
  /\ due' = [j \in Jobs |-> 0]
  /\ beat' = [beat EXCEPT !.due = 0]
  /\ UNCHANGED <<last, run, missed, restarted, clock, messages>>

\* The process dies, and what runs with it.
Die ==
  /\ up \/ ~NothingRuns
  /\ up' = FALSE /\ age' = 0
  /\ due' = [j \in Jobs |-> 0]
  /\ run' = [j \in Jobs |-> 0]
  /\ missed' = Miss(missed, {j \in Jobs : run[j] > 0})
  /\ beat' = Idle(0)
  /\ astray' = (astray \/ beat.pc = "mark")
  /\ UNCHANGED <<last, restarted, clock, alerted, told>>

Tick ==
  /\ up => beat.due > 0 /\ \A j \in Jobs : due[j] > 0
  /\ beat.pc = "idle" /\ \A j \in Jobs : run[j] <= MaxRun
  /\ clock' = (clock + 1) % Day
  /\ last' = [j \in Jobs |-> IF last[j] = Never THEN Never ELSE Older(last[j])]
  /\ due' = [j \in Jobs |-> Earlier(due[j])]
  /\ run' = [j \in Jobs |-> IF run[j] = 0 THEN 0 ELSE run[j] + 1]
  /\ age' = IF up THEN Older(age) ELSE 0
  /\ beat' = [beat EXCEPT !.due = Earlier(@)]
  /\ UNCHANGED <<missed, restarted, up, messages>>

Init ==
  /\ last = [j \in Jobs |-> Never]
  /\ due = [j \in Jobs |-> 0]
  /\ run = [j \in Jobs |-> 0]
  /\ missed = [j \in Jobs |-> 0] /\ restarted = {}
  /\ clock \in 0..(Day - 1)
  /\ up = FALSE /\ age = 0
  /\ beat = Idle(0)
  /\ alerted = FALSE /\ told = "nothing" /\ astray = FALSE

Run(j) == Fire(j) \/ Succeed(j) \/ Fail(j)
Watch == Judge \/ Ping \/ (\E arrives \in BOOLEAN : Tell(arrives)) \/ Mark

Next ==
  \/ \E j \in Jobs : Run(j)
  \/ Watch
  \/ Start \/ Stop \/ Die
  \/ Tick

Spec == Init /\ [][Next]_vars

\* The scheduler's threads go on, and so does time; whether anyone starts the
\* scheduler again is up to the owner.
FairSpec ==
  /\ Spec
  /\ \A j \in Jobs : WF_vars(Run(j))
  /\ WF_vars(Watch) /\ WF_vars(Tick)

-----------------------------------------------------------------------------
(* Properties.                                                             *)

\* An interval job is reported stale only if a run of it failed or was cut off
\* since it last succeeded, and for one such run only if the scheduler was
\* started in between as well: one failure alone is not an alert
\* (config.py:178-180), and no number of restarts is, because a job that is
\* overdue at a start runs at once, before the watchdog judges (jobs.py:265-267).
\* A daily job is reported stale only after a failure or a start.
AlarmsHaveACause ==
  [][Judge => \A j \in StaleJobs :
       /\ j \in Interval => missed[j] > 0 /\ (missed[j] > 1 \/ j \in restarted)
       /\ j \in Daily => missed[j] > 0 \/ j \in restarted]_vars

\* The owner is told neither of a stall nor of its end twice in a row, unless a
\* message went astray or the process died between the message and the row.
NeverAStream ==
  [][(\E arrives \in BOOLEAN : Tell(arrives)) => astray \/ told # beat.word]_vars

\* A job that from some point on never succeeds ends the pings for good, however
\* often the process is restarted: the monitor escalates.  (Before its first
\* success restarts keep it warming up.)
FailingJobsEndThePings ==
  \A j \in Jobs :
    <>[](missed[j] > 0 /\ last[j] # Never) => <>[][~Ping]_vars

\* If the scheduler stays up, the owner ends up knowing how things are: of a job
\* that never succeeds again, and of all jobs keeping up, unless astray.
OwnerKnowsInTheEnd ==
  <>[]up =>
    /\ (\E j \in Jobs : <>[](missed[j] > 0)) => <>[](told = "stalled" \/ astray)
    /\ <>[](StaleJobs = {}) => <>[](told # "stalled" \/ astray)
=============================================================================
