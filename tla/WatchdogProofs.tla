--------------------------- MODULE WatchdogProofs ---------------------------
(***************************************************************************)
(* Proofs about Watchdog, for all sets of jobs and all cadences, days and  *)
(* bounds that satisfy its two assumptions.                                *)
(***************************************************************************)
EXTENDS Watchdog, TLAPS

-----------------------------------------------------------------------------
(* Types.                                                                  *)

LEMMA Numbers ==
  /\ Cadence \in Nat /\ Factor \in Nat /\ Day \in Nat /\ Slack \in Nat
  /\ Beat \in Nat /\ MaxRun \in Nat /\ Old \in Nat
  /\ Cadence > 0 /\ Day > 0 /\ Beat > 0
BY WatchdogAssumption

LEMMA IntervalGap ==
  ASSUME NEW j \in Interval
  PROVE  /\ MaxGap(j) \in Nat /\ 3 * Cadence <= MaxGap(j)
         /\ 3 * Cadence < Old
<1>1. MaxGap(j) = Factor * Cadence /\ MaxGap(j) < Old
  BY WatchdogAssumption DEF MaxGap, Jobs
<1>2. Factor * Cadence \in Nat /\ 3 * Cadence <= Factor * Cadence
  BY Numbers, TimingAssumption
<1>3. QED
  BY <1>1, <1>2, Numbers

LEMMA DailyGap ==
  ASSUME NEW j \in Daily
  PROVE  /\ MaxGap(j) \in Nat /\ Day + MaxRun <= MaxGap(j)
         /\ Day + MaxRun < Old
<1>1. MaxGap(j) = Day + Slack /\ MaxGap(j) < Old
  BY WatchdogAssumption DEF MaxGap, Jobs
<1>2. QED
  BY <1>1, Numbers, TimingAssumption

\* Ages that are not told apart are beyond anything judged or caught up.
LEMMA OldIsLate ==
  /\ MaxRun < Old
  /\ \A j \in Interval : 3 * Cadence < Old
  /\ \A j \in Daily : Day + MaxRun < Old
<1>1. \A j \in Interval : 3 * Cadence < Old
  BY IntervalGap, Zenon
<1>2. \A j \in Daily : Day + MaxRun < Old
  BY DailyGap, Zenon
<1>3. \E j : j \in Interval \/ j \in Daily
  BY WatchdogAssumption DEF Jobs
<1>4. QED
  BY <1>1, <1>2, <1>3, Numbers, TimingAssumption

BeatType == [due : 0..Beat, pc : {"idle", "ping", "tell", "mark"},
             word : {"stalled", "recovered"}]

LEMMA NextSlotType ==
  ASSUME TypeOK, NEW j \in Jobs
  PROVE  NextSlot(j) \in Nat /\ NextSlot(j) > 0 /\ NextSlot(j) <= CatchUpAfter(j)
<1>1. CASE j \in Interval
  BY <1>1, Numbers DEF NextSlot, CatchUpAfter
<1>2. CASE j \notin Interval
  <2>1. clock \in 0..(Day - 1)
    BY DEF TypeOK
  <2>2. NextSlot(j) = Day - clock /\ CatchUpAfter(j) = Day
    BY <1>2 DEF NextSlot, CatchUpAfter
  <2>3. QED
    BY <2>1, <2>2, Numbers
<1>3. QED
  BY <1>1, <1>2

LEMMA MissType ==
  ASSUME TypeOK, NEW J
  PROVE  /\ Miss(missed, J) \in [Jobs -> 0..2]
         /\ \A j \in Jobs :
              /\ Miss(missed, J)[j] >= missed[j]
              /\ j \in J => Miss(missed, J)[j] > 0
              /\ j \in J /\ missed[j] > 0 => Miss(missed, J)[j] > 1
              /\ j \notin J => Miss(missed, J)[j] = missed[j]
<1>1. missed \in [Jobs -> 0..2]
  BY DEF TypeOK
<1>2. \A j \in Jobs : missed[j] \in 0..2
  BY <1>1
<1>3. QED
  BY <1>2 DEF Miss

\* TypeOK in three parts; the provers take truth values best on their own.
JobsOK ==
  /\ last \in [Jobs -> 0..Never]
  /\ due \in [Jobs -> Nat] /\ \A j \in Jobs : due[j] <= CatchUpAfter(j)
  /\ run \in [Jobs -> 0..(MaxRun + 1)]
  /\ missed \in [Jobs -> 0..2] /\ restarted \subseteq Jobs

WatchOK ==
  /\ clock \in 0..(Day - 1) /\ age \in 0..Old
  /\ beat \in BeatType
  /\ told \in {"nothing", "stalled", "recovered"}

FlagsOK == up \in BOOLEAN /\ alerted \in BOOLEAN /\ astray \in BOOLEAN

LEMMA TypeParts == TypeOK <=> JobsOK /\ WatchOK /\ FlagsOK
BY DEF TypeOK, JobsOK, WatchOK, FlagsOK, BeatType

LEMMA InitType == Init => TypeOK
<1> SUFFICES ASSUME Init PROVE TypeOK
  OBVIOUS
<1>1. JobsOK
  BY Numbers DEF Init, JobsOK, Never, CatchUpAfter
<1>2. WatchOK
  BY Numbers DEF Init, WatchOK, BeatType, Idle
<1>3. FlagsOK
  BY Zenon DEF Init, FlagsOK
<1>4. QED
  BY <1>1, <1>2, <1>3, TypeParts

\* A flag is set to a truth value or stays.
LEMMA FlagsStep == TypeOK /\ [Next]_vars => FlagsOK'
<1> SUFFICES ASSUME FlagsOK, [Next]_vars PROVE FlagsOK'
  BY TypeParts
<1>1. CASE \E j \in Jobs : Run(j)
  BY <1>1, Zenon DEF Run, Fire, Succeed, Fail, FlagsOK, messages
<1>2. CASE Judge \/ Ping
  BY <1>2, Zenon DEF Judge, Ping, FlagsOK, messages
<1>3. CASE Mark
  BY <1>3, Zenon DEF Mark, FlagsOK
<1>4. ASSUME NEW arrives \in BOOLEAN, Tell(arrives) PROVE FlagsOK'
  BY <1>4, Zenon DEF Tell, FlagsOK
<1>5. CASE Start \/ Stop \/ Tick
  BY <1>5, Zenon DEF Start, Stop, Tick, FlagsOK, messages
<1>6. CASE Die
  BY <1>6, Zenon DEF Die, FlagsOK
<1>7. CASE UNCHANGED vars
  BY <1>7, Zenon DEF vars, FlagsOK
<1>8. QED
  BY <1>1, <1>2, <1>3, <1>4, <1>5, <1>6, <1>7 DEF Next, Watch

LEMMA JobsStep == TypeOK /\ [Next]_vars => JobsOK'
<1> SUFFICES ASSUME TypeOK, [Next]_vars PROVE JobsOK'
  OBVIOUS
<1>1. JobsOK
  BY TypeParts
<1>2. \A j \in Jobs : due[j] \in Nat /\ CatchUpAfter(j) \in Nat /\ run[j] \in 0..(MaxRun + 1)
  BY <1>1, Numbers DEF JobsOK, CatchUpAfter
<1>3. ASSUME NEW j \in Jobs, Fire(j) PROVE JobsOK'
  <2>1. /\ due' \in [Jobs -> Nat]
        /\ \A i \in Jobs : due'[i] <= CatchUpAfter(i)
    BY <1>1, <1>3, NextSlotType DEF Fire, JobsOK
  <2>2. run' \in [Jobs -> 0..(MaxRun + 1)]
    BY <1>1, <1>2, <1>3, Numbers DEF Fire, JobsOK
  <2>3. QED
    BY <1>1, <1>3, <2>1, <2>2 DEF Fire, JobsOK
<1>4. ASSUME NEW j \in Jobs, Succeed(j) PROVE JobsOK'
  BY <1>1, <1>4, Numbers DEF Succeed, JobsOK, Never
<1>5. ASSUME NEW j \in Jobs, Fail(j) PROVE JobsOK'
  <2>1. missed' \in [Jobs -> 0..2]
    BY <1>5, MissType DEF Fail
  <2>2. run' \in [Jobs -> 0..(MaxRun + 1)]
    BY <1>1, <1>5, Numbers DEF Fail, JobsOK
  <2>3. QED
    BY <1>1, <1>5, <2>1, <2>2 DEF Fail, JobsOK
<1>6. CASE Watch
  BY <1>1, <1>6 DEF Watch, Judge, Ping, Tell, Mark, jobs, JobsOK
<1>7. CASE Start
  <2>1. /\ due' \in [Jobs -> Nat]
        /\ \A i \in Jobs : due'[i] <= CatchUpAfter(i)
    BY <1>2, <1>7, NextSlotType DEF Start
  <2>2. QED
    BY <1>1, <1>7, <2>1 DEF Start, JobsOK
<1>8. CASE Stop
  BY <1>1, <1>2, <1>8 DEF Stop, JobsOK
<1>9. CASE Die
  <2>1. missed' \in [Jobs -> 0..2]
    BY <1>9, MissType DEF Die
  <2>2. QED
    BY <1>1, <1>2, <1>9, <2>1, Numbers DEF Die, JobsOK
<1>10. CASE Tick
  <2>1. last' \in [Jobs -> 0..Never]
    BY <1>1, <1>10, Numbers DEF Tick, JobsOK, Older, Never
  <2>2. \A i \in Jobs : due'[i] \in Nat /\ due'[i] <= due[i]
    BY <1>2, <1>10 DEF Tick, Earlier
  <2>3. run' \in [Jobs -> 0..(MaxRun + 1)]
    BY <1>2, <1>10, Numbers DEF Tick
  <2>4. QED
    BY <1>1, <1>2, <1>10, <2>1, <2>2, <2>3 DEF Tick, JobsOK
<1>11. CASE UNCHANGED vars
  BY <1>1, <1>11 DEF vars, JobsOK
<1>12. QED
  BY <1>3, <1>4, <1>5, <1>6, <1>7, <1>8, <1>9, <1>10, <1>11 DEF Next, Run

LEMMA WatchStep == TypeOK /\ [Next]_vars => WatchOK'
<1> SUFFICES ASSUME WatchOK, [Next]_vars PROVE WatchOK'
  BY TypeParts
<1>1. beat.due \in 0..Beat
  BY DEF WatchOK, BeatType
<1>2. CASE \E j \in Jobs : Run(j)
  BY <1>2 DEF Run, Fire, Succeed, Fail, WatchOK, messages
<1>3. CASE Judge
  BY <1>3, Numbers DEF Judge, WatchOK, BeatType, Idle, messages
<1>4. CASE Ping
  BY <1>1, <1>4 DEF Ping, WatchOK, BeatType, Idle, messages
<1>5. ASSUME NEW arrives \in BOOLEAN, Tell(arrives) PROVE WatchOK'
  BY <1>5 DEF Tell, WatchOK, BeatType
<1>6. CASE Mark
  BY <1>1, <1>6 DEF Mark, WatchOK, BeatType, Idle
<1>7. CASE Start
  BY <1>7, Numbers DEF Start, WatchOK, BeatType, Idle, messages
<1>8. CASE Stop
  BY <1>8, Numbers DEF Stop, WatchOK, BeatType, messages
<1>9. CASE Die
  BY <1>9, Numbers DEF Die, WatchOK, BeatType, Idle
<1>10. CASE Tick
  <2>1. clock' \in 0..(Day - 1)
    BY <1>10, Numbers DEF Tick, WatchOK, BeatType
  <2>2. age' \in 0..Old
    BY <1>10, Numbers DEF Tick, WatchOK, BeatType, Older
  <2>3. beat' \in BeatType
    BY <1>1, <1>10, Numbers DEF Tick, WatchOK, BeatType, Earlier
  <2>4. QED
    BY <1>10, <2>1, <2>2, <2>3 DEF Tick, WatchOK, BeatType, messages
<1>11. CASE UNCHANGED vars
  BY <1>11 DEF vars, WatchOK
<1>12. QED
  BY <1>2, <1>3, <1>4, <1>5, <1>6, <1>7, <1>8, <1>9, <1>10, <1>11 DEF Next, Watch

\* Every variable keeps to its type.
THEOREM TypeCorrect == Spec => []TypeOK
<1>1. TypeOK /\ [Next]_vars => TypeOK'
  BY FlagsStep, JobsStep, WatchStep
  DEF TypeOK, JobsOK, WatchOK, FlagsOK, BeatType, CatchUpAfter
<1>2. QED
  BY InitType, <1>1, PTL DEF Spec
-----------------------------------------------------------------------------
(* The inductive invariant.                                                *)

\* What the row knows: it agrees with what the owner was told last, except
\* between a message and its row; and a message is due only if it does not.
RowAgrees ==
  /\ beat.pc \in {"idle", "ping"} => beat.word = "recovered"
  /\ beat.pc = "tell" => (beat.word = "stalled" <=> ~alerted)
  /\ beat.pc = "mark" => astray \/ told = beat.word
  /\ beat.pc # "mark" => astray \/ (alerted <=> told = "stalled")

\* The watchdog does not judge before the runs of a start are over.
BeatIsLater == up /\ age <= MaxRun => beat.due + age = Beat

Excused(j) == missed[j] > 1 \/ (missed[j] > 0 /\ j \in restarted)

\* A job that was overdue at the start runs, or is about to.
CatchingUp(j) ==
  /\ j \in restarted
  /\ \/ run[j] = 0 /\ due[j] = 0 /\ age = 0
     \/ run[j] = age + 1

\* How late a success may come: one cadence, one more if a run came to nothing or
\* the scheduler was started, and one more while the run that is due goes on.
Budget(j) ==
  Cadence + (IF missed[j] = 0 /\ j \notin restarted THEN 0 ELSE Cadence)
          + (IF run[j] = 0 THEN 0 ELSE Cadence)

IntervalOnTime(j) ==
  up => /\ run[j] > 0 => due[j] + run[j] = Cadence + 1
        /\ ~Excused(j) => CatchingUp(j) \/ last[j] + due[j] <= Budget(j)

DailyOnTime(j) ==
  up /\ missed[j] = 0 /\ j \notin restarted =>
    IF run[j] = 0 THEN last[j] + due[j] <= Day ELSE last[j] < Day + run[j]

IInv ==
  /\ RowAgrees
  /\ BeatIsLater
  /\ \A j \in Interval : IntervalOnTime(j)
  /\ \A j \in Daily : DailyOnTime(j)

-----------------------------------------------------------------------------
(* The row.                                                                *)

LEMMA RowStep == TypeOK /\ RowAgrees /\ [Next]_vars => RowAgrees'
<1> SUFFICES ASSUME TypeOK, RowAgrees, [Next]_vars PROVE RowAgrees'
  OBVIOUS
<1>1. beat \in BeatType /\ alerted \in BOOLEAN /\ astray \in BOOLEAN
  BY TypeParts DEF WatchOK, FlagsOK
<1>2. CASE Judge
  <2>1. beat.pc = "idle" /\ UNCHANGED <<alerted, told, astray>>
    BY <1>2 DEF Judge, messages
  <2>2. \/ beat'.pc \in {"ping", "idle"} /\ beat'.word = "recovered"
        \/ beat'.pc = "tell" /\ beat'.word = "stalled" /\ ~alerted
    BY <1>2 DEF Judge, Idle
  <2>3. QED
    BY <2>1, <2>2 DEF RowAgrees
<1>3. CASE Ping
  <2>1. beat.pc = "ping" /\ beat.word = "recovered" /\ UNCHANGED <<alerted, told, astray>>
    BY <1>3 DEF Ping, messages, RowAgrees
  <2>2. /\ beat'.word = "recovered"
        /\ beat'.pc = IF alerted THEN "tell" ELSE "idle"
    BY <1>1, <1>3, <2>1 DEF Ping, Idle, BeatType
  <2>3. QED
    BY <2>1, <2>2 DEF RowAgrees
<1>4. ASSUME NEW arrives \in BOOLEAN, Tell(arrives) PROVE RowAgrees'
  <2>1. beat'.pc = "mark" /\ beat'.word = beat.word
    BY <1>1, <1>4 DEF Tell, BeatType
  <2>2. astray' \/ told' = beat.word
    BY <1>4 DEF Tell
  <2>3. QED
    BY <2>1, <2>2 DEF RowAgrees
<1>5. CASE Mark
  <2>1. /\ beat.pc = "mark" /\ beat'.pc = "idle" /\ beat'.word = "recovered"
        /\ alerted' <=> beat.word = "stalled"
        /\ UNCHANGED <<told, astray>>
    BY <1>5 DEF Mark, Idle
  <2>2. QED
    BY <2>1 DEF RowAgrees
<1>6. CASE Die
  <2>1. /\ beat'.pc = "idle" /\ beat'.word = "recovered"
        /\ UNCHANGED <<alerted, told>>
        /\ astray' <=> astray \/ beat.pc = "mark"
    BY <1>6 DEF Die, Idle
  <2>2. QED
    BY <2>1 DEF RowAgrees
<1>7. CASE Start
  <2>1. beat.pc = "idle" /\ beat'.pc = "idle" /\ beat'.word = "recovered"
        /\ UNCHANGED <<alerted, told, astray>>
    BY <1>7 DEF Start, Idle, NothingRuns, messages
  <2>2. QED
    BY <2>1 DEF RowAgrees
<1>8. CASE Stop \/ Tick
  <2>1. beat'.pc = beat.pc /\ beat'.word = beat.word /\ UNCHANGED <<alerted, told, astray>>
    BY <1>1, <1>8 DEF Stop, Tick, BeatType, messages
  <2>2. QED
    BY <2>1 DEF RowAgrees
<1>9. CASE (\E j \in Jobs : Run(j)) \/ UNCHANGED vars
  <2>1. UNCHANGED <<beat, alerted, told, astray>>
    BY <1>9 DEF Run, Fire, Succeed, Fail, messages, vars
  <2>2. QED
    BY <2>1 DEF RowAgrees
<1>10. QED
  BY <1>2, <1>3, <1>4, <1>5, <1>6, <1>7, <1>8, <1>9 DEF Next, Watch

-----------------------------------------------------------------------------
(* The timers.                                                             *)

LEMMA BeatStep == TypeOK /\ BeatIsLater /\ [Next]_vars => BeatIsLater'
<1> SUFFICES ASSUME TypeOK, BeatIsLater, [Next]_vars PROVE BeatIsLater'
  OBVIOUS
<1>1. beat \in BeatType /\ age \in 0..Old
  BY TypeParts DEF WatchOK
<1>2. beat.due \in Nat /\ age \in Nat
  BY <1>1 DEF BeatType
<1>3. CASE Judge
  BY <1>2, <1>3, Numbers, TimingAssumption DEF Judge, BeatIsLater
<1>4. ASSUME Ping \/ (\E arrives \in BOOLEAN : Tell(arrives)) \/ Mark PROVE BeatIsLater'
  <2>1. beat'.due = beat.due /\ UNCHANGED <<up, age>>
    BY <1>1, <1>4 DEF Ping, Tell, Mark, Idle, BeatType
  <2>2. QED
    BY <2>1 DEF BeatIsLater
<1>5. CASE Start
  BY <1>5, Numbers DEF Start, Idle, BeatIsLater
<1>6. CASE Stop \/ Die
  BY <1>6 DEF Stop, Die, BeatIsLater
<1>7. CASE Tick
  <2>1. CASE up
    <3>1. beat.due > 0 /\ beat'.due = beat.due - 1 /\ up' = up
      BY <1>1, <1>2, <1>7, <2>1 DEF Tick, BeatType, Earlier
    <3>2. age' = IF age < Old THEN age + 1 ELSE age
      BY <1>7, <2>1 DEF Tick, Older
    <3>3. ASSUME age = Old PROVE age > MaxRun
      BY <3>3, OldIsLate
    <3>4. QED
      BY <1>2, <3>1, <3>2, <3>3, <1>1, Numbers DEF BeatIsLater
  <2>2. CASE ~up
    BY <1>7, <2>2 DEF Tick, BeatIsLater
  <2>3. QED
    BY <2>1, <2>2
<1>8. CASE (\E j \in Jobs : Run(j)) \/ UNCHANGED vars
  <2>1. UNCHANGED <<beat, up, age>>
    BY <1>8 DEF Run, Fire, Succeed, Fail, vars
  <2>2. QED
    BY <2>1 DEF BeatIsLater
<1>9. QED
  BY <1>3, <1>4, <1>5, <1>6, <1>7, <1>8 DEF Next, Watch

\* What a step of another job, the watchdog or nobody leaves as it is.
LEMMA IntervalKept ==
  ASSUME NEW j, IntervalOnTime(j),
         UNCHANGED <<up, age>>, due'[j] = due[j], run'[j] = run[j],
         last'[j] = last[j], missed'[j] = missed[j],
         j \in restarted' <=> j \in restarted
  PROVE  IntervalOnTime(j)'
BY DEF IntervalOnTime, Excused, CatchingUp, Budget

LEMMA DailyKept ==
  ASSUME NEW j, DailyOnTime(j),
         up' = up, due'[j] = due[j], run'[j] = run[j],
         last'[j] = last[j], missed'[j] = missed[j],
         j \in restarted' <=> j \in restarted
  PROVE  DailyOnTime(j)'
BY DEF DailyOnTime

LEMMA JobTypes ==
  ASSUME TypeOK, NEW j \in Jobs
  PROVE  /\ last[j] \in Nat /\ last[j] <= Old + 1
         /\ due[j] \in Nat /\ due[j] <= CatchUpAfter(j) /\ CatchUpAfter(j) \in Nat
         /\ run[j] \in Nat /\ run[j] <= MaxRun + 1
         /\ missed[j] \in Nat
         /\ age \in Nat /\ age <= Old
BY TypeParts, Numbers DEF JobsOK, WatchOK, Never, CatchUpAfter

LEMMA IntervalStep ==
  ASSUME TypeOK, IInv, [Next]_vars, NEW j \in Interval
  PROVE  IntervalOnTime(j)'
<1>1. /\ j \in Jobs /\ CatchUpAfter(j) = Cadence /\ NextSlot(j) = Cadence
      /\ IntervalOnTime(j) /\ 3 * Cadence < Old
  BY OldIsLate DEF Jobs, CatchUpAfter, NextSlot, IInv
<1>2. /\ last[j] \in Nat /\ due[j] \in Nat /\ due[j] <= Cadence
      /\ run[j] \in Nat /\ run[j] <= MaxRun + 1 /\ run[j] <= Cadence
      /\ missed[j] \in Nat /\ age \in Nat
  BY <1>1, JobTypes, TimingAssumption, Numbers
<1>3. JobsOK
  BY TypeParts
<1>4. ASSUME NEW k \in Jobs, Run(k), k # j PROVE IntervalOnTime(j)'
  <2>1. /\ UNCHANGED <<up, age>>
        /\ due'[j] = due[j] /\ run'[j] = run[j] /\ last'[j] = last[j]
        /\ (j \in restarted' <=> j \in restarted)
    BY <1>1, <1>3, <1>4 DEF Run, Fire, Succeed, Fail, JobsOK
  <2>2. missed'[j] = missed[j]
    BY <1>1, <1>3, <1>4, MissType DEF Run, Fire, Succeed, Fail, JobsOK
  <2>3. QED
    BY <1>1, <2>1, <2>2, IntervalKept
<1>5. CASE Fire(j)
  <2>1. up /\ due[j] = 0 /\ run[j] = 0
    BY <1>1, <1>2, <1>5, Numbers DEF Fire, IntervalOnTime
  <2>2. /\ UNCHANGED <<up, age, last, missed, restarted>>
        /\ due'[j] = Cadence /\ run'[j] = 1
    BY <1>1, <1>3, <1>5, <2>1 DEF Fire, JobsOK
  <2>3. QED
    BY <1>1, <1>2, <2>1, <2>2, Numbers
    DEF IntervalOnTime, Excused, CatchingUp, Budget
<1>6. CASE Succeed(j)
  <2>1. /\ up' = up /\ due' = due /\ run'[j] = 0 /\ last'[j] = 0
        /\ missed'[j] = 0 /\ j \notin restarted'
    BY <1>1, <1>3, <1>6 DEF Succeed, JobsOK
  <2>2. QED
    BY <1>2, <2>1, Numbers DEF IntervalOnTime, Excused, CatchingUp, Budget
<1>7. CASE Fail(j)
  <2>1. /\ UNCHANGED <<up, age, due, last, restarted>>
        /\ run[j] > 0 /\ run'[j] = 0
    BY <1>1, <1>3, <1>7 DEF Fail, JobsOK
  <2>2. missed'[j] > 0 /\ (missed[j] > 0 => missed'[j] > 1)
    BY <1>1, <1>7, MissType DEF Fail
  <2>3. CASE missed[j] > 0 \/ j \in restarted
    <3>1. Excused(j)'
      BY <2>1, <2>2, <2>3 DEF Excused
    <3>2. QED
      BY <2>1, <3>1 DEF IntervalOnTime
  <2>4. CASE missed[j] = 0 /\ j \notin restarted
    <3>1. up => last[j] + due[j] <= Cadence + Cadence
      BY <1>1, <1>2, <2>1, <2>4, Numbers
      DEF IntervalOnTime, Excused, CatchingUp, Budget
    <3>2. Budget(j)' = Cadence + Cadence
      BY <2>1, <2>2, <2>4, Numbers DEF Budget
    <3>3. QED
      BY <2>1, <3>1, <3>2 DEF IntervalOnTime
  <2>5. QED
    BY <1>2, <2>3, <2>4
<1>8. CASE Watch \/ UNCHANGED vars
  <2>1. UNCHANGED <<up, age, last, due, run, missed, restarted>>
    BY <1>8 DEF Watch, Judge, Ping, Tell, Mark, jobs, vars
  <2>2. QED
    BY <1>1, <2>1, IntervalKept
<1>9. CASE Start
  <2>1. /\ up' /\ age' = 0 /\ run'[j] = 0 /\ last' = last /\ missed' = missed
        /\ j \in restarted'
        /\ due'[j] = IF Overdue(j) THEN 0 ELSE Cadence
    BY <1>1, <1>9 DEF Start, NothingRuns
  <2>2. ~Overdue(j) => last[j] <= Cadence
    BY <1>1, <1>2, Numbers DEF Overdue
  <2>3. QED
    BY <1>2, <2>1, <2>2, Numbers DEF IntervalOnTime, Excused, CatchingUp, Budget
<1>10. CASE Stop \/ Die
  BY <1>10 DEF Stop, Die, IntervalOnTime
<1>11. CASE Tick
  <2>1. CASE ~up
    BY <1>11, <2>1 DEF Tick, IntervalOnTime
  <2>2. CASE up
    <3>1. /\ up' /\ missed' = missed /\ restarted' = restarted
          /\ due[j] > 0 /\ due'[j] = due[j] - 1 /\ run[j] <= MaxRun
          /\ run'[j] = IF run[j] = 0 THEN 0 ELSE run[j] + 1
      BY <1>1, <1>2, <1>11, <2>2 DEF Tick, Earlier
    <3>2. last'[j] = last[j] + 1 \/ last[j] >= Old
      BY <1>1, <1>2, <1>11, Numbers DEF Tick, Older, Never
    <3>3. age' = IF age < Old THEN age + 1 ELSE age
      BY <1>11, <2>2 DEF Tick, Older
    <3>4. run'[j] > 0 => due'[j] + run'[j] = Cadence + 1
      BY <1>1, <1>2, <2>2, <3>1, Numbers DEF IntervalOnTime
    <3>5. CASE Excused(j)
      <4>1. Excused(j)'
        BY <3>1, <3>5 DEF Excused
      <4>2. QED
        BY <3>4, <4>1 DEF IntervalOnTime
    <3>6. CASE CatchingUp(j)
      <4>1. run[j] = age + 1 /\ age < Old
        BY <1>2, <3>1, <3>6, OldIsLate, Numbers DEF CatchingUp
      <4>2. run'[j] = age' + 1
        BY <1>2, <3>1, <3>3, <4>1
      <4>3. QED
        BY <3>1, <3>4, <3>6, <4>2 DEF IntervalOnTime, CatchingUp
    <3>7. CASE last[j] + due[j] <= Budget(j)
      <4>1. Budget(j)' = Budget(j) /\ Budget(j) \in Nat /\ Budget(j) < Old
        BY <1>1, <1>2, <3>1, Numbers DEF Budget
      <4>2. last'[j] + due'[j] <= Budget(j)'
        BY <1>2, <3>1, <3>2, <3>7, <4>1, Numbers
      <4>3. QED
        BY <1>2, <3>1, <3>4, <4>2 DEF IntervalOnTime
    <3>8. QED
      BY <1>1, <2>2, <3>5, <3>6, <3>7 DEF IntervalOnTime
  <2>3. QED
    BY <2>1, <2>2
<1>12. QED
  BY <1>4, <1>5, <1>6, <1>7, <1>8, <1>9, <1>10, <1>11 DEF Next, Run

LEMMA DailyStep ==
  ASSUME TypeOK, IInv, [Next]_vars, NEW j \in Daily
  PROVE  DailyOnTime(j)'
<1>1. j \in Jobs /\ j \notin Interval /\ CatchUpAfter(j) = Day /\ DailyOnTime(j)
      /\ Day + MaxRun < Old
  BY OldIsLate, WatchdogAssumption DEF Jobs, CatchUpAfter, IInv
<1>2. /\ last[j] \in Nat /\ due[j] \in Nat /\ due[j] <= Day
      /\ run[j] \in Nat /\ run[j] <= MaxRun + 1 /\ missed[j] \in Nat
  BY <1>1, JobTypes
<1>3. JobsOK
  BY TypeParts
<1>4. ASSUME NEW k \in Jobs, Run(k), k # j PROVE DailyOnTime(j)'
  <2>1. /\ up' = up
        /\ due'[j] = due[j] /\ run'[j] = run[j] /\ last'[j] = last[j]
        /\ (j \in restarted' <=> j \in restarted)
    BY <1>1, <1>3, <1>4 DEF Run, Fire, Succeed, Fail, JobsOK
  <2>2. missed'[j] = missed[j]
    BY <1>1, <1>3, <1>4, MissType DEF Run, Fire, Succeed, Fail, JobsOK
  <2>3. QED
    BY <1>1, <2>1, <2>2, DailyKept
<1>5. CASE Fire(j)
  <2>1. /\ UNCHANGED <<up, last, missed, restarted>> /\ due[j] = 0
        /\ run'[j] = IF run[j] = 0 THEN 1 ELSE run[j]
    BY <1>1, <1>3, <1>5 DEF Fire, JobsOK
  <2>2. QED
    BY <1>1, <1>2, <2>1, Numbers DEF DailyOnTime
<1>6. CASE Succeed(j)
  <2>1. due' = due /\ run'[j] = 0 /\ last'[j] = 0
    BY <1>1, <1>3, <1>6 DEF Succeed, JobsOK
  <2>2. QED
    BY <1>2, <2>1, Numbers DEF DailyOnTime
<1>7. CASE Fail(j)
  <2>1. missed'[j] > 0
    BY <1>1, <1>7, MissType DEF Fail
  <2>2. QED
    BY <2>1 DEF DailyOnTime
<1>8. CASE Watch \/ UNCHANGED vars
  <2>1. UNCHANGED <<up, last, due, run, missed, restarted>>
    BY <1>8 DEF Watch, Judge, Ping, Tell, Mark, jobs, vars
  <2>2. QED
    BY <1>1, <2>1, DailyKept
<1>9. CASE Start
  BY <1>1, <1>9 DEF Start, DailyOnTime
<1>10. CASE Stop \/ Die
  BY <1>10 DEF Stop, Die, DailyOnTime
<1>11. CASE Tick
  <2>1. CASE ~up
    BY <1>11, <2>1 DEF Tick, DailyOnTime
  <2>2. CASE up
    <3>1. /\ missed' = missed /\ restarted' = restarted
          /\ due[j] > 0 /\ due'[j] = due[j] - 1 /\ run[j] <= MaxRun
          /\ run'[j] = IF run[j] = 0 THEN 0 ELSE run[j] + 1
      BY <1>1, <1>2, <1>11, <2>2 DEF Tick, Earlier
    <3>2. last'[j] = last[j] + 1 \/ last[j] >= Old
      BY <1>1, <1>2, <1>11, Numbers DEF Tick, Older, Never
    <3>3. QED
      BY <1>1, <1>2, <2>2, <3>1, <3>2, Numbers DEF DailyOnTime
  <2>3. QED
    BY <2>1, <2>2
<1>12. QED
  BY <1>4, <1>5, <1>6, <1>7, <1>8, <1>9, <1>10, <1>11 DEF Next, Run

-----------------------------------------------------------------------------
(* The theorems.                                                           *)

\* IInv holds in every reachable state.
THEOREM Inductive == Spec => [](TypeOK /\ IInv)
<1>1. Init => IInv
  BY DEF Init, Idle, IInv, RowAgrees, BeatIsLater, IntervalOnTime, DailyOnTime
<1>2. TypeOK /\ IInv /\ [Next]_vars => IInv'
  <2> SUFFICES ASSUME TypeOK, IInv, [Next]_vars PROVE IInv'
    OBVIOUS
  <2>1. RowAgrees' /\ BeatIsLater'
    BY RowStep, BeatStep DEF IInv
  <2>2. \A j \in Interval : IntervalOnTime(j)'
    BY IntervalStep
  <2>3. \A j \in Daily : DailyOnTime(j)'
    BY DailyStep
  <2>4. QED
    BY <2>1, <2>2, <2>3 DEF IInv
<1>3. QED
  BY <1>1, <1>2, TypeCorrect, PTL DEF Spec

\* Neither a stall nor its end is announced twice in a row, unless a message went
\* astray or the process died between a message and its row.
THEOREM AnnouncedOnce == Spec => NeverAStream
<1>1. TypeOK /\ IInv /\ [Next]_vars =>
        [(\E arrives \in BOOLEAN : Tell(arrives)) => astray \/ told # beat.word]_vars
  <2> SUFFICES ASSUME TypeOK, IInv, NEW arrives \in BOOLEAN, Tell(arrives)
               PROVE  astray \/ told # beat.word
    OBVIOUS
  <2>1. beat.pc = "tell" /\ beat.word \in {"stalled", "recovered"}
    BY TypeParts DEF Tell, WatchOK, BeatType
  <2>2. QED
    BY <2>1 DEF IInv, RowAgrees
<1>2. QED
  BY <1>1, Inductive, PTL DEF Spec, NeverAStream

\* Whatever the cadences, the watchdog reports an interval job only after two
\* setbacks and a daily one only after a setback.
THEOREM AlarmsAreCaused == Spec => AlarmsHaveACause
<1>1. ASSUME TypeOK, IInv, Judge, NEW j \in Interval, Stale(j)
      PROVE  missed[j] > 0 /\ (missed[j] > 1 \/ j \in restarted)
  <2>1. /\ last[j] \in Nat /\ due[j] \in Nat /\ run[j] \in Nat
        /\ run[j] <= MaxRun + 1 /\ missed[j] \in Nat /\ age \in Nat
    BY <1>1, JobTypes DEF Jobs
  <2>2. up /\ beat.due = 0
    BY <1>1 DEF Judge
  <2>3. age > MaxRun
    BY <1>1, <2>1, <2>2, Numbers, TimingAssumption DEF IInv, BeatIsLater
  <2>4. ~CatchingUp(j)
    BY <2>1, <2>3, Numbers DEF CatchingUp
  <2>5. last[j] > 3 * Cadence
    BY <1>1, <2>1, IntervalGap, Numbers DEF Stale, Never
  <2>6. Excused(j)
    BY <1>1, <2>1, <2>2, <2>4, <2>5, Numbers DEF IInv, IntervalOnTime, Budget
  <2>7. QED
    BY <2>1, <2>6 DEF Excused
<1>2. ASSUME TypeOK, IInv, Judge, NEW j \in Daily, Stale(j)
      PROVE  missed[j] > 0 \/ j \in restarted
  <2>1. /\ last[j] \in Nat /\ due[j] \in Nat /\ run[j] \in Nat
        /\ run[j] <= MaxRun + 1 /\ missed[j] \in Nat
    BY <1>2, JobTypes DEF Jobs
  <2>2. last[j] > Day + MaxRun
    BY <1>2, <2>1, DailyGap, Numbers DEF Stale, Never
  <2>3. QED
    BY <1>2, <2>1, <2>2, Numbers DEF IInv, DailyOnTime, Judge
<1>3. TypeOK /\ IInv /\ [Next]_vars =>
        [Judge => \A j \in StaleJobs :
           /\ j \in Interval => missed[j] > 0 /\ (missed[j] > 1 \/ j \in restarted)
           /\ j \in Daily => missed[j] > 0 \/ j \in restarted]_vars
  BY <1>1, <1>2 DEF StaleJobs
<1>4. QED
  BY <1>3, Inductive, PTL DEF Spec, AlarmsHaveACause
=============================================================================
