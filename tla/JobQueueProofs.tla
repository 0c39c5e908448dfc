--------------------------- MODULE JobQueueProofs ---------------------------
(***************************************************************************)
(* The job queue and the page beside it, for every number of runs, limit   *)
(* of the history, size of the bus and order of the answers.               *)
(*                                                                         *)
(* 1. OneAtATime speaks of the runs that started.  That starting another   *)
(* one keeps it depends on who is waiting: the queue is in order           *)
(* (InOrder), a run that waits is in the queue or in one of two hands      *)
(* (Whereabouts), a run in progress is the worker's (Whereabouts), and a   *)
(* run in hand comes after everything in the queue, or before it (Hands).  *)
(*                                                                         *)
(* 2. HistoryIsKept, from what the registry remembers (Remembered) and     *)
(* from OneAtATime: behind a run that has not ended none has.              *)
(*                                                                         *)
(* 3. QuietPageIsRight, from what is under way to the page when it is not  *)
(* quiet (EventsEndRight, RightInTheEnd).                                  *)
(*                                                                         *)
(* 4. The types, with the bounds of the bus and of what is under way       *)
(* (Bounds).                                                               *)
(***************************************************************************)
EXTENDS JobPage, SequenceTheorems, WellFoundedInduction, TLAPS

Typed ==
  /\ status \in [Runs -> Status \union {"new"}]
  /\ queue \in Seq(Runs \union {None})
  /\ request = [at |-> request.at, run |-> request.run, saw |-> request.saw]
  /\ worker \in [at : {"none", "check", "get", "start", "announce", "work",
                       "announceEnd", "nudge", "dead", "ended"},
                 run : Runs \union {None}]

Busy == {"announce", "work", "announceEnd", "nudge", "dead"}

InQueue(r) == \E i \in DOMAIN queue : queue[i] = r

\* The runs are submitted in order, and taken in order.
InOrder ==
  /\ \A r, s \in Runs : r < s /\ status[s] # "new" => status[r] # "new"
  /\ \A i, j \in DOMAIN queue :
       i < j /\ queue[i] # None /\ queue[j] # None => queue[i] < queue[j]
  /\ \A i \in DOMAIN queue : queue[i] # None => status[queue[i]] = "queued"

Whereabouts ==
  \A r \in Runs :
    /\ status[r] = "queued" =>
         \/ InQueue(r)
         \/ request.at = "registered" /\ request.run = r
         \/ worker.at = "start" /\ worker.run = r
    /\ status[r] = "running" => worker.at \in Busy /\ worker.run = r

Hands ==
  /\ request.at = "registered" =>
       /\ request.run \in Runs /\ status[request.run] = "queued"
       /\ ~InQueue(request.run)
       /\ ~(worker.at = "start" /\ worker.run = request.run)
       /\ \A s \in Runs : request.run < s => status[s] = "new"
  /\ worker.at = "start" =>
       /\ worker.run \in Runs /\ status[worker.run] = "queued"
       /\ ~InQueue(worker.run)
       /\ \A r \in Runs : r < worker.run => status[r] \in Ended
  /\ worker.at \in Busy => worker.run \in Runs /\ Started(worker.run)
  /\ worker.at \in {"announceEnd", "nudge"} =>
       status[worker.run] \in Ended \/ worker.run \in unparsable

IInv == Typed /\ InOrder /\ Whereabouts /\ Hands /\ OneAtATime

-----------------------------------------------------------------------------
LEMMA InitOrdered == JobInit => IInv
<1> SUFFICES ASSUME JobInit PROVE IInv
  OBVIOUS
<1>1. queue = <<>> /\ DOMAIN queue = {}
  BY DEF JobInit
<1>2. Typed
  BY <1>1 DEF JobInit, Typed, Status, None
<1>3. InOrder /\ Whereabouts /\ Hands /\ OneAtATime
  BY <1>1 DEF JobInit, InOrder, Whereabouts, Hands, OneAtATime, Busy, Started, None
<1> QED BY <1>2, <1>3 DEF IInv

\* A step that leaves the statuses and the queue, and neither begins nor ends
\* anything that is in hand.
LEMMA Bystander ==
  ASSUME IInv, Typed', UNCHANGED <<status, queue>>,
         request' = request \/ (request.at # "registered" /\ request'.at # "registered"),
         unparsable' = unparsable,
         \/ worker' = worker
         \/ /\ worker.at \in Busy /\ worker'.at \in Busy /\ worker'.run = worker.run
            /\ \/ worker'.at \notin {"announceEnd", "nudge"}
               \/ worker.at \in {"announceEnd", "nudge"} \/ worker.run \in unparsable
         \/ /\ worker.at \in Busy \ {"dead"} /\ status[worker.run] \in Ended
            /\ worker'.at \notin Busy \union {"start"}
         \/ /\ worker.at \notin Busy \union {"start"}
            /\ worker'.at \notin Busy \union {"start"}
  PROVE  IInv'
<1>1. InOrder' /\ OneAtATime'
  BY DEF IInv, InOrder, OneAtATime, Started
<1>2. \A r : InQueue(r)' <=> InQueue(r)
  BY DEF InQueue
<1>3. Whereabouts'
  BY <1>2 DEF IInv, Whereabouts, Busy, Ended
<1>4. Hands'
  BY <1>2 DEF IInv, Hands, Busy, Started
<1> QED BY <1>1, <1>3, <1>4 DEF IInv

LEMMA SubmitKeeps ==
  ASSUME IInv, NEW r \in Runs, NEW week \in Weeks, Submit(r, week) PROVE IInv'
<1> USE DEF IInv
<1>1. /\ request.at = "idle" /\ status[r] = "new"
      /\ \A s \in 1..(r - 1) : status[s] # "new"
      /\ status' = [status EXCEPT ![r] = "queued"]
      /\ request' = [at |-> "registered", run |-> r, saw |-> "queued"]
      /\ UNCHANGED <<queue, worker>>
      /\ unparsable \subseteq unparsable'
  BY DEF Submit
<1>2. Typed'
  BY <1>1 DEF Typed, Status
<1>3. \A s \in Runs : status'[s] = IF s = r THEN "queued" ELSE status[s]
  BY <1>1 DEF Typed
<1>4. ~InQueue(r) /\ \A s : InQueue(s)' <=> InQueue(s)
  BY <1>1, JobQueueAssumption DEF InQueue, InOrder, Runs, None
<1>5. \A s \in Runs : r < s => status[s] = "new"
  BY <1>1 DEF InOrder
<1>6. InOrder'
  <2>1. \A i \in DOMAIN queue : queue[i] # None => status'[queue[i]] = "queued"
    BY <1>3, <1>4 DEF InOrder, Typed, InQueue
  <2>2. \A q, s \in Runs : q < s /\ status'[s] # "new" => status'[q] # "new"
    BY <1>1, <1>3, <1>5, JobQueueAssumption DEF InOrder, Runs
  <2> QED BY <2>1, <2>2, <1>1 DEF InOrder
<1>7. Whereabouts'
  BY <1>1, <1>3, <1>4 DEF Whereabouts
<1>8. Hands'
  <2>1. worker.run # r \/ (worker.at # "start" /\ worker.at \notin Busy)
    BY <1>1 DEF Hands, Started
  <2> QED BY <1>1, <1>3, <1>4, <1>5, <2>1, JobQueueAssumption
        DEF Hands, Started, Ended, Runs
<1>9. OneAtATime'
  BY <1>1, <1>3, <1>5 DEF OneAtATime, Started, Ended
<1> QED BY <1>2, <1>6, <1>7, <1>8, <1>9

LEMMA EnqueueKeeps == ASSUME IInv, Enqueue PROVE IInv'
<1> USE DEF IInv
<1>0. PICK r : r = request.run
  OBVIOUS
<1>1. /\ request.at = "registered" /\ request.run = r
      /\ queue' = Append(queue, r)
      /\ worker' = IF worker.at = "none" THEN [worker EXCEPT !.at = "check"] ELSE worker
      /\ request' = [request EXCEPT !.at = "queued"]
      /\ UNCHANGED <<status, unparsable>>
  BY <1>0 DEF Enqueue
<1>2. r \in Runs /\ status[r] = "queued" /\ ~InQueue(r)
      /\ \A s \in Runs : r < s => status[s] = "new"
  BY <1>1 DEF Hands
<1>3. Typed'
  <2>1. queue' \in Seq(Runs \union {None})
    BY <1>1, <1>2 DEF Typed
  <2>2. request' = [at |-> request'.at, run |-> request'.run, saw |-> request'.saw]
    BY <1>1 DEF Typed
  <2>3. worker' \in [at : {"none", "check", "get", "start", "announce", "work",
                          "announceEnd", "nudge", "dead", "ended"},
                    run : Runs \union {None}]
    BY <1>1 DEF Typed
  <2> QED BY <1>1, <2>1, <2>2, <2>3 DEF Typed
<1>4. /\ DOMAIN queue = 1..Len(queue) /\ Len(queue) \in Nat
      /\ DOMAIN queue' = 1..(Len(queue) + 1)
      /\ queue'[Len(queue) + 1] = r
      /\ \A i \in DOMAIN queue : queue'[i] = queue[i]
  BY <1>1, <1>2 DEF Typed
<1>5. /\ InQueue(r)'
      /\ \A s : s # r => (InQueue(s)' <=> InQueue(s))
  BY <1>4 DEF InQueue
<1>6. \A i \in DOMAIN queue : queue[i] # None => queue[i] < r
  <2> SUFFICES ASSUME NEW i \in DOMAIN queue, queue[i] # None PROVE queue[i] < r
    OBVIOUS
  <2>1. queue[i] \in Runs /\ queue[i] # r /\ status[queue[i]] # "new"
    BY <1>2 DEF Typed, InQueue, InOrder
  <2> QED BY <2>1, <1>2, JobQueueAssumption DEF Runs
<1>7. InOrder'
  BY <1>1, <1>2, <1>4, <1>6 DEF InOrder
<1>8. worker'.run = worker.run /\ (worker'.at = worker.at \/ (worker.at = "none" /\ worker'.at = "check"))
  BY <1>1 DEF Typed
<1>9. Whereabouts'
  BY <1>1, <1>5, <1>8 DEF Whereabouts, Busy
<1>10. request'.at = "queued"
  BY <1>1 DEF Typed
<1>11. Hands'
  BY <1>1, <1>5, <1>8, <1>10 DEF Hands, Busy, Started
<1>12. OneAtATime'
  BY <1>1 DEF OneAtATime, Started
<1> QED BY <1>3, <1>7, <1>9, <1>11, <1>12

LEMMA StopKeeps == ASSUME IInv, Stop PROVE IInv'
<1> USE DEF IInv
<1>1. /\ request.at = "idle" /\ queue' = Append(queue, None)
      /\ UNCHANGED <<status, unparsable, request, worker>>
  BY DEF Stop
<1>2. Typed'
  BY <1>1 DEF Typed
<1>3. /\ DOMAIN queue = 1..Len(queue) /\ Len(queue) \in Nat
      /\ DOMAIN queue' = 1..(Len(queue) + 1)
      /\ queue'[Len(queue) + 1] = None
      /\ \A i \in DOMAIN queue : queue'[i] = queue[i]
  BY <1>1 DEF Typed
<1>4. \A s \in Runs : InQueue(s)' <=> InQueue(s)
  BY <1>3 DEF InQueue, None, Runs
<1>5. InOrder'
  BY <1>1, <1>3 DEF InOrder
<1>6. Whereabouts' /\ Hands' /\ OneAtATime'
  BY <1>1, <1>4 DEF Whereabouts, Hands, OneAtATime, Started
<1> QED BY <1>2, <1>5, <1>6

LEMMA TakeKeeps == ASSUME IInv, Take PROVE IInv'
<1> USE DEF IInv
<1>0. PICK h : h = Head(queue)
  OBVIOUS
<1>1. /\ worker.at = "get" /\ queue # <<>> /\ Head(queue) = h
      /\ worker' = IF h = None THEN [at |-> "ended", run |-> None]
                   ELSE [at |-> "start", run |-> h]
      /\ queue' = Tail(queue)
      /\ UNCHANGED <<status, request>>
  BY <1>0 DEF Take
<1>2. /\ DOMAIN queue = 1..Len(queue) /\ Len(queue) \in Nat \ {0}
      /\ h = queue[1] /\ h \in Runs \union {None}
      /\ DOMAIN queue' = 1..(Len(queue) - 1)
      /\ \A i \in DOMAIN queue' : i + 1 \in DOMAIN queue /\ queue'[i] = queue[i + 1]
  BY <1>1 DEF Typed
<1>3. Typed'
  BY <1>1, <1>2 DEF Typed
<1>4. \A i \in DOMAIN queue : i # 1 => i - 1 \in DOMAIN queue' /\ queue'[i - 1] = queue[i]
  BY <1>2
<1>5. \A s : s # h => (InQueue(s)' <=> InQueue(s))
  BY <1>2, <1>4 DEF InQueue
<1>6. InOrder'
  <2>1. \A i, j \in DOMAIN queue' :
          i < j /\ queue'[i] # None /\ queue'[j] # None => queue'[i] < queue'[j]
    <3> SUFFICES ASSUME NEW i \in DOMAIN queue', NEW j \in DOMAIN queue', i < j,
                        queue'[i] # None, queue'[j] # None
                 PROVE  queue'[i] < queue'[j]
      OBVIOUS
    <3>1. i + 1 < j + 1 /\ i + 1 \in DOMAIN queue /\ j + 1 \in DOMAIN queue
      BY <1>2
    <3> QED BY <3>1, <1>2 DEF InOrder
  <2>2. \A i \in DOMAIN queue' : queue'[i] # None => status'[queue'[i]] = "queued"
    BY <1>1, <1>2 DEF InOrder
  <2> QED BY <2>1, <2>2, <1>1 DEF InOrder
<1>7. CASE h = None
  <2>1. worker'.at = "ended"
    BY <1>1, <1>7
  <2>2. \A s \in Runs : InQueue(s)' <=> InQueue(s)
    BY <1>5, <1>7 DEF None, Runs
  <2> QED BY <1>1, <1>3, <1>6, <2>1, <2>2
        DEF Whereabouts, Hands, OneAtATime, Started, Busy
<1>8. CASE h # None
  <2>1. worker'.at = "start" /\ worker'.run = h /\ h \in Runs /\ status[h] = "queued"
    BY <1>1, <1>2, <1>8 DEF InOrder
  <2>2. ~InQueue(h)'
    <3> SUFFICES ASSUME NEW i \in DOMAIN queue', queue'[i] = h PROVE FALSE
      BY DEF InQueue
    <3>1. queue[i + 1] = h /\ i + 1 \in DOMAIN queue /\ 1 < i + 1 /\ 1 \in DOMAIN queue
      BY <1>2
    <3>2. h < h
      BY <3>1, <1>2, <1>8 DEF InOrder
    <3> QED BY <3>2, <2>1, JobQueueAssumption DEF Runs
  <2>3. ASSUME NEW r \in Runs, r < h PROVE status[r] \in Ended
    <3>1. status[r] # "new"
      BY <2>1, <2>3 DEF InOrder
    <3>2. ~InQueue(r)
      <4> SUFFICES ASSUME NEW i \in DOMAIN queue, queue[i] = r PROVE FALSE
        BY DEF InQueue
      <4>1. i # 1 /\ 1 < i /\ 1 \in DOMAIN queue
        BY <2>3, <1>2, <2>1, JobQueueAssumption DEF Runs
      <4>2. r # None
        BY DEF Runs, None
      <4>3. h < r
        BY <4>1, <4>2, <1>2, <1>8 DEF InOrder
      <4> QED BY <4>3, <2>3, <2>1, JobQueueAssumption DEF Runs
    <3>3. ~(request.at = "registered" /\ request.run = r)
      BY <2>1, <2>3 DEF Hands
    <3>4. status[r] # "queued" /\ status[r] # "running"
      BY <3>2, <3>3, <1>1 DEF Whereabouts, Busy
    <3> QED BY <3>1, <3>4 DEF Typed, Status, Ended
  <2>4. Whereabouts'
    BY <1>1, <1>5, <2>1 DEF Whereabouts, Busy
  <2>5. InQueue(h)
    BY <1>2 DEF InQueue
  <2>6. Hands'
    BY <1>1, <1>5, <2>1, <2>2, <2>3, <2>5 DEF Hands, Busy
  <2> QED BY <1>1, <1>3, <1>6, <2>4, <2>6 DEF OneAtATime, Started
<1> QED BY <1>7, <1>8

LEMMA StartKeeps == ASSUME IInv, Start PROVE IInv'
<1> USE DEF IInv
<1> DEFINE w == worker.run
<1>1. /\ worker.at = "start"
      /\ status' = [status EXCEPT ![w] = "running"]
      /\ worker' = [worker EXCEPT !.at = "announce"]
      /\ UNCHANGED <<queue, request>>
  BY DEF Start
<1>2. /\ w \in Runs /\ status[w] = "queued" /\ ~InQueue(w)
      /\ \A r \in Runs : r < w => status[r] \in Ended
  BY <1>1 DEF Hands
<1>3. Typed'
  BY <1>1, <1>2 DEF Typed, Status
<1>4. worker'.at = "announce" /\ worker'.run = w
  BY <1>1 DEF Typed
<1>5. \A s \in Runs : status'[s] = IF s = w THEN "running" ELSE status[s]
  BY <1>1 DEF Typed
<1>6. \A s : InQueue(s)' <=> InQueue(s)
  BY <1>1 DEF InQueue
<1>7. InOrder'
  BY <1>1, <1>2, <1>5 DEF InOrder, InQueue, Typed
<1>8. Whereabouts'
  BY <1>1, <1>4, <1>5, <1>6 DEF Whereabouts, Busy
<1>9. Hands'
  BY <1>1, <1>2, <1>4, <1>5, <1>6 DEF Hands, Busy, Started
<1>10. OneAtATime'
  <2> SUFFICES ASSUME NEW r \in Runs, NEW s \in Runs, r < s, Started(s)'
               PROVE  status'[r] \in Ended
    BY DEF OneAtATime
  <2>1. CASE s = w
    BY <2>1, <1>2, <1>5, JobQueueAssumption DEF Runs
  <2>2. CASE s # w
    <3>1. status[r] \in Ended
      BY <2>2, <1>5 DEF OneAtATime, Started
    <3> QED BY <3>1, <1>2, <1>5 DEF Ended
  <2> QED BY <2>1, <2>2
<1> QED BY <1>3, <1>7, <1>8, <1>9, <1>10

LEMMA FinishKeeps == ASSUME IInv, NEW outcome \in Ended, Finish(outcome) PROVE IInv'
<1> USE DEF IInv
<1> DEFINE w == worker.run
<1>1. /\ worker.at = "work"
      /\ status' = [status EXCEPT ![w] = outcome]
      /\ worker' = [worker EXCEPT !.at = "announceEnd"]
      /\ UNCHANGED <<queue, request>>
  BY DEF Finish
<1>2. w \in Runs /\ Started(w)
  BY <1>1 DEF Hands, Busy
<1>3. Typed'
  BY <1>1, <1>2 DEF Typed, Status, Ended
<1>4. worker'.at = "announceEnd" /\ worker'.run = w
  BY <1>1 DEF Typed
<1>5. \A s \in Runs : status'[s] = IF s = w THEN outcome ELSE status[s]
  BY <1>1 DEF Typed
<1>6. \A s : InQueue(s)' <=> InQueue(s)
  BY <1>1 DEF InQueue
<1>7. status[w] \notin {"new", "queued"} /\ outcome \notin {"new", "queued", "running"}
  BY <1>2 DEF Started, Ended
<1>8. InOrder'
  BY <1>1, <1>5, <1>7 DEF InOrder, Typed
<1>9. Whereabouts'
  BY <1>1, <1>4, <1>5, <1>6, <1>7 DEF Whereabouts, Busy
<1>10. Hands'
  <2>1. request.at = "registered" => request.run # w
    BY <1>7 DEF Hands
  <2>2. request.at = "registered" => ~ (request.run < w)
    BY <1>7, <1>2 DEF Hands
  <2> QED BY <1>1, <1>2, <1>4, <1>5, <1>6, <1>7, <2>1, <2>2 DEF Hands, Busy, Started
<1>11. OneAtATime'
  BY <1>2, <1>5, <1>7 DEF OneAtATime, Started
<1> QED BY <1>3, <1>8, <1>9, <1>10, <1>11

\* The rest only moves the worker or the request on.
LEMMA OthersKeep ==
  ASSUME IInv,
         \/ ReadRun \/ PublishSubmitted \/ Emit \/ Check \/ ParserExits \/ Nudge
         \/ Announce("announce", "work") \/ Announce("announceEnd", "nudge")
         \/ UNCHANGED jobVars
  PROVE  IInv'
<1> USE DEF IInv
<1>1. CASE ReadRun
  <2>1. Typed'
    BY <1>1 DEF ReadRun, Typed
  <2> QED BY <1>1, <2>1, Bystander DEF ReadRun, Typed
<1>2. CASE PublishSubmitted
  <2>1. Typed'
    BY <1>2 DEF PublishSubmitted, Typed, Status
  <2> QED BY <1>2, <2>1, Bystander DEF PublishSubmitted, Typed
<1>3. CASE Emit \/ UNCHANGED jobVars
  <2>1. UNCHANGED <<status, unparsable, queue, request, worker>>
    BY <1>3 DEF Emit, jobVars
  <2>2. Typed'
    BY <2>1 DEF Typed
  <2> QED BY <2>1, <2>2, Bystander
<1>4. CASE Check
  <2>1. Typed'
    BY <1>4 DEF Check, Typed
  <2> QED BY <1>4, <2>1, Bystander DEF Check, Typed, Busy
<1>5. CASE ParserExits
  <2>1. Typed'
    BY <1>5 DEF ParserExits, Typed
  <2> QED BY <1>5, <2>1, Bystander DEF ParserExits, Typed, Busy
<1>6. CASE Announce("announce", "work") \/ Announce("announceEnd", "nudge")
  <2>1. Typed'
    BY <1>6 DEF Announce, Typed
  <2> QED BY <1>6, <2>1, Bystander DEF Announce, Typed, Busy
<1>7. CASE Nudge
  <2>1. CASE worker.run \in unparsable
    <3>1. Typed'
      BY <1>7, <2>1 DEF Nudge, Typed
    <3> QED BY <1>7, <2>1, <3>1, Bystander DEF Nudge, Typed, Busy
  <2>2. CASE worker.run \notin unparsable
    <3>1. worker' = [at |-> "check", run |-> None]
      BY <1>7, <2>2 DEF Nudge
    <3>2. Typed'
      BY <1>7, <3>1 DEF Nudge, Typed
    <3>3. worker.at \in Busy \ {"dead"} /\ status[worker.run] \in Ended
      BY <1>7, <2>2 DEF Nudge, Hands, Busy
    <3> QED BY <1>7, <3>1, <3>2, <3>3, Bystander DEF Nudge, Busy
  <2> QED BY <2>1, <2>2
<1> QED BY <1>1, <1>2, <1>3, <1>4, <1>5, <1>6, <1>7

\* The queue in order, every waiting run accounted for, and one run in progress:
\* the strengthened invariant, for every number of runs.
THEOREM Inductive == IInv /\ [JobNext]_jobVars => IInv'
BY SubmitKeeps, EnqueueKeeps, StopKeeps, TakeKeeps, StartKeeps, FinishKeeps, OthersKeep
   DEF JobNext, Submission, Steps

\* Runs happen one at a time and in the order in which they were submitted
\* (web/jobs.py: "Jobs run one at a time").
THEOREM OneRunAtATime == JobSpec => []OneAtATime
<1>1. IInv => OneAtATime
  BY DEF IInv
<1> QED BY InitOrdered, Inductive, <1>1, PTL DEF JobSpec

-----------------------------------------------------------------------------
(* The history.  It is newest first (Remembered), so that behind a run that *)
(* has not ended stand only runs that have not ended either (OneAtATime):   *)
(* cut at such a run, it has nothing left that it could have dropped.       *)

Registered(r) == \E i \in DOMAIN order : order[i] = r

Remembered ==
  /\ order \in Seq(Runs)
  /\ \A i, j \in DOMAIN order : i < j => order[j] < order[i]
  /\ \A i \in DOMAIN order : status[order[i]] # "new"
  /\ \A r \in Runs : status[r] \in {"queued", "running"} => Registered(r)

\* A set of naturals that has a bound and an element has a greatest element.
LEMMA Greatest ==
  ASSUME NEW n \in Nat, NEW S \in SUBSET (0..n), S # {}
  PROVE  /\ Max(S) \in S
         /\ \A y \in S : y <= Max(S)
<1>1. PICK R : R = OpToRel(<, Nat)
  OBVIOUS
<1>2. IsWellFoundedOn(R, Nat)
  BY <1>1, NatLessThanWellFounded
<1>3. \A x, y \in Nat : x < y => <<x, y>> \in R
  BY <1>1 DEF OpToRel
<1> DEFINE T == {n - y : y \in S}
<1>4. T \subseteq Nat /\ T # {}
  <2>1. \A y \in S : n - y \in Nat
    OBVIOUS
  <2>2. PICK y \in S : TRUE
    OBVIOUS
  <2>3. n - y \in T
    OBVIOUS
  <2> QED BY <2>1, <2>3
<1>5. PICK x \in T : \A y \in T : ~(<<y, x>> \in R)
  <2> HIDE DEF T
  <2> QED BY <1>2, <1>4, WFMin
<1>6. PICK m \in S : x = n - m
  BY <1>5
<1>7. ASSUME NEW y \in S PROVE m >= y
  <2>1. n - y \in T /\ n - y \in Nat /\ x \in Nat
    BY <1>4, <1>6
  <2>2. ~(n - y < x)
    BY <2>1, <1>3, <1>5
  <2> QED BY <2>1, <2>2, <1>6
<1>8. Max(S) \in S /\ \A y \in S : Max(S) >= y
  BY <1>7 DEF Max
<1> QED BY <1>8

\* What is left of a history that is cut: a beginning of it, which ends within
\* the limit or at a run that has not ended, and holds every such run.
LEMMA WhatIsTrimmed ==
  ASSUME NEW o \in Seq(Runs), o # <<>>
  PROVE  \E m \in 1..Len(o) :
           /\ Trimmed(o) = SubSeq(o, 1, m)
           /\ \A i \in 1..Len(o) : status[o[i]] \notin Ended => i <= m
           /\ m <= HistoryLimit \/ status[o[m]] \notin Ended
<1>1. HistoryLimit \in Nat \ {0} /\ Len(o) \in Nat \ {0} /\ DOMAIN o = 1..Len(o)
  BY JobQueueAssumption
<1> DEFINE open == {i \in DOMAIN o : status[o[i]] \notin Ended}
<1>2. CASE Len(o) <= HistoryLimit
  <2>1. Trimmed(o) = SubSeq(o, 1, Len(o))
    BY <1>2 DEF Trimmed
  <2>2. Len(o) \in 1..Len(o) /\ \A i \in 1..Len(o) : i <= Len(o)
    BY <1>1
  <2> QED BY <1>2, <2>1, <2>2
<1>3. CASE ~(Len(o) <= HistoryLimit)
  <2>1. PICK S : S = open \union {HistoryLimit}
    OBVIOUS
  <2>2. S \in SUBSET (0..Len(o)) /\ S # {}
    BY <1>1, <1>3, <2>1
  <2>3. PICK m : m = Max(S)
    OBVIOUS
  <2>4. m \in S /\ \A y \in S : y <= m
    BY <1>1, <2>2, <2>3, Greatest
  <2>5. Trimmed(o) = SubSeq(o, 1, m)
    BY <1>3, <2>1, <2>3 DEF Trimmed
  <2>6. m \in 1..Len(o)
    BY <1>1, <1>3, <2>1, <2>4
  <2>7. m <= HistoryLimit \/ status[o[m]] \notin Ended
    BY <1>1, <2>1, <2>4
  <2>8. \A i \in 1..Len(o) : status[o[i]] \notin Ended => i <= m
    BY <1>1, <2>1, <2>4
  <2> QED BY <2>5, <2>6, <2>7, <2>8
<1> QED BY <1>2, <1>3

\* The history after a submission.
LEMMA HistoryOfSubmit ==
  ASSUME Remembered, status \in [Runs -> Status \union {"new"}],
         NEW r \in Runs, NEW week \in Weeks, Submit(r, week)
  PROVE  \E m \in 1..(Len(order) + 1) :
           /\ order' \in Seq(Runs) /\ Len(order') = m /\ DOMAIN order' = 1..m
           /\ order'[1] = r
           /\ \A i \in 2..m : i - 1 \in DOMAIN order /\ order'[i] = order[i - 1]
           /\ \A i \in DOMAIN order : status[order[i]] \notin Ended =>
                i + 1 \in 2..m /\ order'[i + 1] = order[i]
           /\ m <= HistoryLimit \/ status[order'[m]] \notin Ended
<1> DEFINE n == Len(order)
<1>1. order \in Seq(Runs) /\ n \in Nat /\ DOMAIN order = 1..n
  BY DEF Remembered
<1>2. PICK o : o = <<r>> \o order
  OBVIOUS
<1>3. <<r>> \in Seq(Runs) /\ Len(<<r>>) = 1 /\ <<r>>[1] = r
  OBVIOUS
<1>4. /\ o \in Seq(Runs) /\ Len(o) = n + 1
      /\ \A i \in 1..(n + 1) : o[i] = IF i <= 1 THEN <<r>>[i] ELSE order[i - 1]
  BY <1>1, <1>2, <1>3, ConcatProperties
<1>5. o[1] = r /\ \A i \in 1..n : o[i + 1] = order[i]
  <2> HIDE DEF n
  <2>1. 1 \in 1..(n + 1) /\ \A i \in 1..n : i + 1 \in 1..(n + 1) /\ ~(i + 1 <= 1) /\ (i + 1) - 1 = i
    BY <1>1
  <2> QED BY <1>3, <1>4, <2>1
<1>6. o # <<>>
  BY <1>1, <1>4
<1>7. PICK m \in 1..Len(o) :
        /\ Trimmed(o) = SubSeq(o, 1, m)
        /\ \A i \in 1..Len(o) : status[o[i]] \notin Ended => i <= m
        /\ m <= HistoryLimit \/ status[o[m]] \notin Ended
  BY <1>4, <1>6, WhatIsTrimmed
<1>8. m \in 1..(n + 1) /\ m \in Int /\ 1 \in Int /\ \A i \in 1..m : o[i] \in Runs
  BY <1>1, <1>4
<1>9. order' = SubSeq(o, 1, m)
  BY <1>2, <1>7 DEF Submit
<1>10. /\ order' \in Seq(Runs) /\ Len(order') = m
       /\ \A i \in 1..m : order'[i] = o[i]
  <2>1. /\ SubSeq(o, 1, m) \in Seq(Runs)
        /\ Len(SubSeq(o, 1, m)) = IF 1 <= m THEN m - 1 + 1 ELSE 0
        /\ \A i \in 1..(m - 1 + 1) : SubSeq(o, 1, m)[i] = o[1 + i - 1]
    BY <1>8, SubSeqProperties
  <2> HIDE DEF n
  <2>2. m - 1 + 1 = m /\ 1 <= m /\ \A i \in 1..m : 1 + i - 1 = i
    BY <1>1, <1>8
  <2> QED BY <1>9, <2>1, <2>2
<1>11. DOMAIN order' = 1..m
  BY <1>10
<1> HIDE DEF n
<1>12. \A i \in 2..m : i - 1 \in 1..n /\ order'[i] = order[i - 1]
  <2> SUFFICES ASSUME NEW i \in 2..m PROVE i - 1 \in 1..n /\ order'[i] = order[i - 1]
    OBVIOUS
  <2>1. i \in 1..m /\ i - 1 \in 1..n /\ (i - 1) + 1 = i
    BY <1>1, <1>8
  <2> QED BY <2>1, <1>5, <1>10
<1>13. \A i \in 1..n : status[order[i]] \notin Ended =>
         i + 1 \in 2..m /\ order'[i + 1] = order[i]
  <2> SUFFICES ASSUME NEW i \in 1..n, status[order[i]] \notin Ended
               PROVE  i + 1 \in 2..m /\ order'[i + 1] = order[i]
    OBVIOUS
  <2>1. i + 1 \in 1..Len(o) /\ o[i + 1] = order[i]
    BY <1>1, <1>4, <1>5
  <2>2. i + 1 <= m
    BY <1>7, <2>1
  <2>3. i + 1 \in 2..m /\ i + 1 \in 1..m
    BY <1>1, <1>8, <2>2
  <2> QED BY <1>10, <2>1, <2>3
<1>14. order'[1] = r /\ order'[m] = o[m]
  BY <1>1, <1>5, <1>8, <1>10
<1> QED BY <1>1, <1>7, <1>8, <1>10, <1>11, <1>12, <1>13, <1>14 DEF n

LEMMA SubmitRemembers ==
  ASSUME IInv, Remembered, NEW r \in Runs, NEW week \in Weeks, Submit(r, week)
  PROVE  /\ Remembered'
         /\ \A s \in Runs : status'[s] \in {"queued", "running"} =>
              \E i \in DOMAIN order' : order'[i] = s
         /\ \/ Len(order') <= HistoryLimit
            \/ \A i \in DOMAIN order' : status'[order'[i]] \notin Ended
<1>1. /\ status \in [Runs -> Status \union {"new"}] /\ status[r] = "new"
      /\ status' = [status EXCEPT ![r] = "queued"]
  BY DEF IInv, Typed, Submit
<1>2. PICK m \in 1..(Len(order) + 1) :
           /\ order' \in Seq(Runs) /\ Len(order') = m /\ DOMAIN order' = 1..m
           /\ order'[1] = r
           /\ \A i \in 2..m : i - 1 \in DOMAIN order /\ order'[i] = order[i - 1]
           /\ \A i \in DOMAIN order : status[order[i]] \notin Ended =>
                i + 1 \in 2..m /\ order'[i + 1] = order[i]
           /\ m <= HistoryLimit \/ status[order'[m]] \notin Ended
  BY <1>1, HistoryOfSubmit
<1>3. \A s \in Runs : status'[s] = IF s = r THEN "queued" ELSE status[s]
  BY <1>1
<1>4. /\ order \in Seq(Runs) /\ Len(order) \in Nat /\ m \in Nat \ {0}
      /\ \A i \in DOMAIN order : order[i] \in Runs /\ order[i] # r /\ order[i] < r
  <2>1. order \in Seq(Runs) /\ Len(order) \in Nat
    BY DEF Remembered
  <2>2. SUFFICES ASSUME NEW i \in DOMAIN order
                 PROVE  order[i] \in Runs /\ order[i] # r /\ order[i] < r
    BY <2>1
  <2>3. order[i] \in Runs /\ status[order[i]] # "new"
    BY <2>1 DEF Remembered
  <2>4. ~(r < order[i]) /\ order[i] # r
    BY <2>3, <1>1 DEF IInv, InOrder
  <2> QED BY <2>3, <2>4, JobQueueAssumption DEF Runs
<1>5. \A i, j \in DOMAIN order' : i < j => order'[j] < order'[i]
  <2> SUFFICES ASSUME NEW i \in 1..m, NEW j \in 1..m, i < j PROVE order'[j] < order'[i]
    BY <1>2
  <2>1. j \in 2..m /\ j - 1 \in DOMAIN order /\ order'[j] = order[j - 1]
    BY <1>2, <1>4
  <2>2. CASE i = 1
    BY <2>1, <2>2, <1>2, <1>4
  <2>3. CASE i # 1
    <3>1. i \in 2..m /\ i - 1 < j - 1
      BY <2>3, <1>4
    <3>2. i - 1 \in DOMAIN order /\ order'[i] = order[i - 1]
      BY <3>1, <1>2
    <3> QED BY <3>1, <3>2, <2>1 DEF Remembered
  <2> QED BY <2>2, <2>3
<1>6. \A i \in DOMAIN order' : status'[order'[i]] # "new"
  <2> SUFFICES ASSUME NEW i \in 1..m PROVE status'[order'[i]] # "new"
    BY <1>2
  <2>1. CASE i = 1
    BY <2>1, <1>2, <1>3
  <2>2. CASE i # 1
    <3>1. i \in 2..m
      BY <2>2, <1>4
    <3>2. i - 1 \in DOMAIN order /\ order'[i] = order[i - 1]
      BY <3>1, <1>2
    <3> QED BY <3>2, <1>3, <1>4 DEF Remembered
  <2> QED BY <2>1, <2>2
<1>7. ASSUME NEW s \in Runs, status'[s] \in {"queued", "running"}
      PROVE  \E i \in DOMAIN order' : order'[i] = s
  <2>1. CASE s = r
    <3>1. 1 \in DOMAIN order'
      BY <1>2, <1>4
    <3> QED BY <2>1, <3>1, <1>2
  <2>2. CASE s # r
    <3>1. status[s] \in {"queued", "running"}
      BY <2>2, <1>3, <1>7
    <3>2. PICK i \in DOMAIN order : order[i] = s
      BY <3>1 DEF Remembered, Registered
    <3>3. i + 1 \in 2..m /\ order'[i + 1] = s
      BY <3>1, <3>2, <1>2 DEF Ended
    <3>4. i + 1 \in DOMAIN order'
      BY <3>3, <1>2, <1>4
    <3> QED BY <3>3, <3>4
  <2> QED BY <2>1, <2>2
<1>8. ASSUME ~(Len(order') <= HistoryLimit), NEW i \in DOMAIN order'
      PROVE  status'[order'[i]] \notin Ended
  <2>1. i \in 1..m /\ m \in 1..m
    BY <1>2, <1>4
  <2>2. order'[i] \in Runs /\ order'[m] \in Runs
    BY <1>2, <2>1
  <2>3. status[order'[m]] \notin Ended
    BY <1>2, <1>8
  <2>4. CASE i = m
    BY <2>2, <2>3, <2>4, <1>3 DEF Ended
  <2>5. CASE i # m
    <3>0. i < m /\ i \in DOMAIN order' /\ m \in DOMAIN order'
      BY <1>2, <1>4, <2>1, <2>5
    <3>1. order'[m] < order'[i]
      BY <1>5, <3>0
    <3>2. ~Started(order'[i])
      BY <3>1, <2>2, <2>3 DEF IInv, OneAtATime
    <3> QED BY <3>2, <2>2, <1>3 DEF Started, Ended
  <2> QED BY <2>4, <2>5
<1>9. Remembered'
  BY <1>2, <1>5, <1>6, <1>7 DEF Remembered, Registered
<1> QED BY <1>7, <1>8, <1>9

\* Nothing else touches the registry, and no run becomes new or waits again.
LEMMA OthersRemember ==
  ASSUME IInv, Remembered, order' = order,
         \/ status' = status
         \/ status' = status
         \/ \E s \in Status :
              /\ worker.run \in Runs /\ status' = [status EXCEPT ![worker.run] = s]
              /\ s \in Ended \/ status[worker.run] = "queued"
  PROVE  Remembered'
<1>1. \A i \in DOMAIN order : order[i] \in Runs
  BY DEF Remembered
<1>2. \A r \in Runs : status'[r] = "new" => status[r] = "new"
  BY DEF IInv, Typed, Status
<1>3. \A r \in Runs : status'[r] \in {"queued", "running"} =>
        status[r] \in {"queued", "running"}
  BY DEF IInv, Typed, Ended
<1> QED BY <1>1, <1>2, <1>3 DEF Remembered, Registered

LEMMA StepRemembers == IInv /\ Remembered /\ [JobNext]_jobVars => Remembered'
<1> SUFFICES ASSUME IInv, Remembered, [JobNext]_jobVars PROVE Remembered'
  OBVIOUS
<1>1. CASE \E r \in Runs, week \in Weeks : Submit(r, week)
  BY <1>1, SubmitRemembers
<1>2. CASE Start
  <2>1. worker.run \in Runs /\ status[worker.run] = "queued"
    BY <1>2 DEF Start, IInv, Hands
  <2> QED BY <1>2, <2>1, OthersRemember DEF Start, Status
<1>3. CASE \E outcome \in Ended : Finish(outcome)
  <2>1. worker.run \in Runs
    BY <1>3 DEF Finish, IInv, Hands, Busy
  <2> QED BY <1>3, <2>1, OthersRemember DEF Finish, Status, Ended
<1>4. CASE \/ Enqueue \/ ReadRun \/ PublishSubmitted \/ Stop \/ Emit \/ Check \/ Take
           \/ ParserExits \/ Nudge \/ Announce("announce", "work")
           \/ Announce("announceEnd", "nudge") \/ UNCHANGED jobVars
  <2>1. order' = order /\ status' = status
    BY <1>4 DEF Enqueue, ReadRun, PublishSubmitted, Stop, Emit, Check, Take,
                ParserExits, Nudge, Announce, jobVars
  <2> QED BY <2>1, OthersRemember
<1> QED BY <1>1, <1>2, <1>3, <1>4 DEF JobNext, Submission, Steps

LEMMA InitRemembers == JobInit => Remembered
<1> SUFFICES ASSUME JobInit PROVE Remembered
  OBVIOUS
<1>1. order = <<>> /\ order \in Seq(Runs) /\ DOMAIN order = {}
  BY DEF JobInit
<1>2. \A r \in Runs : status[r] = "new"
  BY DEF JobInit
<1> QED BY <1>1, <1>2 DEF Remembered

\* One step forgets no run that has not ended, and what is longer than the limit
\* holds no run that has.
LEMMA StepKeepsHistory ==
  ASSUME IInv, Remembered, [JobNext]_jobVars, order' # order
  PROVE  LET kept == {order'[i] : i \in DOMAIN order'}
         IN /\ \A r \in Runs : status'[r] \in {"queued", "running"} => r \in kept
            /\ \/ Len(order') <= HistoryLimit
               \/ \A r \in kept : status'[r] \notin Ended
<1>1. PICK r \in Runs, week \in Weeks : Submit(r, week)
  BY DEF JobNext, Submission, Steps, Enqueue, ReadRun, PublishSubmitted, Stop, Emit,
         Check, Take, Start, Announce, Finish, ParserExits, Nudge, jobVars
<1> QED BY <1>1, SubmitRemembers

\* A submission forgets no run that has not ended, and leaves the history longer
\* than its limit only when nothing in it has ended (JobManager._trim).
THEOREM HistoryKept == JobSpec => HistoryIsKept
<1> DEFINE Kept ==
      order' # order =>
        LET kept == {order'[i] : i \in DOMAIN order'}
        IN /\ \A r \in Runs : status'[r] \in {"queued", "running"} => r \in kept
           /\ \/ Len(order') <= HistoryLimit
              \/ \A r \in kept : status'[r] \notin Ended
<1>1. JobInit => IInv /\ Remembered
  BY InitOrdered, InitRemembers
<1>2. IInv /\ Remembered /\ [JobNext]_jobVars => (IInv /\ Remembered)'
  BY Inductive, StepRemembers
<1>3. IInv /\ Remembered /\ [JobNext]_jobVars => [Kept]_jobVars
  BY StepKeepsHistory
<1> QED BY <1>1, <1>2, <1>3, PTL DEF JobSpec, HistoryIsKept

-----------------------------------------------------------------------------
(* The page.  Whatever it shows wrongly of one of the newest runs, something *)
(* is on its way that will put it right: an event, a question the server has *)
(* not answered, an answer nothing has overtaken, or the worker or request   *)
(* that is about to publish.                                                 *)

Says(e, r) == e.name = "job" /\ e.run = r /\ e.status = status[r]

\* The worker has more to say of r.
Pending(r) == worker.run = r /\ worker.at \in {"announce", "announceEnd", "nudge"}

\* After the i-th event comes one that makes up for it.
Corrected(i, r) ==
  \E j \in DOMAIN bus.events :
    i < j /\ (bus.events[j].name = "changed" \/ Says(bus.events[j], r))

\* Events speak of runs that were submitted.
EventsHaveRuns ==
  \A i \in DOMAIN bus.events : bus.events[i].name = "job" => status[bus.events[i].run] # "new"

\* An event that is out of date is not the last word.
EventsEndRight ==
  bus.missed = {} =>
    \A i \in DOMAIN bus.events :
      bus.events[i].name = "job" =>
        LET r == bus.events[i].run
        IN Says(bus.events[i], r) \/ Pending(r) \/ Corrected(i, r)

\* The request of r has not published its submission yet.
Requested(r) == request.at # "idle" /\ request.run = r

Coming(r) ==
  \/ Pending(r) \/ Requested(r)
  \/ asked > 0
  \/ Corrected(0, r)

Agrees(a, r) == a.says[r] \in {status[r], "absent"}
Showing(r) == shown[r] = status[r] /\ \A i \in DOMAIN answers : Agrees(answers[i], r)
Answered(r) ==
  \E j \in DOMAIN answers :
    /\ answers[j].says[r] = status[r]
    /\ \A i \in DOMAIN answers : j < i => Agrees(answers[i], r)

NoneIsOld == \A i \in DOMAIN answers : ~answers[i].old

RightInTheEnd ==
  bus.missed = {} /\ NoneIsOld =>
    \A r \in Newest : Coming(r) \/ Showing(r) \/ Answered(r)

Bus == [subscribed : BOOLEAN, events : Seq(Event), missed : SUBSET Causes]
Answers == [says : View, old : BOOLEAN]

PageTypes ==
  /\ bus \in Bus
  /\ request.at # "idle" => request.run \in Runs /\ status[request.run] # "new"
  /\ request.saw \in Status
  /\ shown \in View /\ asked \in Nat /\ answers \in Seq(Answers)

PageInv ==
  IInv /\ Remembered /\ PageTypes /\ EventsHaveRuns /\ EventsEndRight /\ RightInTheEnd

LEMMA QuietShowsTheTruth == PageInv => QuietPageIsRight
<1> SUFFICES ASSUME PageInv, Quiet, bus.missed = {}, NEW r \in Newest
             PROVE  shown[r] = status[r]
  BY DEF QuietPageIsRight, ShowsTheTruth
<1>1. DOMAIN answers = {} /\ DOMAIN bus.events = {} /\ asked = 0 /\ request.at = "idle"
  BY DEF Quiet
<1>2. NoneIsOld /\ ~Coming(r) /\ ~Answered(r)
  BY <1>1 DEF NoneIsOld, Coming, Requested, Pending, Corrected, Answered, Quiet
<1> QED BY <1>2 DEF PageInv, RightInTheEnd, Showing

LEMMA InitRight == Init => PageInv
<1> SUFFICES ASSUME Init PROVE PageInv
  OBVIOUS
<1>1. IInv /\ Remembered
  BY InitOrdered, InitRemembers DEF Init
<1>2. /\ bus = [subscribed |-> FALSE, events |-> <<>>, missed |-> {}]
      /\ bus.events = <<>> /\ DOMAIN bus.events = {}
      /\ request = [at |-> "idle", run |-> None, saw |-> "queued"]
      /\ asked = 1 /\ answers = <<>> /\ answers \in Seq(Answers)
      /\ shown = [r \in Runs |-> "absent"]
  BY DEF Init, JobInit
<1>3. bus \in Bus
  <2>1. <<>> \in Seq(Event) /\ {} \in SUBSET Causes /\ FALSE \in BOOLEAN
    OBVIOUS
  <2> QED BY <1>2, <2>1 DEF Bus
<1>4. PageTypes
  BY <1>2, <1>3 DEF PageTypes, View, Status
<1>5. EventsHaveRuns /\ EventsEndRight /\ RightInTheEnd
  BY <1>2 DEF EventsHaveRuns, EventsEndRight, RightInTheEnd, Coming
<1> QED BY <1>1, <1>4, <1>5 DEF PageInv

LEMMA NewestAreRuns == Remembered => Newest \subseteq Runs
<1> SUFFICES ASSUME Remembered, NEW i \in 1..(IF Len(order) < ShownRuns THEN Len(order) ELSE ShownRuns)
             PROVE  order[i] \in Runs
  BY DEF Newest
<1>1. order \in Seq(Runs) /\ Len(order) \in Nat /\ ShownRuns \in Nat
  BY JobPageAssumption DEF Remembered
<1>2. i \in 1..Len(order)
  BY <1>1
<1> QED BY <1>1, <1>2

\* A step that publishes nothing, and after which every run is either as it was
\* and still spoken for, or has just become a matter for the worker or a request.
LEMMA SilentStep ==
  ASSUME PageInv, bus' = bus, UNCHANGED pageVars,
         \A q \in Runs : status[q] # "new" => status'[q] # "new",
         \A q \in Runs :
           \/ /\ status'[q] = status[q] /\ (q \in Newest' => q \in Newest)
              /\ Pending(q) => Pending(q)'
              /\ Requested(q) => Requested(q)'
           \/ Pending(q)'
           \/ Requested(q)' /\ status[q] = "new",
         Newest' \subseteq Runs
  PROVE  EventsHaveRuns' /\ EventsEndRight' /\ RightInTheEnd'
<1>1. /\ bus.events \in Seq(Event) /\ UNCHANGED <<shown, asked, answers>>
      /\ \A i \in DOMAIN bus.events : bus.events[i] \in Event
  BY DEF PageInv, PageTypes, Bus, pageVars
<1>2. \A i \in DOMAIN bus.events : bus.events[i].run \in Runs
  BY <1>1 DEF Event
<1>3. EventsHaveRuns'
  BY <1>2 DEF PageInv, EventsHaveRuns
<1>4. ASSUME NEW q \in Runs, status'[q] = status[q]
      PROVE  /\ \A i \in Nat : Corrected(i, q) => Corrected(i, q)'
             /\ \A i \in DOMAIN answers : Agrees(answers[i], q) => Agrees(answers[i], q)'
             /\ Showing(q) => Showing(q)'
             /\ Answered(q) => Answered(q)'
  BY <1>1, <1>4 DEF Corrected, Says, Agrees, Showing, Answered
<1>5. EventsEndRight'
  <2> SUFFICES ASSUME bus.missed = {}, NEW i \in DOMAIN bus.events,
                      bus.events[i].name = "job", NEW q \in Runs, q = bus.events[i].run
               PROVE  Says(bus.events[i], q)' \/ Pending(q)' \/ Corrected(i, q)'
    BY <1>1, <1>2 DEF EventsEndRight
  <2>1. status[q] # "new"
    BY DEF PageInv, EventsHaveRuns
  <2>2. Says(bus.events[i], q) \/ Pending(q) \/ Corrected(i, q)
    BY DEF PageInv, EventsEndRight
  <2>3. i \in Nat
    BY <1>1
  <2> QED BY <2>1, <2>2, <2>3, <1>4 DEF Says
<1>6. RightInTheEnd'
  <2> SUFFICES ASSUME bus.missed = {}, NoneIsOld, NEW q \in Newest'
               PROVE  Coming(q)' \/ Showing(q)' \/ Answered(q)'
    BY <1>1 DEF RightInTheEnd, NoneIsOld
  <2>1. q \in Runs
    OBVIOUS
  <2>2. CASE Pending(q)' \/ Requested(q)'
    BY <2>2 DEF Coming
  <2>3. CASE /\ status'[q] = status[q] /\ q \in Newest
             /\ Pending(q) => Pending(q)'
             /\ Requested(q) => Requested(q)'
    <3>1. Coming(q) \/ Showing(q) \/ Answered(q)
      BY <2>3 DEF PageInv, RightInTheEnd
    <3>2. Coming(q) => Coming(q)'
      BY <2>1, <2>3, <1>1, <1>4 DEF Coming
    <3> QED BY <3>1, <3>2, <2>1, <2>3, <1>4
  <2> QED BY <2>1, <2>2, <2>3
<1> QED BY <1>3, <1>5, <1>6

\* A step that says e, if it is heard, and changes no run.
LEMMA SpokenStep ==
  ASSUME PageInv, NEW e \in Event, bus' \in Bus, UNCHANGED <<status, order, pageVars>>,
         bus'.events = bus.events \/ bus'.events = Append(bus.events, e),
         bus'.missed = {} =>
           bus.missed = {} /\ (e.name # "log" => bus'.events = Append(bus.events, e)),
         e.name = "job" => status[e.run] # "new" /\ (Says(e, e.run) \/ bus'.missed # {} \/ Pending(e.run)'),
         \A q \in Runs :
           /\ Pending(q) => Pending(q)' \/ e.name = "changed" \/ Says(e, q)
           /\ Requested(q) /\ bus'.missed = {} =>
                Requested(q)' \/ Pending(q)' \/ e.name = "changed" \/ Says(e, q)
  PROVE  EventsHaveRuns' /\ EventsEndRight' /\ RightInTheEnd'
<1> DEFINE n == Len(bus.events)
<1>1. /\ bus.events \in Seq(Event) /\ UNCHANGED <<shown, asked, answers>>
      /\ n \in Nat /\ DOMAIN bus.events = 1..n
      /\ \A i \in 1..n : bus.events[i] \in Event
  BY DEF PageInv, PageTypes, Bus, pageVars
<1>2. /\ \A i \in 1..n : i \in DOMAIN bus'.events /\ bus'.events[i] = bus.events[i]
      /\ \A i \in DOMAIN bus'.events : i \in 1..n \/ (i = n + 1 /\ bus'.events[i] = e)
      /\ bus'.events = Append(bus.events, e) =>
           n + 1 \in DOMAIN bus'.events /\ bus'.events[n + 1] = e
  <2>1. PICK x : x = Append(bus.events, e)
    OBVIOUS
  <2>2. /\ x \in Seq(Event) /\ Len(x) = n + 1 /\ x[n + 1] = e
        /\ \A i \in 1..n : x[i] = bus.events[i]
    BY <1>1, <2>1, AppendProperties
  <2>3. DOMAIN x = 1..(n + 1)
    BY <2>2
  <2>4. PICK y, z : y = bus'.events /\ z = bus.events
    OBVIOUS
  <2> HIDE DEF n
  <2>5. /\ \A i \in 1..n : i \in DOMAIN y /\ y[i] = z[i]
        /\ \A i \in DOMAIN y : i \in 1..n \/ (i = n + 1 /\ y[i] = e)
        /\ y = x => n + 1 \in DOMAIN y /\ y[n + 1] = e
    <3>1. n \in Nat /\ DOMAIN z = 1..n /\ DOMAIN z # DOMAIN x
      BY <1>1, <2>3, <2>4
    <3>2. CASE y = z
      <4>1. y # x
        BY <3>1, <3>2
      <4> QED BY <3>1, <3>2, <4>1
    <3>3. CASE y = x
      <4>1. \A i \in 1..n : i \in 1..(n + 1)
        BY <3>1
      <4>2. \A i \in 1..(n + 1) : i \in 1..n \/ i = n + 1
        BY <3>1
      <4>3. n + 1 \in 1..(n + 1)
        BY <3>1
      <4> QED BY <3>3, <2>2, <2>3, <2>4, <4>1, <4>2, <4>3
    <3> QED BY <3>2, <3>3, <2>1, <2>4
  <2> QED BY <2>1, <2>4, <2>5
<1> HIDE DEF n
<1>3. \A q \in Runs : \A i \in Nat : Corrected(i, q) => Corrected(i, q)'
  BY <1>1, <1>2 DEF Corrected, Says
<1>4. ASSUME bus'.missed = {}, NEW q \in Runs, e.name = "changed" \/ Says(e, q)
      PROVE  \A i \in 0..n : Corrected(i, q)'
  <2>1. e.name # "log"
    BY <1>4 DEF Says
  <2>2. n + 1 \in DOMAIN bus'.events /\ bus'.events[n + 1] = e
    BY <1>2, <1>4, <2>1
  <2>3. \A i \in 0..n : i < n + 1
    BY <1>1
  <2> QED BY <1>4, <2>2, <2>3 DEF Corrected, Says
<1>5. EventsHaveRuns'
  <2> SUFFICES ASSUME NEW i \in DOMAIN bus'.events, bus'.events[i].name = "job"
               PROVE  status[bus'.events[i].run] # "new"
    BY DEF EventsHaveRuns
  <2> QED BY <1>1, <1>2 DEF PageInv, EventsHaveRuns
<1>6. EventsEndRight'
  <2> SUFFICES ASSUME bus'.missed = {}, NEW i \in DOMAIN bus'.events,
                      NEW x, x = bus'.events[i], x.name = "job", NEW q, q = x.run
               PROVE  Says(x, q)' \/ Pending(q)' \/ Corrected(i, q)'
    BY DEF EventsEndRight, Says
  <2>1. CASE i \in 1..n
    <3>1. x = bus.events[i] /\ x \in Event
      BY <1>1, <1>2, <2>1
    <3>2. q \in Runs
      BY <3>1 DEF Event
    <3>3. bus.missed = {}
      OBVIOUS
    <3>4. Says(x, q) \/ Pending(q) \/ Corrected(i, q)
      BY <3>1, <3>3, <2>1, <1>1 DEF PageInv, EventsEndRight
    <3>5. i \in Nat /\ i \in 0..n
      BY <2>1, <1>1
    <3>6. Says(x, q) => Says(x, q)'
      BY DEF Says
    <3>7. Pending(q) => Pending(q)' \/ Corrected(i, q)'
      BY <3>2, <3>5, <1>4
    <3>8. Corrected(i, q) => Corrected(i, q)'
      BY <3>2, <3>5, <1>3
    <3> QED BY <3>4, <3>6, <3>7, <3>8
  <2>2. CASE i = n + 1 /\ bus'.events[i] = e
    <3>1. Says(e, q) => Says(e, q)'
      BY DEF Says
    <3> QED BY <2>2, <3>1
  <2> QED BY <2>1, <2>2, <1>2
<1>7. RightInTheEnd'
  <2> SUFFICES ASSUME bus'.missed = {}, NoneIsOld, NEW q \in Newest'
               PROVE  Coming(q)' \/ Showing(q)' \/ Answered(q)'
    BY <1>1 DEF RightInTheEnd, NoneIsOld
  <2>1. q \in Newest
    BY DEF Newest
  <2>2. q \in Runs
    BY <2>1, NewestAreRuns DEF PageInv
  <2>3. Coming(q) \/ Showing(q) \/ Answered(q)
    BY <2>1 DEF PageInv, RightInTheEnd
  <2>4. Showing(q) => Showing(q)'
    BY <1>1 DEF Showing, Agrees
  <2>5. Answered(q) => Answered(q)'
    BY <1>1 DEF Answered, Agrees
  <2>6. 0 \in 0..n /\ 0 \in Nat
    BY <1>1
  <2>7. Coming(q) => Coming(q)'
    BY <2>2, <2>6, <1>1, <1>3, <1>4 DEF Coming
  <2> QED BY <2>3, <2>4, <2>5, <2>7
<1> QED BY <1>5, <1>6, <1>7

LEMMA PublishedOrMissed ==
  ASSUME bus \in Bus, NEW e \in Event, NEW b, b = Published(bus, e)
  PROVE  /\ b \in Bus
         /\ b.events = bus.events \/ b.events = Append(bus.events, e)
         /\ b.missed = {} =>
              bus.missed = {} /\ (e.name # "log" => b.events = Append(bus.events, e))
<1>1. /\ bus.subscribed \in BOOLEAN /\ bus.events \in Seq(Event)
      /\ bus.missed \in SUBSET Causes
      /\ Append(bus.events, e) \in Seq(Event)
  BY DEF Bus
<1>2. ASSUME NEW cause \in Causes, b = Deprive(bus, cause, e) PROVE
         /\ b \in Bus /\ b.events = bus.events
         /\ e.name # "log" => b.missed # {}
         /\ e.name = "log" => b = bus
  <2>1. CASE e.name = "log"
    BY <2>1, <1>2 DEF Deprive
  <2>2. CASE e.name # "log"
    <3>1. b = [bus EXCEPT !.missed = bus.missed \union {cause}]
      BY <2>2, <1>2 DEF Deprive
    <3>2. b \in Bus
      BY <3>1, <1>1 DEF Bus
    <3>3. b.events = bus.events /\ b.missed = bus.missed \union {cause}
      BY <3>1 DEF Bus
    <3> QED BY <2>2, <3>2, <3>3
  <2> QED BY <2>1, <2>2
<1>3. CASE ~bus.subscribed \/ Len(bus.events) = QueueSize
  <2>1. \E cause \in Causes : b = Deprive(bus, cause, e)
    BY <1>3 DEF Published, Causes
  <2> QED BY <2>1, <1>2
<1>4. CASE bus.subscribed /\ Len(bus.events) # QueueSize
  <2>1. b = [bus EXCEPT !.events = Append(bus.events, e)]
    BY <1>4 DEF Published
  <2>2. b \in Bus
    BY <2>1, <1>1 DEF Bus
  <2>3. b.events = Append(bus.events, e) /\ b.missed = bus.missed
    BY <2>1 DEF Bus
  <2> QED BY <2>2, <2>3
<1> QED BY <1>3, <1>4

LEMMA NoRunIsNewAgain ==
  ASSUME IInv, [JobNext]_jobVars
  PROVE  \A q \in Runs : status[q] # "new" => status'[q] # "new"
<1>1. \/ status' = status
      \/ \E q \in Runs, s \in Status : status' = [status EXCEPT ![q] = s]
  <2>1. CASE \E r \in Runs, week \in Weeks : Submit(r, week)
    BY <2>1 DEF Submit, Status
  <2>2. CASE Start
    BY <2>2 DEF Start, Status, IInv, Hands
  <2>3. CASE \E outcome \in Ended : Finish(outcome)
    BY <2>3 DEF Finish, Status, Ended, IInv, Hands, Busy
  <2>4. CASE \/ Enqueue \/ ReadRun \/ PublishSubmitted \/ Stop \/ Emit \/ Check \/ Take
             \/ ParserExits \/ Nudge \/ Announce("announce", "work")
             \/ Announce("announceEnd", "nudge") \/ UNCHANGED jobVars
    BY <2>4 DEF Enqueue, ReadRun, PublishSubmitted, Stop, Emit, Check, Take,
                ParserExits, Nudge, Announce, jobVars
  <2> QED BY <2>1, <2>2, <2>3, <2>4 DEF JobNext, Submission, Steps
<1> QED BY <1>1 DEF IInv, Typed, Status

LEMMA SubmitRight ==
  ASSUME PageInv, NEW r \in Runs, NEW week \in Weeks, Submit(r, week), UNCHANGED pageVars
  PROVE  PageTypes' /\ EventsHaveRuns' /\ EventsEndRight' /\ RightInTheEnd'
<1>1. /\ request.at = "idle" /\ status[r] = "new"
      /\ status' = [status EXCEPT ![r] = "queued"]
      /\ request' = [at |-> "registered", run |-> r, saw |-> "queued"]
      /\ UNCHANGED <<worker, bus>>
  BY DEF Submit
<1>2. \A s \in Runs : status'[s] = IF s = r THEN "queued" ELSE status[s]
  BY <1>1 DEF PageInv, IInv, Typed
<1>3. PageTypes'
  BY <1>1, <1>2 DEF PageInv, PageTypes, pageVars, Status
<1>4. PICK m \in 1..(Len(order) + 1) :
        /\ Len(order') = m /\ DOMAIN order' = 1..m /\ order'[1] = r
        /\ \A i \in 2..m : i - 1 \in DOMAIN order /\ order'[i] = order[i - 1]
        /\ order' \in Seq(Runs)
  BY HistoryOfSubmit DEF PageInv, IInv, Typed
<1>5. /\ Len(order) \in Nat /\ DOMAIN order = 1..Len(order) /\ m \in Nat
      /\ ShownRuns \in Nat
  BY JobPageAssumption DEF PageInv, Remembered
<1>6. ASSUME NEW q \in Newest' PROVE q \in Runs /\ (q # r => q \in Newest)
  <2>1. PICK i \in 1..(IF m < ShownRuns THEN m ELSE ShownRuns) : q = order'[i]
    BY <1>4, <1>6 DEF Newest
  <2>2. i \in 1..m /\ i <= ShownRuns
    BY <1>5, <2>1
  <2>3. q \in Runs
    BY <1>4, <2>1, <2>2
  <2>4. ASSUME q # r PROVE q \in Newest
    <3>1. i \in 2..m
      BY <1>4, <1>5, <2>1, <2>2, <2>4
    <3>2. i - 1 \in DOMAIN order /\ q = order[i - 1]
      BY <3>1, <1>4, <2>1
    <3>3. i - 1 \in 1..(IF Len(order) < ShownRuns THEN Len(order) ELSE ShownRuns)
      BY <3>1, <3>2, <2>2, <1>5
    <3> QED BY <3>2, <3>3 DEF Newest
  <2> QED BY <2>3, <2>4
<1>7. Requested(r)' /\ \A q \in Runs : Requested(q) => Requested(q)'
  BY <1>1 DEF Requested
<1>8. \A q : Pending(q) <=> Pending(q)'
  BY <1>1 DEF Pending
<1>9. \A q \in Runs : status[q] # "new" => status'[q] # "new"
  BY <1>2
<1> QED BY <1>1, <1>2, <1>3, <1>6, <1>7, <1>8, <1>9, SilentStep

\* What is done on the way, without a word to the page.
LEMMA SilentStepsRight ==
  ASSUME PageInv, UNCHANGED pageVars, Remembered',
         \/ Enqueue \/ ReadRun \/ Stop \/ Check \/ Take \/ Start \/ ParserExits
         \/ (\E outcome \in Ended : Finish(outcome)) \/ UNCHANGED jobVars
  PROVE  PageTypes' /\ EventsHaveRuns' /\ EventsEndRight' /\ RightInTheEnd'
<1>0. [JobNext]_jobVars
  BY DEF JobNext, Submission, Steps
<1>1. \A q \in Runs : status[q] # "new" => status'[q] # "new"
  BY <1>0, NoRunIsNewAgain DEF PageInv
<1>2. bus' = bus /\ order' = order /\ Newest' = Newest /\ Newest \subseteq Runs
  <2>1. bus' = bus /\ order' = order
    BY DEF Enqueue, ReadRun, Stop, Check, Take, Start, ParserExits, Finish, jobVars
  <2> QED BY <2>1, NewestAreRuns DEF Newest, PageInv
<1>3. /\ request.at # "idle" => request'.at # "idle"
      /\ request'.at # "idle" => request.at # "idle"
      /\ request'.run = request.run /\ request'.saw \in Status
  <2>1. CASE Enqueue
    BY <2>1 DEF Enqueue, PageInv, IInv, Typed, PageTypes
  <2>2. CASE ReadRun
    <3>1. status[request.run] \in Status
      BY <2>2 DEF ReadRun, PageInv, PageTypes, IInv, Typed
    <3> QED BY <2>2, <3>1 DEF ReadRun, PageInv, IInv, Typed
  <2>3. CASE request' = request
    BY <2>3 DEF PageInv, PageTypes
  <2> QED BY <2>1, <2>2, <2>3
        DEF Stop, Check, Take, Start, ParserExits, Finish, jobVars
<1>4. PageTypes'
  BY <1>1, <1>2, <1>3 DEF PageInv, PageTypes, pageVars
<1>5. \A q \in Runs : Requested(q) => Requested(q)'
  BY <1>3 DEF Requested
<1>6. \A q \in Runs : \/ status'[q] = status[q] /\ (Pending(q) => Pending(q)')
                      \/ Pending(q)'
  <2>1. CASE Start \/ \E outcome \in Ended : Finish(outcome)
    <3>1. worker'.run = worker.run /\ worker'.at \in {"announce", "announceEnd"}
      BY <2>1 DEF Start, Finish, PageInv, IInv, Typed
    <3>2. \A q \in Runs : q # worker.run => status'[q] = status[q] /\ ~Pending(q)
      BY <2>1 DEF Start, Finish, Pending, PageInv, IInv, Typed
    <3> QED BY <3>1, <3>2 DEF Pending
  <2>2. CASE Enqueue \/ ReadRun \/ Stop \/ Check \/ Take \/ ParserExits \/ UNCHANGED jobVars
    <3>1. status' = status
      BY <2>2 DEF Enqueue, ReadRun, Stop, Check, Take, ParserExits, jobVars
    <3>2. \/ worker' = worker
          \/ worker.at \in {"none", "check", "get", "work"}
      BY <2>2 DEF Enqueue, ReadRun, Stop, Check, Take, ParserExits, jobVars
    <3> QED BY <3>1, <3>2 DEF Pending
  <2> QED BY <2>1, <2>2
<1> QED BY <1>1, <1>2, <1>4, <1>5, <1>6, SilentStep

\* The worker speaks: of its run, of a line of its log, of a change.
LEMMA WorkerSpeaksRight ==
  ASSUME PageInv, UNCHANGED pageVars,
         \/ Announce("announce", "work") \/ Announce("announceEnd", "nudge")
         \/ Emit \/ Nudge
  PROVE  PageTypes' /\ EventsHaveRuns' /\ EventsEndRight' /\ RightInTheEnd'
<1>1. PICK w \in Runs : w = worker.run
  BY DEF Announce, Emit, Nudge, PageInv, IInv, Hands, Busy
<1>2. status[w] \in Status
  <2>1. Started(w)
    BY <1>1 DEF Announce, Emit, Nudge, PageInv, IInv, Hands, Busy
  <2> QED BY <2>1 DEF PageInv, IInv, Typed, Started
<1>3. UNCHANGED <<status, order, request>>
  BY DEF Announce, Emit, Nudge
<1>4. PICK e \in Event :
        /\ bus' = Published(bus, e)
        /\ \/ e.name = "log" /\ worker' = worker
           \/ e.name = "changed"
           \/ Says(e, w) /\ e.run = w
  <2>1. CASE Announce("announce", "work") \/ Announce("announceEnd", "nudge")
    <3>1. PICK e : e = Job(w, status[w])
      OBVIOUS
    <3>2. e \in Event /\ Says(e, w) /\ e.run = w
      BY <3>1, <1>2 DEF Job, Event, Says
    <3> QED BY <2>1, <3>1, <3>2, <1>1 DEF Announce
  <2>2. CASE Emit
    <3>1. JobLog(w) \in Event /\ JobLog(w).name = "log"
      BY DEF JobLog, Event, Status
    <3> QED BY <2>2, <3>1, <1>1 DEF Emit
  <2>3. CASE Nudge
    <3>1. Changed(w) \in Event /\ Changed(w).name = "changed"
      BY DEF Changed, Event, Status
    <3> QED BY <2>3, <3>1, <1>1 DEF Nudge
  <2> QED BY <2>1, <2>2, <2>3
<1>5. /\ bus' \in Bus
      /\ bus'.events = bus.events \/ bus'.events = Append(bus.events, e)
      /\ bus'.missed = {} =>
           bus.missed = {} /\ (e.name # "log" => bus'.events = Append(bus.events, e))
  <2>1. PICK b : b = Published(bus, e)
    OBVIOUS
  <2> QED BY <2>1, <1>4, PublishedOrMissed DEF PageInv, PageTypes
<1>6. PageTypes'
  BY <1>3, <1>5 DEF PageInv, PageTypes, pageVars
<1>7. \A q \in Runs : Pending(q) => Pending(q)' \/ e.name = "changed" \/ Says(e, q)
  BY <1>1, <1>4 DEF Pending
<1>8. \A q \in Runs : Requested(q) => Requested(q)'
  BY <1>3 DEF Requested
<1>9. e.name = "job" => status[e.run] # "new" /\ Says(e, e.run)
  BY <1>2, <1>4 DEF Says, Status
<1> QED BY <1>3, <1>5, <1>6, <1>7, <1>8, <1>9, SpokenStep

\* The request speaks, perhaps of what its run was.
LEMMA RequestSpeaksRight ==
  ASSUME PageInv, UNCHANGED pageVars, PublishSubmitted
  PROVE  PageTypes' /\ EventsHaveRuns' /\ EventsEndRight' /\ RightInTheEnd'
<1>1. PICK r \in Runs, saw \in Status :
        /\ r = request.run /\ saw = request.saw /\ status[r] # "new"
  BY DEF PublishSubmitted, PageInv, PageTypes
<1>2. PICK e : e = Job(r, saw)
  OBVIOUS
<1>3. e \in Event /\ e.name = "job" /\ e.run = r /\ e.status = saw
  BY <1>2 DEF Job, Event
<1>4. PICK b : b = Published(bus, e)
  OBVIOUS
<1>5. /\ b \in Bus
      /\ b.events = bus.events \/ b.events = Append(bus.events, e)
      /\ b.missed = {} => bus.missed = {} /\ b.events = Append(bus.events, e)
  BY <1>3, <1>4, PublishedOrMissed DEF PageInv, PageTypes
<1>6. /\ bus' = IF Late THEN [b EXCEPT !.missed = b.missed \union {"late"}] ELSE b
      /\ request' = [at |-> "idle", run |-> None, saw |-> "queued"]
      /\ UNCHANGED <<status, order, worker>>
  BY <1>1, <1>2, <1>4 DEF PublishSubmitted
<1>7. /\ bus' \in Bus /\ bus'.events = b.events
      /\ bus'.missed = {} => b.missed = {} /\ ~Late
  <2>1. CASE Late
    <3>1. bus' = [b EXCEPT !.missed = b.missed \union {"late"}]
      BY <1>6, <2>1
    <3>2. b.missed \union {"late"} \in SUBSET Causes
      BY <1>5 DEF Bus, Causes
    <3>3. bus' \in Bus
      BY <3>1, <3>2, <1>5 DEF Bus
    <3>4. bus'.events = b.events /\ bus'.missed = b.missed \union {"late"}
      BY <3>1, <1>5 DEF Bus
    <3> QED BY <3>3, <3>4
  <2>2. CASE ~Late
    BY <2>2, <1>5, <1>6
  <2> QED BY <2>1, <2>2
<1>8. ~Late => Says(e, r) \/ Pending(r)
  BY <1>1, <1>3 DEF Late, Says, Pending
<1>9. \A q : Pending(q) <=> Pending(q)'
  BY <1>6 DEF Pending
<1>10. \A q \in Runs : Requested(q) => q = r
  BY <1>1 DEF Requested
<1>11. PageTypes'
  BY <1>6, <1>7 DEF PageInv, PageTypes, pageVars, Status
<1>12. UNCHANGED <<status, order, pageVars>>
  BY <1>6
<1>13. bus'.missed = {} => Says(e, r) \/ Pending(r)'
  BY <1>7, <1>8, <1>9
<1> QED BY <1>1, <1>3, <1>5, <1>7, <1>9, <1>10, <1>11, <1>12, <1>13, SpokenStep

LEMMA JobStepRight ==
  ASSUME PageInv, [JobNext]_jobVars, UNCHANGED pageVars PROVE PageInv'
<1>1. IInv' /\ Remembered'
  BY Inductive, StepRemembers DEF PageInv
<1>2. CASE \E r \in Runs, week \in Weeks : Submit(r, week)
  BY <1>1, <1>2, SubmitRight DEF PageInv
<1>3. CASE \/ Enqueue \/ ReadRun \/ Stop \/ Check \/ Take \/ Start \/ ParserExits
           \/ (\E outcome \in Ended : Finish(outcome)) \/ UNCHANGED jobVars
  BY <1>1, <1>3, SilentStepsRight DEF PageInv
<1>4. CASE \/ Announce("announce", "work") \/ Announce("announceEnd", "nudge")
           \/ Emit \/ Nudge
  BY <1>1, <1>4, WorkerSpeaksRight DEF PageInv
<1>5. CASE PublishSubmitted
  BY <1>1, <1>5, RequestSpeaksRight DEF PageInv
<1> QED BY <1>2, <1>3, <1>4, <1>5 DEF JobNext, Submission, Steps

LEMMA PageLeavesJobs ==
  ASSUME PageInv, UNCHANGED <<status, unparsable, order, queue, request, worker>>
  PROVE  /\ IInv' /\ Remembered' /\ Newest' = Newest /\ Newest \subseteq Runs
         /\ \A q : Pending(q)' <=> Pending(q)
         /\ \A q : Requested(q)' <=> Requested(q)
<1>1. Typed'
  BY DEF PageInv, IInv, Typed
<1>2. IInv'
  BY <1>1, Bystander DEF PageInv
<1>3. Remembered'
  BY OthersRemember DEF PageInv
<1>4. Newest' = Newest
  BY DEF Newest
<1> QED BY <1>2, <1>3, <1>4, NewestAreRuns DEF Pending, Requested, PageInv

\* A step that only asks, or only opens the stream.
LEMMA NothingShownRight ==
  ASSUME PageInv, UNCHANGED <<status, unparsable, order, queue, request, worker>>,
         UNCHANGED <<shown, answers>>, bus' \in Bus,
         bus'.events = bus.events, bus'.missed = bus.missed,
         asked' \in Nat, asked' >= asked
  PROVE  PageInv'
<1>1. /\ IInv' /\ Remembered' /\ Newest' = Newest /\ Newest \subseteq Runs
      /\ \A q : Pending(q)' <=> Pending(q)
      /\ \A q : Requested(q)' <=> Requested(q)
  BY PageLeavesJobs
<1>2. PageTypes'
  BY DEF PageInv, PageTypes
<1>3. \A i, q : Corrected(i, q)' <=> Corrected(i, q)
  BY DEF Corrected, Says
<1>4. EventsHaveRuns' /\ EventsEndRight'
  BY <1>1, <1>3 DEF PageInv, EventsHaveRuns, EventsEndRight, Says
<1>5. asked > 0 => asked' > 0
  BY DEF PageInv, PageTypes
<1>6. RightInTheEnd'
  BY <1>1, <1>3, <1>5 DEF PageInv, RightInTheEnd, NoneIsOld, Coming, Showing, Answered, Agrees
<1> QED BY <1>1, <1>2, <1>4, <1>6 DEF PageInv

LEMMA OpenRight == ASSUME PageInv, Open PROVE PageInv'
<1>1. bus \in Bus /\ bus' = [bus EXCEPT !.subscribed = TRUE] /\ asked' = asked /\ asked \in Nat
  BY DEF PageInv, PageTypes, Open
<1>2. bus' \in Bus
  BY <1>1 DEF Bus
<1>3. bus'.events = bus.events /\ bus'.missed = bus.missed /\ asked' >= asked
  BY <1>1 DEF Bus
<1> QED BY <1>1, <1>2, <1>3, NothingShownRight DEF Open

LEMMA PollRight == ASSUME PageInv, Poll PROVE PageInv'
<1>1. bus \in Bus /\ bus' = bus /\ asked' = asked + 1 /\ asked \in Nat
  BY DEF PageInv, PageTypes, Poll, jobVars
<1>2. asked' \in Nat /\ asked' >= asked
  BY <1>1
<1> QED BY <1>1, <1>2, NothingShownRight DEF Poll, jobVars

LEMMA LoseLinkRight == ASSUME PageInv, LoseLink PROVE PageInv'
<1>1. /\ IInv' /\ Remembered' /\ Newest' = Newest /\ Newest \subseteq Runs
      /\ \A q : Pending(q)' <=> Pending(q)
      /\ \A q : Requested(q)' <=> Requested(q)
  BY PageLeavesJobs DEF LoseLink
<1>2. PICK missed \in SUBSET Causes :
        /\ bus' = [subscribed |-> FALSE, events |-> <<>>, missed |-> missed]
        /\ missed = {} => bus.missed = {} /\ \A i \in DOMAIN bus.events : bus.events[i].name = "log"
  <2>1. bus.missed \in SUBSET Causes
    BY DEF PageInv, PageTypes, Bus
  <2> QED BY <2>1 DEF LoseLink, Causes
<1>3. UNCHANGED <<status, request, shown, asked, answers>>
  BY DEF LoseLink
<1>4. bus' \in Bus
  <2>1. FALSE \in BOOLEAN /\ <<>> \in Seq(Event)
    OBVIOUS
  <2> QED BY <1>2, <2>1 DEF Bus
<1>5. bus'.events = <<>> /\ DOMAIN bus'.events = {} /\ bus'.missed = missed
  BY <1>2
<1>6. PageTypes' /\ EventsHaveRuns' /\ EventsEndRight'
  BY <1>3, <1>4, <1>5 DEF PageInv, PageTypes, EventsHaveRuns, EventsEndRight
<1>7. missed = {} => \A q : ~Corrected(0, q)
  BY <1>2 DEF Corrected, Says
<1>8. RightInTheEnd'
  BY <1>1, <1>2, <1>3, <1>5, <1>7
     DEF PageInv, RightInTheEnd, NoneIsOld, Coming, Showing, Answered, Agrees
<1> QED BY <1>1, <1>6, <1>8 DEF PageInv

\* The page takes the first event: the others keep their order.
LEMMA EventTaken ==
  ASSUME PageInv, bus.events # <<>>, bus' = [bus EXCEPT !.events = Tail(bus.events)],
         UNCHANGED <<status, unparsable, order, queue, request, worker>>
  PROVE  /\ bus' \in Bus /\ bus'.missed = bus.missed
         /\ 1 \in DOMAIN bus.events /\ Head(bus.events) = bus.events[1]
         /\ Head(bus.events) \in Event
         /\ EventsHaveRuns' /\ EventsEndRight'
         /\ \A i \in Nat : \A q : Corrected(i + 1, q) => Corrected(i, q)'
<1> DEFINE n == Len(bus.events)
<1>1. /\ bus \in Bus /\ bus.events \in Seq(Event)
      /\ n \in Nat \ {0} /\ DOMAIN bus.events = 1..n
  BY DEF PageInv, PageTypes, Bus
<1>2. PICK t \in Seq(Event) : t = Tail(bus.events)
  BY <1>1, HeadTailProperties
<1>3. /\ DOMAIN t = 1..(n - 1)
      /\ \A i \in 1..(n - 1) : i + 1 \in 1..n /\ t[i] = bus.events[i + 1]
      /\ Head(bus.events) = bus.events[1] /\ bus.events[1] \in Event
  BY <1>1, <1>2
<1>4. bus' \in Bus
  BY <1>1, <1>2 DEF Bus
<1>5. bus'.events = t /\ bus'.missed = bus.missed
  BY <1>1, <1>2 DEF Bus
<1> HIDE DEF n
<1>6. ASSUME NEW i \in Nat, NEW q, Corrected(i + 1, q) PROVE Corrected(i, q)'
  <2>1. PICK j \in 1..n : i + 1 < j /\ (bus.events[j].name = "changed" \/ Says(bus.events[j], q))
    BY <1>1, <1>6 DEF Corrected
  <2>2. j - 1 \in 1..(n - 1) /\ i < j - 1 /\ (j - 1) + 1 = j
    BY <1>1, <2>1
  <2>3. t[j - 1] = bus.events[j]
    BY <1>3, <2>2
  <2> QED BY <1>3, <1>5, <2>1, <2>2, <2>3 DEF Corrected, Says
<1>7. EventsHaveRuns'
  BY <1>1, <1>3, <1>5 DEF PageInv, EventsHaveRuns
<1>8. EventsEndRight'
  <2> SUFFICES ASSUME bus.missed = {}, NEW i \in 1..(n - 1), NEW x, x = t[i],
                      x.name = "job", NEW q, q = x.run
               PROVE  Says(x, q)' \/ Pending(q)' \/ Corrected(i, q)'
    BY <1>3, <1>5 DEF EventsEndRight, Says
  <2>1. i + 1 \in 1..n /\ x = bus.events[i + 1] /\ i \in Nat
    BY <1>1, <1>3
  <2>2. Says(x, q) \/ Pending(q) \/ Corrected(i + 1, q)
    BY <2>1, <1>1 DEF PageInv, EventsEndRight
  <2>3. Corrected(i + 1, q) => Corrected(i, q)'
    BY <2>1, <1>6
  <2> QED BY <2>2, <2>3 DEF Says, Pending
<1>9. 1 \in DOMAIN bus.events
  BY <1>1
<1> QED BY <1>3, <1>4, <1>5, <1>6, <1>7, <1>8, <1>9

LEMMA HandleOtherRight == ASSUME PageInv, HandleOther PROVE PageInv'
<1>1. /\ IInv' /\ Remembered' /\ Newest' = Newest /\ Newest \subseteq Runs
      /\ \A q : Pending(q)' <=> Pending(q)
      /\ \A q : Requested(q)' <=> Requested(q)
  BY PageLeavesJobs DEF HandleOther
<1>2. PICK e : e = Head(bus.events)
  OBVIOUS
<1>3. /\ bus' \in Bus /\ bus'.missed = bus.missed
      /\ e = bus.events[1] /\ e.name # "job"
      /\ EventsHaveRuns' /\ EventsEndRight'
      /\ \A i \in Nat : \A q : Corrected(i + 1, q) => Corrected(i, q)'
  BY <1>2, EventTaken DEF HandleOther
<1>4. /\ UNCHANGED <<status, request, shown, answers>>
      /\ asked \in Nat
      /\ e.name = "changed" => asked' = asked + 1
      /\ e.name # "changed" => asked' = asked
  BY <1>2 DEF HandleOther, PageInv, PageTypes
<1>5. asked' \in Nat /\ (asked > 0 => asked' > 0) /\ (e.name = "changed" => asked' > 0)
  BY <1>4
<1>6. PageTypes'
  BY <1>3, <1>4, <1>5 DEF PageInv, PageTypes
<1>7. ASSUME NEW q \in Runs, Coming(q) PROVE Coming(q)'
  <2>1. CASE e.name = "changed"
    BY <2>1, <1>5 DEF Coming
  <2>2. CASE e.name # "changed"
    <3>1. Corrected(0, q) => Corrected(0 + 1, q)
      <4> SUFFICES ASSUME NEW j \in DOMAIN bus.events, 0 < j,
                          bus.events[j].name = "changed" \/ Says(bus.events[j], q)
                   PROVE  Corrected(0 + 1, q)
        BY DEF Corrected
      <4>1. j # 1
        BY <2>2, <1>3 DEF Says
      <4>2. j \in Nat
        BY DEF PageInv, PageTypes, Bus
      <4>3. 0 + 1 < j
        BY <4>1, <4>2
      <4> QED BY <4>3 DEF Corrected
    <3>2. Corrected(0, q) => Corrected(0, q)'
      BY <3>1, <1>3
    <3> QED BY <3>2, <1>1, <1>5, <1>7 DEF Coming
  <2> QED BY <2>1, <2>2
<1>8. RightInTheEnd'
  <2> SUFFICES ASSUME bus.missed = {}, NoneIsOld, NEW q \in Newest
               PROVE  Coming(q)' \/ Showing(q)' \/ Answered(q)'
    BY <1>1, <1>3, <1>4 DEF RightInTheEnd, NoneIsOld
  <2>1. Coming(q) \/ Showing(q) \/ Answered(q)
    BY DEF PageInv, RightInTheEnd
  <2>2. Coming(q) => Coming(q)'
    BY <1>1, <1>7
  <2>3. (Showing(q) => Showing(q)') /\ (Answered(q) => Answered(q)')
    BY <1>4 DEF Showing, Answered, Agrees
  <2> QED BY <2>1, <2>2, <2>3
<1> QED BY <1>1, <1>3, <1>6, <1>8 DEF PageInv

LEMMA HandleJobRight == ASSUME PageInv, HandleJob PROVE PageInv'
<1>1. /\ IInv' /\ Remembered' /\ Newest' = Newest /\ Newest \subseteq Runs
      /\ \A q : Pending(q)' <=> Pending(q)
      /\ \A q : Requested(q)' <=> Requested(q)
  BY PageLeavesJobs DEF HandleJob
<1>2. PICK e : e = Head(bus.events)
  OBVIOUS
<1>3. /\ bus' \in Bus /\ bus'.missed = bus.missed
      /\ 1 \in DOMAIN bus.events /\ e = bus.events[1] /\ e \in Event /\ e.name = "job"
      /\ EventsHaveRuns' /\ EventsEndRight'
      /\ \A i \in Nat : \A q : Corrected(i + 1, q) => Corrected(i, q)'
  BY <1>2, EventTaken DEF HandleJob
<1>4. e.run \in Runs /\ e.status \in Status
  BY <1>3 DEF Event
<1>5. /\ UNCHANGED <<status, request, asked>>
      /\ shown' = [shown EXCEPT ![e.run] = e.status]
      /\ answers' = [i \in DOMAIN answers |->
             [answers[i] EXCEPT !.old = answers[i].old \/
                answers[i].says[e.run] \notin {e.status, "absent"}]]
      /\ shown \in View /\ answers \in Seq(Answers)
  BY <1>2 DEF HandleJob, PageInv, PageTypes
<1>6. /\ DOMAIN answers' = DOMAIN answers /\ Len(answers) \in Nat
      /\ DOMAIN answers = 1..Len(answers)
      /\ answers' \in [1..Len(answers) -> Answers]
      /\ \A i \in DOMAIN answers :
           /\ answers'[i].says = answers[i].says
           /\ ~answers'[i].old =>
                ~answers[i].old /\ answers[i].says[e.run] \in {e.status, "absent"}
  <2>1. Len(answers) \in Nat /\ DOMAIN answers = 1..Len(answers) /\ DOMAIN answers' = DOMAIN answers
    BY <1>5
  <2>2. ASSUME NEW i \in DOMAIN answers
        PROVE  /\ answers'[i] \in Answers
               /\ answers'[i].says = answers[i].says
               /\ ~answers'[i].old =>
                    ~answers[i].old /\ answers[i].says[e.run] \in {e.status, "absent"}
    <3>1. PICK a \in Answers : a = answers[i]
      BY <1>5, <2>1
    <3>2. PICK o \in BOOLEAN : o = (a.old \/ a.says[e.run] \notin {e.status, "absent"})
      OBVIOUS
    <3>3. answers'[i] = [a EXCEPT !.old = o]
      BY <3>1, <3>2, <1>5
    <3>4. answers'[i] \in Answers
      BY <3>3 DEF Answers
    <3>5. answers'[i].says = a.says
      BY <3>3 DEF Answers
    <3>6. answers'[i].old = o
      BY <3>3 DEF Answers
    <3> QED BY <3>1, <3>2, <3>4, <3>5, <3>6
  <2>3. answers' = [i \in 1..Len(answers) |-> answers'[i]]
    BY <1>5, <2>1
  <2>4. answers' \in [1..Len(answers) -> Answers]
    BY <2>1, <2>2, <2>3
  <2> QED BY <2>1, <2>2, <2>4
<1>7. PageTypes'
  <2>1. answers' \in Seq(Answers)
    BY <1>6, SeqDef
  <2>2. shown' \in View
    BY <1>4, <1>5 DEF View
  <2> QED BY <1>3, <1>5, <2>1, <2>2 DEF PageInv, PageTypes
<1>8. RightInTheEnd'
  <2> SUFFICES ASSUME bus.missed = {}, NoneIsOld', NEW q \in Newest
               PROVE  Coming(q)' \/ Showing(q)' \/ Answered(q)'
    BY <1>1, <1>3 DEF RightInTheEnd
  <2>1. q \in Runs
    BY <1>1
  <2>2. \A i \in DOMAIN answers :
          ~answers[i].old /\ answers[i].says[e.run] \in {e.status, "absent"}
    BY <1>6 DEF NoneIsOld
  <2>3. \A i \in DOMAIN answers : answers'[i].says[q] = answers[i].says[q]
    BY <1>6
  <2>4. Corrected(1, q) => Corrected(0, q)'
    <3>1. 0 \in Nat /\ 0 + 1 = 1
      OBVIOUS
    <3> QED BY <3>1, <1>3
  <2>5. CASE q = e.run
    <3>1. CASE Says(e, q)
      <4>1. shown'[q] = status'[q]
        BY <3>1, <2>1, <2>5, <1>5 DEF Says, View
      <4>2. \A i \in DOMAIN answers' : answers'[i].says[q] \in {status'[q], "absent"}
        BY <3>1, <2>2, <2>5, <1>5, <1>6 DEF Says
      <4> QED BY <4>1, <4>2 DEF Showing, Agrees
    <3>2. CASE ~Says(e, q)
      <4>1. Pending(q) \/ Corrected(1, q)
        BY <3>2, <2>5, <1>3 DEF PageInv, EventsEndRight
      <4> QED BY <4>1, <2>4, <1>1 DEF Coming
    <3> QED BY <3>1, <3>2
  <2>6. CASE q # e.run
    <3>1. Coming(q) \/ Showing(q) \/ Answered(q)
      BY <2>2 DEF PageInv, RightInTheEnd, NoneIsOld
    <3>2. Corrected(0, q) => Corrected(1, q)
      <4> SUFFICES ASSUME NEW j \in DOMAIN bus.events, 0 < j,
                          bus.events[j].name = "changed" \/ Says(bus.events[j], q)
                   PROVE  Corrected(1, q)
        BY DEF Corrected
      <4>1. j # 1
        BY <2>6, <1>3 DEF Says
      <4>2. j \in Nat
        BY DEF PageInv, PageTypes, Bus
      <4>3. 1 < j
        BY <4>1, <4>2
      <4> QED BY <4>3 DEF Corrected
    <3>3. Coming(q) => Coming(q)'
      BY <3>2, <2>4, <1>1, <1>5 DEF Coming
    <3>4. Showing(q) => Showing(q)'
      <4>1. shown'[q] = shown[q]
        BY <2>1, <2>6, <1>5 DEF View
      <4> QED BY <4>1, <2>3, <1>5, <1>6 DEF Showing, Agrees
    <3>5. Answered(q) => Answered(q)'
      <4> SUFFICES ASSUME NEW j \in DOMAIN answers, answers[j].says[q] = status[q],
                          \A i \in DOMAIN answers : j < i => Agrees(answers[i], q)
                   PROVE  Answered(q)'
        BY DEF Answered
      <4>1. j \in DOMAIN answers' /\ answers'[j].says[q] = status'[q]
        BY <2>3, <1>5, <1>6
      <4>2. \A i \in DOMAIN answers' : j < i => answers'[i].says[q] \in {status'[q], "absent"}
        BY <2>3, <1>5, <1>6 DEF Agrees
      <4> QED BY <4>1, <4>2 DEF Answered, Agrees
    <3> QED BY <3>1, <3>3, <3>4, <3>5
  <2> QED BY <2>5, <2>6
<1> QED BY <1>1, <1>3, <1>7, <1>8 DEF PageInv

\* What the server says of the newest runs is true.
LEMMA StateIsAView ==
  ASSUME IInv, Remembered
  PROVE  State \in View /\ \A q \in Newest : State[q] = status[q]
<1>1. ASSUME NEW i \in 1..(IF Len(order) < ShownRuns THEN Len(order) ELSE ShownRuns)
      PROVE  status[order[i]] # "new"
  <2>1. order \in Seq(Runs) /\ Len(order) \in Nat /\ ShownRuns \in Nat
    BY JobPageAssumption DEF Remembered
  <2>2. i \in DOMAIN order
    BY <2>1
  <2> QED BY <2>2 DEF Remembered
<1>2. \A q \in Newest : status[q] # "new"
  BY <1>1 DEF Newest
<1>3. Newest \subseteq Runs
  BY NewestAreRuns
<1>4. \A q \in Runs : State[q] \in Status \union {"absent"}
  BY <1>2 DEF State, IInv, Typed
<1>5. State = [q \in Runs |-> State[q]]
  BY DEF State
<1>6. State \in View
  BY <1>4, <1>5 DEF View
<1> QED BY <1>3, <1>6 DEF State

LEMMA AnswerRight == ASSUME PageInv, Answer PROVE PageInv'
<1>1. /\ IInv' /\ Remembered' /\ Newest' = Newest /\ Newest \subseteq Runs
      /\ \A q : Pending(q)' <=> Pending(q)
      /\ \A q : Requested(q)' <=> Requested(q)
  BY PageLeavesJobs DEF Answer
<1> DEFINE n == Len(answers)
<1>2. PICK a : a = [says |-> State, old |-> FALSE]
  OBVIOUS
<1>3. /\ asked \in Nat /\ asked > 0 /\ asked' = asked - 1
      /\ answers' = Append(answers, a)
      /\ bus' = IF bus.events = <<>> THEN [bus EXCEPT !.missed = {}] ELSE bus
      /\ UNCHANGED <<status, request, shown>>
      /\ bus \in Bus /\ answers \in Seq(Answers) /\ n \in Nat
  BY <1>2 DEF Answer, PageInv, PageTypes
<1>4. State \in View /\ \A q \in Newest : State[q] = status[q]
  BY StateIsAView DEF PageInv
<1>6. a \in Answers /\ a.says = State /\ ~a.old
  BY <1>2, <1>4 DEF Answers
<1>7. /\ answers' \in Seq(Answers) /\ DOMAIN answers' = 1..(n + 1)
      /\ answers'[n + 1] = a /\ DOMAIN answers = 1..n
      /\ \A i \in 1..n : answers'[i] = answers[i]
  BY <1>3, <1>6, AppendProperties
<1>8. /\ bus' \in Bus /\ bus'.events = bus.events
      /\ bus.events = <<>> \/ bus' = bus
  <2>1. CASE bus.events = <<>>
    <3>1. bus' = [bus EXCEPT !.missed = {}]
      BY <1>3, <2>1
    <3> QED BY <3>1, <2>1, <1>3 DEF Bus
  <2>2. CASE bus.events # <<>>
    BY <2>2, <1>3
  <2> QED BY <2>1, <2>2
<1>9. PageTypes'
  <2>1. asked' \in Nat
    BY <1>3
  <2> QED BY <2>1, <1>3, <1>7, <1>8 DEF PageInv, PageTypes
<1>10. EventsHaveRuns'
  BY <1>3, <1>8 DEF PageInv, EventsHaveRuns
<1>11. EventsEndRight'
  <2>1. CASE bus.events = <<>>
    <3>1. DOMAIN bus'.events = {}
      BY <2>1, <1>8
    <3> QED BY <3>1 DEF EventsEndRight
  <2>2. CASE bus' = bus
    BY <2>2, <1>1, <1>3 DEF PageInv, EventsEndRight, Says, Corrected
  <2> QED BY <2>1, <2>2, <1>8
<1> HIDE DEF n
<1>12. ASSUME NEW q \in Newest PROVE Answered(q)'
  <2>1. n + 1 \in DOMAIN answers' /\ answers'[n + 1].says[q] = status'[q]
    BY <1>3, <1>4, <1>6, <1>7
  <2>2. \A i \in DOMAIN answers' : ~(n + 1 < i)
    BY <1>3, <1>7
  <2> QED BY <2>1, <2>2 DEF Answered
<1>13. RightInTheEnd'
  BY <1>1, <1>12 DEF RightInTheEnd
<1> QED BY <1>1, <1>9, <1>10, <1>11, <1>13 DEF PageInv

\* A question that fails: another one is out, or the page has missed something.
LEMMA ReadFailsRight == ASSUME PageInv, ReadFails PROVE PageInv'
<1>1. /\ IInv' /\ Remembered' /\ Newest' = Newest /\ Newest \subseteq Runs
      /\ \A q : Pending(q)' <=> Pending(q)
      /\ \A q : Requested(q)' <=> Requested(q)
  BY PageLeavesJobs DEF ReadFails
<1>2. /\ asked \in Nat /\ asked > 0 /\ asked' = asked - 1
      /\ bus' = IF asked = 1 THEN [bus EXCEPT !.missed = bus.missed \union {"unread"}] ELSE bus
      /\ UNCHANGED <<status, request, shown, answers>>
      /\ bus \in Bus
  BY DEF ReadFails, PageInv, PageTypes
<1>3. /\ bus' \in Bus /\ bus'.events = bus.events
      /\ bus'.missed = {} => bus.missed = {} /\ asked' > 0
  <2>1. CASE asked = 1
    <3>1. bus.missed \union {"unread"} \in SUBSET Causes
      BY <1>2 DEF Bus, Causes
    <3>2. bus' = [bus EXCEPT !.missed = bus.missed \union {"unread"}]
      BY <1>2, <2>1
    <3>3. bus' \in Bus
      BY <3>1, <3>2, <1>2 DEF Bus
    <3>4. bus'.events = bus.events /\ bus'.missed = bus.missed \union {"unread"}
      BY <3>2, <1>2 DEF Bus
    <3> QED BY <3>3, <3>4
  <2>2. CASE asked # 1
    BY <2>2, <1>2
  <2> QED BY <2>1, <2>2
<1>4. PageTypes'
  <2>1. asked' \in Nat
    BY <1>2
  <2> QED BY <2>1, <1>2, <1>3 DEF PageInv, PageTypes
<1>5. EventsHaveRuns' /\ EventsEndRight'
  BY <1>1, <1>2, <1>3 DEF PageInv, EventsHaveRuns, EventsEndRight, Says, Corrected
<1>6. RightInTheEnd'
  BY <1>1, <1>3 DEF RightInTheEnd, Coming
<1> QED BY <1>1, <1>4, <1>5, <1>6 DEF PageInv

\* A page that loads anew has a question out, and nothing to be wrong about.
LEMMA ReloadRight == ASSUME PageInv, Reload PROVE PageInv'
<1>1. IInv' /\ Remembered'
  BY PageLeavesJobs DEF Reload
<1>2. /\ bus' = [subscribed |-> FALSE, events |-> <<>>, missed |-> {}]
      /\ bus'.events = <<>> /\ DOMAIN bus'.events = {}
      /\ asked' = 1 /\ answers' = <<>> /\ answers' \in Seq(Answers)
      /\ shown' = State /\ UNCHANGED <<status, request>>
  BY DEF Reload
<1>3. bus' \in Bus
  <2>1. <<>> \in Seq(Event) /\ {} \in SUBSET Causes /\ FALSE \in BOOLEAN
    OBVIOUS
  <2> QED BY <1>2, <2>1 DEF Bus
<1>4. PageTypes'
  BY <1>2, <1>3, StateIsAView DEF PageInv, PageTypes
<1>5. EventsHaveRuns' /\ EventsEndRight' /\ RightInTheEnd'
  BY <1>2 DEF EventsHaveRuns, EventsEndRight, RightInTheEnd, Coming
<1> QED BY <1>1, <1>4, <1>5 DEF PageInv

LEMMA ArriveRight == ASSUME PageInv, NEW i \in DOMAIN answers, Arrive(i) PROVE PageInv'
<1>1. /\ IInv' /\ Remembered' /\ Newest' = Newest /\ Newest \subseteq Runs
      /\ \A q : Pending(q)' <=> Pending(q)
      /\ \A q : Requested(q)' <=> Requested(q)
  BY PageLeavesJobs DEF Arrive
<1> DEFINE n == Len(answers)
<1>2. /\ answers \in Seq(Answers) /\ n \in Nat /\ DOMAIN answers = 1..n /\ i \in 1..n
      /\ \A j \in 1..n : answers[j] \in Answers
      /\ bus \in Bus /\ shown \in View
      /\ UNCHANGED <<status, request, asked>>
      /\ shown' = Upsert(shown, answers[i].says)
      /\ answers' = [j \in 1..(n - 1) |->
                       IF j < i THEN [answers[j] EXCEPT !.old = TRUE] ELSE answers[j + 1]]
      /\ bus' = IF answers[i].old THEN [bus EXCEPT !.missed = bus.missed \union {"stale"}] ELSE bus
  BY DEF PageInv, PageTypes, Arrive
<1> HIDE DEF n
<1>3. /\ bus' \in Bus /\ bus'.events = bus.events
      /\ bus'.missed = {} => bus.missed = {} /\ ~answers[i].old
  <2>1. CASE answers[i].old
    <3>1. bus.missed \union {"stale"} \in SUBSET Causes
      BY <1>2 DEF Bus, Causes
    <3>2. bus' = [bus EXCEPT !.missed = bus.missed \union {"stale"}]
      BY <1>2, <2>1
    <3>3. bus' \in Bus
      BY <3>1, <3>2, <1>2 DEF Bus
    <3>4. bus'.events = bus.events /\ bus'.missed = bus.missed \union {"stale"}
      BY <3>2, <1>2 DEF Bus
    <3> QED BY <3>3, <3>4
  <2>2. CASE ~answers[i].old
    BY <2>2, <1>2
  <2> QED BY <2>1, <2>2
<1>4. answers[i] \in Answers /\ answers[i].says \in View
  BY <1>2 DEF Answers
<1>5. /\ shown' \in View
      /\ \A q \in Runs : shown'[q] = IF answers[i].says[q] = "absent" THEN shown[q]
                                     ELSE answers[i].says[q]
  BY <1>2, <1>4 DEF Upsert, View
<1>6. \A j \in 1..(n - 1) : j \in 1..n /\ j + 1 \in 1..n
  BY <1>2
<1>7. ASSUME NEW j \in 1..(n - 1), j < i
      PROVE  answers'[j] \in Answers /\ answers'[j].old
  <2>1. PICK a \in Answers : a = answers[j]
    BY <1>2, <1>6
  <2>2. answers'[j] = [a EXCEPT !.old = TRUE]
    BY <2>1, <1>2, <1>7
  <2> QED BY <2>2 DEF Answers
<1>8. ASSUME NEW j \in 1..(n - 1), ~(j < i)
      PROVE  answers'[j] \in Answers /\ answers'[j] = answers[j + 1]
  BY <1>2, <1>6, <1>8
<1>9. answers' \in Seq(Answers) /\ DOMAIN answers' = 1..(n - 1)
  <2>1. n - 1 \in Nat
    BY <1>2
  <2>2. answers' = [j \in 1..(n - 1) |-> answers'[j]]
    BY <1>2
  <2>3. answers' \in [1..(n - 1) -> Answers]
    BY <2>2, <1>7, <1>8
  <2> QED BY <2>1, <2>3, SeqDef
<1>10. PageTypes'
  BY <1>2, <1>3, <1>5, <1>9 DEF PageInv, PageTypes
<1>11. EventsHaveRuns' /\ EventsEndRight' /\ \A q : Corrected(0, q) <=> Corrected(0, q)'
  BY <1>1, <1>2, <1>3 DEF PageInv, EventsHaveRuns, EventsEndRight, Says, Corrected
<1>12. RightInTheEnd'
  <2> SUFFICES ASSUME bus'.missed = {}, NoneIsOld', NEW q \in Newest
               PROVE  Coming(q)' \/ Showing(q)' \/ Answered(q)'
    BY <1>1 DEF RightInTheEnd
  <2>1. i = 1
    <3> SUFFICES ASSUME i # 1 PROVE FALSE
      OBVIOUS
    <3>1. 1 \in 1..(n - 1) /\ 1 < i
      BY <1>2
    <3> QED BY <3>1, <1>7, <1>9 DEF NoneIsOld
  <2>2. \A j \in 1..(n - 1) : answers'[j] = answers[j + 1]
    BY <2>1, <1>8
  <2>3. bus.missed = {} /\ NoneIsOld
    <3>1. ASSUME NEW j \in 1..n PROVE ~answers[j].old
      <4>1. CASE j = 1
        BY <4>1, <2>1, <1>3
      <4>2. CASE j # 1
        <5>1. j - 1 \in 1..(n - 1) /\ (j - 1) + 1 = j
          BY <4>2, <1>2
        <5> QED BY <5>1, <2>2, <1>9 DEF NoneIsOld
      <4> QED BY <4>1, <4>2
    <3> QED BY <3>1, <1>2, <1>3 DEF NoneIsOld
  <2>4. Coming(q) \/ Showing(q) \/ Answered(q)
    BY <2>3 DEF PageInv, RightInTheEnd
  <2>5. Coming(q) => Coming(q)'
    BY <1>1, <1>2, <1>11 DEF Coming
  <2>6. q \in Runs /\ 1 \in DOMAIN answers
    BY <1>1, <1>2, <2>1
  <2>7. Showing(q) => Showing(q)'
    <3> SUFFICES ASSUME Showing(q) PROVE Showing(q)'
      OBVIOUS
    <3>1. answers[1].says[q] \in {status[q], "absent"}
      BY <2>6 DEF Showing, Agrees
    <3>2. shown'[q] = status[q]
      BY <3>1, <2>1, <2>6, <1>5 DEF Showing
    <3>3. \A j \in 1..(n - 1) : answers'[j].says[q] \in {status[q], "absent"}
      BY <2>2, <1>2, <1>6 DEF Showing, Agrees
    <3> QED BY <3>2, <3>3, <1>2, <1>9 DEF Showing, Agrees
  <2>8. Answered(q) => Showing(q)' \/ Answered(q)'
    <3> SUFFICES ASSUME NEW j \in 1..n, answers[j].says[q] = status[q],
                        \A k \in 1..n : j < k => Agrees(answers[k], q)
                 PROVE  Showing(q)' \/ Answered(q)'
      BY <1>2 DEF Answered
    <3>1. \A k \in 1..(n - 1) :
            j < k + 1 => answers'[k].says[q] \in {status'[q], "absent"}
      BY <2>2, <1>2, <1>6 DEF Agrees
    <3>2. CASE j = 1
      <4>1. status[q] # "absent"
        BY <2>6 DEF PageInv, IInv, Typed, Status
      <4>2. shown'[q] = status'[q]
        BY <4>1, <3>2, <2>1, <2>6, <1>2, <1>5
      <4>3. \A k \in 1..(n - 1) : j < k + 1
        BY <3>2, <1>2
      <4> QED BY <4>2, <4>3, <3>1, <1>9 DEF Showing, Agrees
    <3>3. CASE j # 1
      <4>1. j - 1 \in 1..(n - 1) /\ (j - 1) + 1 = j
        BY <3>3, <1>2
      <4>2. answers'[j - 1].says[q] = status'[q]
        BY <4>1, <2>2, <1>2
      <4>3. \A k \in 1..(n - 1) : j - 1 < k => j < k + 1
        BY <1>2
      <4> QED BY <4>1, <4>2, <4>3, <3>1, <1>9 DEF Answered, Agrees
    <3> QED BY <3>2, <3>3
  <2> QED BY <2>4, <2>5, <2>7, <2>8
<1> QED BY <1>1, <1>10, <1>11, <1>12 DEF PageInv

\* The page's invariant is inductive, for every number of runs, every size of the
\* history and of the bus, and re-reads that fail or overtake one another in any way.
THEOREM PageInductive == PageInv /\ [Next]_vars => PageInv'
<1> SUFFICES ASSUME PageInv, [Next]_vars PROVE PageInv'
  OBVIOUS
<1>1. CASE [JobNext]_jobVars /\ UNCHANGED pageVars
  BY <1>1, JobStepRight
<1>2. CASE Page
  BY <1>2, OpenRight, LoseLinkRight, HandleJobRight, HandleOtherRight, PollRight,
     AnswerRight, ReadFailsRight, ReloadRight, ArriveRight DEF Page
<1> QED BY <1>1, <1>2 DEF Next, vars

\* When nothing is under way, an open page shows each of the newest runs as it is,
\* unless it was deprived of news in one of five ways and has not been answered
\* since (web/events.py, static/app.js: events and re-reads reach the page in any
\* order, and one that succeeds puts everything right).
THEOREM PageIsRight == Spec => []QuietPageIsRight
BY InitRight, PageInductive, QuietShowsTheTruth, PTL DEF Spec

\* What the types say beyond PageInv: the bounds, and who is where.
Bounds ==
  /\ unparsable \subseteq Runs /\ stopping \in BOOLEAN
  /\ request.at \in {"idle", "registered", "queued", "read"}
  /\ request.run \in Runs \union {None}
  /\ Len(bus.events) <= QueueSize
  /\ link \in {"down", "open"} /\ polling \in BOOLEAN
  /\ asked + Len(answers) <= MaxReads /\ losses \in 0..MaxLosses

LEMMA BoundsHold == Init => Bounds
<1> SUFFICES ASSUME Init PROVE Bounds
  OBVIOUS
<1>1. /\ Len(answers) = 0 /\ asked = 1 /\ Len(bus.events) = 0
  BY DEF Init, JobInit
<1>2. /\ request.at = "idle" /\ request.run = None /\ unparsable = {} /\ stopping = FALSE
      /\ link = "down" /\ polling = FALSE /\ losses = 0
  BY DEF Init, JobInit
<1>3. /\ asked + Len(answers) <= MaxReads /\ Len(bus.events) <= QueueSize
      /\ losses \in 0..MaxLosses
  BY <1>1, <1>2, JobQueueAssumption, JobPageAssumption
<1>4. unparsable \subseteq Runs /\ stopping \in BOOLEAN /\ polling \in BOOLEAN
  BY <1>2
<1> QED BY <1>2, <1>3, <1>4 DEF Bounds

\* A publication fills the queue of the bus no further than its size.
LEMMA PublishedFits ==
  ASSUME NEW b \in Bus, Len(b.events) <= QueueSize, NEW e \in Event
  PROVE  LET c == Published(b, e) IN Len(c.events) <= QueueSize /\ c.events \in Seq(Event)
<1>1. Len(b.events) \in Nat /\ b.events \in Seq(Event) /\ QueueSize \in Nat
  BY JobQueueAssumption DEF Bus
<1>2. \A cause : Deprive(b, cause, e).events = b.events
  BY DEF Deprive, Bus
<1>3. CASE b.subscribed /\ Len(b.events) # QueueSize
  <2>1. Published(b, e).events = Append(b.events, e)
    BY <1>3 DEF Published, Bus
  <2>2. Len(Append(b.events, e)) = Len(b.events) + 1 /\ Append(b.events, e) \in Seq(Event)
    BY <1>1, AppendProperties
  <2> QED BY <1>1, <1>3, <2>1, <2>2
<1>4. CASE ~(b.subscribed /\ Len(b.events) # QueueSize)
  <2>1. Published(b, e).events = b.events
    BY <1>2, <1>4 DEF Published
  <2> QED BY <1>1, <2>1
<1> QED BY <1>3, <1>4

LEMMA JobStepBounds == ASSUME PageInv, Bounds, JobNext, UNCHANGED pageVars PROVE Bounds'
<1>1. /\ bus \in Bus /\ Len(bus.events) <= QueueSize
      /\ request = [at |-> request.at, run |-> request.run, saw |-> request.saw]
      /\ request.saw \in Status /\ \A r \in Runs : status[r] \in Status \union {"new"}
      /\ request.at # "idle" => request.run \in Runs
      /\ request.run \in Runs \union {None}
  BY DEF PageInv, PageTypes, IInv, Typed, Bounds
<1>5. ASSUME worker.at \in {"announce", "work", "announceEnd", "nudge"}
      PROVE  worker.run \in Runs /\ status[worker.run] \in Status
  <2>1. worker.run \in Runs /\ Started(worker.run)
    BY <1>5 DEF PageInv, IInv, Hands, Busy
  <2> QED BY <1>1, <2>1 DEF Started
<1>2. /\ unparsable' \subseteq Runs /\ stopping' \in BOOLEAN
  BY DEF JobNext, Submission, Submit, Enqueue, ReadRun, PublishSubmitted, Stop, Emit, Steps,
         Check, Take, Start, ParserExits, Nudge, Announce, Finish, Bounds
<1>3. /\ request'.at \in {"idle", "registered", "queued", "read"}
      /\ request'.run \in Runs \union {None}
  <2>1. \/ request' = request
        \/ \E r \in Runs : request' = [at |-> "registered", run |-> r, saw |-> "queued"]
        \/ request' = [request EXCEPT !.at = "queued"]
        \/ request' = [request EXCEPT !.at = "read", !.saw = status[request.run]]
        \/ request' = [at |-> "idle", run |-> None, saw |-> "queued"]
    BY DEF JobNext, Submission, Submit, Enqueue, ReadRun, PublishSubmitted, Stop, Emit, Steps,
           Check, Take, Start, ParserExits, Nudge, Announce, Finish
  <2>2. CASE request' = [request EXCEPT !.at = "read", !.saw = status[request.run]]
    <3> DEFINE s == status[request.run]
    <3>1. request' = [at |-> "read", run |-> request.run, saw |-> s]
      BY <1>1, <2>2
    <3> HIDE DEF s
    <3> QED BY <1>1, <3>1
  <2>3. CASE request' = [request EXCEPT !.at = "queued"]
    BY <1>1, <2>3
  <2> QED BY <2>1, <2>2, <2>3 DEF Bounds
<1>4. Len(bus'.events) <= QueueSize
  <2>1. CASE bus' = bus
    BY <1>1, <2>1
  <2>2. CASE \E e \in Event : bus' = Published(bus, e)
    BY <1>1, <2>2, PublishedFits
  <2>3. CASE PublishSubmitted
    <3> DEFINE e == Job(request.run, request.saw)
               b == Published(bus, e)
               c == [b EXCEPT !.missed = @ \union {"late"}]
    <3>1. e \in Event
      BY <1>1, <2>3 DEF PublishSubmitted, Job, Event
    <3>2. Len(b.events) <= QueueSize
      BY <1>1, <3>1, PublishedFits
    <3>3. bus' = b \/ bus' = c
      BY <2>3 DEF PublishSubmitted
    <3>4. c.events = b.events
      <4>1. \A cause \in Causes : Deprive(bus, cause, e) \in Bus
        BY <1>1 DEF Deprive, Bus
      <4> QED BY <1>1, <4>1 DEF Published, Bus, Causes
    <3> HIDE DEF b, c
    <3> QED BY <3>2, <3>3, <3>4
  <2>4. CASE Emit \/ Nudge \/ Announce("announce", "work") \/ Announce("announceEnd", "nudge")
    <3>1. worker.run \in Runs /\ status[worker.run] \in Status
      BY <1>5, <2>4 DEF Emit, Nudge, Announce
    <3>2. /\ Job(worker.run, status[worker.run]) \in Event
          /\ JobLog(worker.run) \in Event /\ Changed(worker.run) \in Event
      BY <3>1 DEF Job, JobLog, Changed, Event, Status
    <3>3. \E e \in Event : bus' = Published(bus, e)
      BY <2>4, <3>2 DEF Emit, Nudge, Announce
    <3> QED BY <2>2, <3>3
  <2>5. bus' = bus \/ PublishSubmitted \/ Emit \/ Nudge
        \/ Announce("announce", "work") \/ Announce("announceEnd", "nudge")
    BY DEF JobNext, Submission, Submit, Enqueue, ReadRun, Stop, Steps, Check, Take, Start,
           ParserExits, Finish
  <2> QED BY <2>1, <2>3, <2>4, <2>5
<1> QED BY <1>2, <1>3, <1>4 DEF Bounds, pageVars

LEMMA PageStepBounds == ASSUME PageInv, Bounds, Page PROVE Bounds'
<1>1. /\ bus \in Bus /\ bus.events \in Seq(Event) /\ Len(bus.events) \in Nat
      /\ Len(bus.events) <= QueueSize /\ QueueSize \in Nat
      /\ asked \in Nat /\ answers \in Seq(Answers) /\ Len(answers) \in Nat
      /\ DOMAIN answers = 1..Len(answers)
      /\ asked + Len(answers) <= MaxReads /\ MaxReads \in Nat /\ MaxLosses \in Nat
      /\ losses \in 0..MaxLosses
  BY JobQueueAssumption, JobPageAssumption DEF PageInv, PageTypes, Bounds, Bus
<1>2. /\ UNCHANGED <<unparsable, stopping, request>>
      /\ link' \in {"down", "open"} /\ polling' \in BOOLEAN
      /\ losses' \in 0..MaxLosses
  <2>1. UNCHANGED <<unparsable, stopping, request>>
    BY DEF Page, Open, LoseLink, HandleJob, HandleOther, Poll, Answer, Arrive,
           ReadFails, Reload, jobVars
  <2>2. \/ UNCHANGED <<link, polling, losses>>
        \/ link' \in {"open", "down"} /\ polling' = FALSE /\ losses' = losses
        \/ link' = "down" /\ polling' = TRUE /\ losses < MaxLosses /\ losses' = losses + 1
    BY DEF Page, Open, LoseLink, HandleJob, HandleOther, Poll, Answer, Arrive,
           ReadFails, Reload
  <2>3. link \in {"down", "open"} /\ polling \in BOOLEAN
    BY DEF Bounds
  <2>4. losses < MaxLosses => losses + 1 \in 0..MaxLosses
    BY <1>1
  <2> QED BY <1>1, <2>1, <2>2, <2>3, <2>4
<1>3. Len(bus'.events) <= QueueSize
  <2>1. CASE HandleJob \/ HandleOther
    <3>1. bus.events # <<>> /\ bus'.events = Tail(bus.events)
      BY <1>1, <2>1 DEF HandleJob, HandleOther, Bus
    <3>2. Len(Tail(bus.events)) = Len(bus.events) - 1
      BY <1>1, <3>1, HeadTailProperties
    <3> QED BY <1>1, <3>1, <3>2
  <2>2. CASE LoseLink \/ Reload
    <3>1. bus'.events = <<>>
      BY <2>2 DEF LoseLink, Reload
    <3> QED BY <1>1, <3>1
  <2>3. CASE Open \/ Poll \/ Answer \/ ReadFails \/ \E i \in DOMAIN answers : Arrive(i)
    <3>1. bus'.events = bus.events
      BY <1>1, <2>3 DEF Open, Poll, Answer, ReadFails, Arrive, jobVars, Bus
    <3> QED BY <1>1, <3>1
  <2> QED BY <2>1, <2>2, <2>3 DEF Page
<1>4. asked' + Len(answers') <= MaxReads
  <2>1. CASE Answer
    <3> DEFINE a == [says |-> State, old |-> FALSE]
    <3>1. asked' = asked - 1 /\ answers' = Append(answers, a)
      BY <2>1 DEF Answer
    <3> HIDE DEF a
    <3>2. Len(Append(answers, a)) = Len(answers) + 1
      BY <1>1
    <3> QED BY <1>1, <3>1, <3>2
  <2>2. ASSUME NEW i \in DOMAIN answers, Arrive(i) PROVE asked' + Len(answers') <= MaxReads
    <3>1. Len(answers) - 1 \in Nat /\ DOMAIN answers' = 1..(Len(answers) - 1) /\ asked' = asked
      BY <1>1, <2>2 DEF Arrive
    <3>2. Len(answers') = Len(answers) - 1
      BY <3>1
    <3> QED BY <1>1, <3>1, <3>2
  <2>3. CASE HandleJob
    <3>1. DOMAIN answers' = 1..Len(answers) /\ asked' = asked
      BY <1>1, <2>3 DEF HandleJob
    <3>2. Len(answers') = Len(answers)
      BY <1>1, <3>1
    <3> QED BY <1>1, <3>1, <3>2
  <2>4. CASE Open \/ LoseLink \/ HandleOther \/ Poll
    <3>1. answers' = answers
      BY <2>4 DEF Open, LoseLink, HandleOther, Poll
    <3>2. asked' = asked \/ (asked' = asked + 1 /\ asked + Len(answers) < MaxReads)
      BY <2>4 DEF Open, LoseLink, HandleOther, Poll, Room
    <3> QED BY <1>1, <3>1, <3>2
  <2>5. CASE ReadFails
    <3>1. answers' = answers /\ asked' = asked - 1
      BY <2>5 DEF ReadFails
    <3> QED BY <1>1, <3>1
  <2>6. CASE Reload
    <3>1. Len(answers') = 0 /\ asked' = 1
      BY <2>6 DEF Reload
    <3> QED BY <1>1, <3>1, JobPageAssumption
  <2> QED BY <2>1, <2>2, <2>3, <2>4, <2>5, <2>6 DEF Page
<1> QED BY <1>2, <1>3, <1>4 DEF Bounds

\* Every reachable state of the queue and the page is of the declared types, and the
\* bus holds no more than its size.
THEOREM TypeCorrect == Spec => []TypeOK
<1>1. PageInv /\ Bounds /\ [Next]_vars => Bounds'
  <2>1. PageInv /\ Bounds /\ UNCHANGED vars => Bounds'
    BY DEF Bounds, vars, jobVars, pageVars
  <2> QED BY <2>1, JobStepBounds, PageStepBounds DEF Next
<1>2. ASSUME PageInv, Bounds PROVE TypeOK
  <2>1. JobTypeOK
    BY <1>2 DEF PageInv, IInv, Typed, Remembered, PageTypes, Bounds, Bus, JobTypeOK
  <2>2. asked \in 0..MaxReads
    BY <1>2, JobPageAssumption DEF PageInv, PageTypes, Bounds
  <2> QED BY <1>2, <2>1, <2>2 DEF PageInv, PageTypes, Bounds, Answers, TypeOK
<1> QED BY InitRight, PageInductive, BoundsHold, <1>1, <1>2, PTL DEF Spec
=============================================================================
