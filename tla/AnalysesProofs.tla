--------------------------- MODULE AnalysesProofs ---------------------------
(***************************************************************************)
(* The polls, the feature gates and the analyses, for rosters and lists of *)
(* any length, any budget and any number of polls, syncs and faults.       *)
(*                                                                         *)
(* 1.  Every change that the polls store is analysed, or has one of the    *)
(* named reasons not to be.  ChangesAreAnalysed speaks of the moments at   *)
(* which nobody polls.  What carries it from one to the next is the job's  *)
(* memory that something has changed (Remembered): while the last analysis *)
(* is behind the snapshots the job still knows it, and half way through    *)
(* the analysis it is behind in the free agents alone (HalfWay).           *)
(*                                                                         *)
(* 2.  The gates follow the settings: what the one sync under way has      *)
(* still to set is as the settings say, and every gate that is wrong is    *)
(* among it (GatesComing).                                                 *)
(*                                                                         *)
(* 3.  What a waiver analysis answers.  A ranking by a key and the id is   *)
(* total and strict (OrderIsFull, by the least set that has no first       *)
(* member), so the weakest player, the claims and the bids are what their  *)
(* definitions say (WeakestIs, ClaimsAre, BidsAreRight); every worthy swap *)
(* is claimed but for better ones (BestAreClaimed).                        *)
(*                                                                         *)
(* 4.  The answers stand on the settings the analysis read, wherever the   *)
(* steps of a sync fall among its own (Facts, Sound).                      *)
(*                                                                         *)
(* 5.  The greedy lineup is the best one.  Whatever lineup is to be        *)
(* beaten, at each step of the solver there is a legal one as good that    *)
(* begins as the solver has so far (Reaches for the required seats,        *)
(* Follows for the optional ones): where it differs at the next step, an   *)
(* exchange of two players makes it agree and costs nothing (Exchange,     *)
(* Replace). The integer program's answers are the best matchings by       *)
(* definition (LineupsAre).                                                *)
(*                                                                         *)
(* 6.  Trades cost no starter.  Whoever is first on the bench comes after  *)
(* as many of his position as it has seats, so one of these is free to     *)
(* take his seat in any lineup that has him (SeatsForStarters,             *)
(* SparedInLineups).                                                       *)
(***************************************************************************)
EXTENDS LeaguePoll, Analyses, SequenceTheorems, FiniteSetTheorems, WellFoundedInduction, TLAPS

Job == poller["job"]

IsPoller(r) ==
  /\ r.part \in Parts /\ r.changed \in BOOLEAN
  /\ r = [at |-> r.at, part |-> r.part, before |-> r.before, read |-> r.read,
          changed |-> r.changed]

Typed ==
  /\ DOMAIN poller = Pollers /\ poller = [p \in Pollers |-> poller[p]]
  /\ \A p \in Pollers : IsPoller(poller[p])
  /\ stored = [rosters |-> stored.rosters, agents |-> stored.agents]
  /\ analysed = [rosters |-> analysed.rosters, agents |-> analysed.agents]

Remembered ==
  /\ analysed = stored \/ excuse # "none" \/ Job.changed
  /\ Job.changed => Job.at # "idle"
  /\ Job.at \in {"analyse", "read"} => Job.changed

HalfWay ==
  Job.at = "read" => analysed.rosters = stored.rosters \/ excuse # "none"

PollInv == Typed /\ Remembered /\ HalfWay

-----------------------------------------------------------------------------
LEMMA PollRemembers == PollInit => PollInv
<1>1. IsPoller(Away)
  BY DEF IsPoller, Away, Parts
<1>2. Away.at = "idle" /\ Away.changed = FALSE
  BY DEF Away
<1>3. ASSUME PollInit PROVE Typed
  <2>1. poller = [p \in Pollers |-> Away] /\ stored \in Snapshots /\ analysed = stored
    BY <1>3 DEF PollInit, Snapshots
  <2> QED BY <2>1, <1>1 DEF Typed, Snapshots
<1> QED BY <1>2, <1>3 DEF PollInit, PollInv, Remembered, HalfWay, Job, Pollers

\* A step of a poll that stores nothing: it goes on from where it stood, before the
\* analysis, with what it had found.
LEMMA GoesOn ==
  ASSUME PollInv, NEW p \in Pollers, NEW n,
         poller' = [poller EXCEPT ![p] = n], IsPoller(n),
         UNCHANGED <<stored, analysed, excuse>>,
         p = "job" =>
           /\ Job.changed <=> n.changed
           /\ n.changed => n.at # "idle"
           /\ n.at # "read" /\ (n.at = "analyse" => n.changed)
  PROVE  PollInv'
<1>1. /\ poller' = [q \in Pollers |-> IF q = p THEN n ELSE poller[q]]
      /\ DOMAIN poller' = Pollers
  BY DEF PollInv, Typed
<1>2. Job' = IF p = "job" THEN n ELSE Job
  BY <1>1 DEF Job, Pollers
<1>3. Typed'
  BY <1>1 DEF PollInv, Typed
<1>4. Remembered' /\ HalfWay'
  BY <1>2 DEF PollInv, Remembered, HalfWay
<1> QED BY <1>3, <1>4 DEF PollInv

LEMMA BeginKeeps == ASSUME PollInv, NEW p \in Pollers, Begin(p) PROVE PollInv'
<1>1. PICK n : n = [Away EXCEPT !.at = "compare"]
  OBVIOUS
<1>2. n = [at |-> "compare", part |-> "rosters", before |-> {}, read |-> {},
           changed |-> FALSE]
  BY <1>1 DEF Away
<1>3. IsPoller(n) /\ n.at = "compare" /\ n.changed = FALSE
  BY <1>2 DEF Parts, IsPoller
<1>4. p = "job" => ~Job.changed
  BY DEF Begin, PollInv, Remembered, Job
<1>5. /\ poller' = [poller EXCEPT ![p] = n] /\ UNCHANGED <<stored, analysed, excuse>>
  BY <1>1 DEF Begin
<1> QED BY <1>3, <1>4, <1>5, GoesOn

LEMMA Compared ==
  ASSUME NEW r, IsPoller(r), NEW x,
         NEW n, n = [r EXCEPT !.at = "fetch", !.before = x]
  PROVE  IsPoller(n) /\ n.changed = r.changed /\ n.at = "fetch"
<1>1. n = [at |-> "fetch", part |-> r.part, before |-> x, read |-> r.read,
           changed |-> r.changed]
  BY DEF IsPoller
<1> QED BY <1>1 DEF IsPoller

LEMMA Fetched ==
  ASSUME NEW r, IsPoller(r), NEW x,
         NEW n, n = [r EXCEPT !.at = "save", !.read = x]
  PROVE  IsPoller(n) /\ n.changed = r.changed /\ n.at = "save"
<1>1. n = [at |-> "save", part |-> r.part, before |-> r.before, read |-> x,
           changed |-> r.changed]
  BY DEF IsPoller
<1> QED BY <1>1 DEF IsPoller

LEMMA MovesOn ==
  ASSUME PollInv, NEW p \in Pollers, Compare(p) \/ Fetch(p) PROVE PollInv'
<1>1. IsPoller(poller[p]) /\ p \in DOMAIN poller
  BY DEF PollInv, Typed
<1>2. PICK n : /\ poller' = [poller EXCEPT ![p] = n]
               /\ \/ n = [poller[p] EXCEPT !.at = "fetch", !.before = stored[poller[p].part]]
                  \/ n = [poller[p] EXCEPT !.at = "save", !.read = site[poller[p].part]]
  BY <1>1 DEF Compare, Fetch
<1>3. IsPoller(n) /\ n.changed = poller[p].changed /\ n.at \in {"fetch", "save"}
  <2> DEFINE r == poller[p]
             x == stored[r.part]
             y == site[r.part]
  <2>1. CASE n = [r EXCEPT !.at = "fetch", !.before = x]
    <3>1. IsPoller(r)
      BY <1>1
    <3> HIDE DEF r, x
    <3>2. IsPoller(n) /\ n.changed = r.changed /\ n.at = "fetch"
      BY Zenon, <2>1, <3>1, Compared
    <3> QED BY <3>2 DEF r
  <2>2. CASE n = [r EXCEPT !.at = "save", !.read = y]
    <3>1. IsPoller(r)
      BY <1>1
    <3> HIDE DEF r, y
    <3>2. IsPoller(n) /\ n.changed = r.changed /\ n.at = "save"
      BY Zenon, <2>2, <3>1, Fetched
    <3> QED BY <3>2 DEF r
  <2> QED BY <1>2, <2>1, <2>2
<1>4. UNCHANGED <<stored, analysed, excuse>> /\ poller[p].at # "idle"
  BY DEF Compare, Fetch
<1> QED BY <1>2, <1>3, <1>4, GoesOn DEF Job

LEMMA FollowingShape ==
  ASSUME NEW p \in Pollers, NEW changed \in BOOLEAN
  PROVE  LET n == Following(p, changed)
         IN /\ IsPoller(n)
            /\ p = "job" => /\ n.changed <=> changed
                            /\ n.changed => n.at # "idle"
                            /\ n.at # "read" /\ (n.at = "analyse" => n.changed)
BY DEF Following, Away, Parts, IsPoller

LEMMA SameKeeps == ASSUME PollInv, NEW p \in Pollers, Same(p) PROVE PollInv'
<1>1. PICK n : n = Following(p, poller[p].changed)
  OBVIOUS
<1>2. /\ poller' = [poller EXCEPT ![p] = n] /\ UNCHANGED <<stored, analysed, excuse>>
  BY <1>1 DEF Same
<1>3. /\ IsPoller(n)
      /\ p = "job" => /\ n.changed <=> Job.changed
                      /\ n.changed => n.at # "idle"
                      /\ n.at # "read" /\ (n.at = "analyse" => n.changed)
  <2>1. poller[p].changed \in BOOLEAN
    BY DEF PollInv, Typed, IsPoller
  <2> QED BY <1>1, <2>1, FollowingShape DEF Job
<1> QED BY <1>2, <1>3, GoesOn

LEMMA EnvironmentKeeps == PollInv /\ (Change \/ NextSecond \/ UNCHANGED pollVars) => PollInv'
BY DEF Change, NextSecond, pollVars, PollInv, Typed, Remembered, HalfWay, Job

LEMMA FailKeeps == ASSUME PollInv, NEW p \in Pollers, Fail(p) PROVE PollInv'
<1>1. poller' = [poller EXCEPT ![p] = Away] /\ UNCHANGED <<stored, analysed>>
      /\ excuse' = IF poller[p].changed THEN "fault" ELSE excuse
  BY DEF Fail
<1>2. IsPoller(Away) /\ Away.at = "idle" /\ Away.changed = FALSE
  BY DEF IsPoller, Away, Parts
<1>3. Typed'
  BY <1>1, <1>2 DEF PollInv, Typed
<1>4. Job' = IF p = "job" THEN Away ELSE Job
  BY <1>1 DEF PollInv, Typed, Job, Pollers
<1>5. excuse # "none" => excuse' # "none"
  BY <1>1
<1>6. CASE p = "job"
  <2>1. Job.changed => excuse' # "none"
    BY <1>1, <1>6 DEF Job
  <2> QED BY <1>1, <1>2, <1>3, <1>4, <1>5, <1>6, <2>1 DEF PollInv, Remembered, HalfWay
<1>7. CASE p # "job"
  BY <1>1, <1>3, <1>4, <1>5, <1>7 DEF PollInv, Remembered, HalfWay
<1> QED BY <1>6, <1>7

LEMMA SaveKeeps == ASSUME PollInv, NEW p \in Pollers, Save(p) PROVE PollInv'
<1>1. PICK n : n = Following(p, Changed(p))
  OBVIOUS
<1>2. /\ poller' = [poller EXCEPT ![p] = n] /\ analysed' = analysed
      /\ stored' = [stored EXCEPT ![poller[p].part] =
                      Snapshot(poller[p].part, poller[p].read)]
      /\ excuse' = IF poller[p].before = {} THEN "first"
                   ELSE IF p = "command" THEN "command" ELSE excuse
      /\ poller[p].at = "save"
  BY <1>1 DEF Save
<1>3. Changed(p) \in BOOLEAN
  BY DEF Changed
<1>4. /\ IsPoller(n)
      /\ p = "job" => /\ n.changed <=> Changed(p)
                      /\ n.changed => n.at # "idle"
                      /\ n.at # "read" /\ (n.at = "analyse" => n.changed)
  BY <1>1, <1>3, FollowingShape
<1>5. Typed'
  BY <1>2, <1>4 DEF PollInv, Typed
<1>6. Job' = IF p = "job" THEN n ELSE Job
  BY <1>2 DEF PollInv, Typed, Job, Pollers
<1>7. excuse' # "none" \/ (p = "job" /\ n.changed)
  <2>1. CASE p = "command"
    BY <1>2, <2>1
  <2>2. CASE p = "job" /\ poller[p].before = {}
    BY <1>2, <2>2
  <2>3. CASE p = "job" /\ poller[p].before # {}
    BY <1>4, <2>3 DEF Changed
  <2> QED BY <2>1, <2>2, <2>3 DEF Pollers
<1>8. Remembered' /\ HalfWay'
  <2>1. CASE p = "job"
    BY <1>4, <1>6, <1>7, <2>1 DEF Remembered, HalfWay
  <2>2. CASE p # "job"
    BY <1>2, <1>6, <1>7, <2>2 DEF PollInv, Remembered, HalfWay
  <2> QED BY <2>1, <2>2
<1> QED BY <1>5, <1>8 DEF PollInv

LEMMA DeclineKeeps == ASSUME PollInv, Decline PROVE PollInv'
<1>1. /\ poller' = [poller EXCEPT !["job"] = Away] /\ UNCHANGED <<stored, analysed>>
      /\ excuse' = "unready"
  BY DEF Decline
<1>2. IsPoller(Away) /\ Away.at = "idle" /\ Away.changed = FALSE
  BY DEF Away, Parts, IsPoller
<1>3. Job' = Away
  BY <1>1 DEF PollInv, Typed, Job, Pollers
<1>4. Typed'
  BY <1>1, <1>2 DEF PollInv, Typed
<1> QED BY <1>1, <1>2, <1>3, <1>4 DEF PollInv, Remembered, HalfWay

LEMMA ReadRostersKeeps == ASSUME PollInv, ReadRosters PROVE PollInv'
<1>1. PICK n : n = [Away EXCEPT !.at = "read", !.changed = TRUE]
  OBVIOUS
<1>2. /\ poller' = [poller EXCEPT !["job"] = n] /\ stored' = stored
      /\ analysed' = [analysed EXCEPT !.rosters = stored.rosters]
  BY <1>1 DEF ReadRosters
<1>3. IsPoller(n) /\ n.at = "read" /\ n.changed = TRUE
  <2>1. n = [at |-> "read", part |-> "rosters", before |-> {}, read |-> {},
             changed |-> TRUE]
    BY <1>1 DEF Away
  <2> QED BY <2>1 DEF Parts, IsPoller
<1>4. Job' = n
  BY <1>2 DEF PollInv, Typed, Job, Pollers
<1>5. analysed'.rosters = stored'.rosters
  BY <1>2 DEF PollInv, Typed
<1>6. Typed'
  BY <1>2, <1>3 DEF PollInv, Typed
<1>7. Remembered' /\ HalfWay'
  BY <1>2, <1>3, <1>4, <1>5 DEF Remembered, HalfWay
<1> QED BY <1>6, <1>7 DEF PollInv

LEMMA ReadAgentsKeeps == ASSUME PollInv, ReadAgents PROVE PollInv'
<1>1. /\ poller' = [poller EXCEPT !["job"] = Away] /\ stored' = stored
      /\ analysed' = [analysed EXCEPT !.agents = stored.agents]
      /\ excuse' = IF stored.agents = {} THEN "empty" ELSE excuse
      /\ Job.at = "read"
  BY DEF ReadAgents, Job
<1>2. IsPoller(Away) /\ Away.at = "idle" /\ Away.changed = FALSE
  BY DEF Away, Parts, IsPoller
<1>3. Job' = Away
  BY <1>1 DEF PollInv, Typed, Job, Pollers
<1>4. Typed'
  BY <1>1, <1>2 DEF PollInv, Typed
<1>5. analysed' = stored' \/ excuse' # "none"
  <2>1. CASE excuse # "none"
    BY <1>1, <2>1
  <2>2. CASE analysed.rosters = stored.rosters
    BY <1>1, <2>2 DEF PollInv, Typed
  <2> QED BY <1>1, <2>1, <2>2 DEF PollInv, HalfWay
<1>6. Remembered' /\ HalfWay'
  BY <1>2, <1>3, <1>5 DEF Remembered, HalfWay
<1> QED BY <1>4, <1>6 DEF PollInv

\* The job remembers a change until the analysis has seen it: the strengthened
\* invariant, for all lists and any number of changes and failures.
THEOREM PollInductive == PollInv /\ [PollNext]_pollVars => PollInv'
BY EnvironmentKeeps, BeginKeeps, MovesOn, SameKeeps, SaveKeeps, FailKeeps,
   DeclineKeeps, ReadRostersKeeps, ReadAgentsKeeps
   DEF PollNext, Work, Look

\* When nobody polls, the last analysis saw what is stored, or a named reason says
\* why not (JobRunner.poll_state: "A change is a trigger").
THEOREM ChangesAnalysed == PollSpec => []ChangesAreAnalysed
<1>1. PollInv => ChangesAreAnalysed
  BY DEF PollInv, Remembered, ChangesAreAnalysed, Job, Pollers
<1> QED BY PollRemembers, PollInductive, <1>1, PTL DEF PollSpec

\* What a poll has read belongs to the part it is at.
ReadsFit(r) == r.read \subseteq (IF r.part = "rosters" THEN Entries ELSE Agents)

PollTyped == PollTypeOK /\ \A p \in Pollers : ReadsFit(poller[p])

PollRecord ==
  [at : {"idle", "compare", "fetch", "save", "analyse", "read"}, part : Parts,
   before : SUBSET (Entries \union Agents), read : SUBSET (Entries \union Agents),
   changed : BOOLEAN]

LEMMA FollowingFits ==
  ASSUME NEW p, NEW changed \in BOOLEAN
  PROVE  Following(p, changed) \in PollRecord /\ ReadsFit(Following(p, changed))
BY DEF Following, Away, PollRecord, ReadsFit, Parts

LEMMA PartsFit ==
  ASSUME NEW s \in Snapshots, NEW part \in Parts
  PROVE  /\ s[part] \subseteq Entries \union Agents
         /\ s[part] \subseteq (IF part = "rosters" THEN Entries ELSE Agents)
BY DEF Snapshots, Parts

\* A poll's step that changes its own record, and the rest within its types.
LEMMA RecordFits ==
  ASSUME PollTyped, NEW p \in Pollers, NEW n \in PollRecord, ReadsFit(n),
         poller' = [poller EXCEPT ![p] = n],
         site' = site, changes' = changes, faults' \in 0..MaxFaults,
         {stored', analysed'} \subseteq Snapshots, thisSecond' \subseteq Parts,
         excuse' \in Excuses
  PROVE  PollTyped'
<1>1. poller \in [Pollers -> PollRecord] /\ \A q \in Pollers : ReadsFit(poller[q])
  BY DEF PollTyped, PollTypeOK, PollRecord
<1>2. poller' \in [Pollers -> PollRecord]
  BY <1>1
<1>3. \A q \in Pollers : ReadsFit(poller'[q])
  BY <1>1
<1>4. PollTypeOK'
  BY <1>2 DEF PollTyped, PollTypeOK, PollRecord
<1> QED BY <1>3, <1>4 DEF PollTyped, ReadsFit

LEMMA PollStepFits == ASSUME PollTyped, [PollNext]_pollVars PROVE PollTyped'
<1>1. /\ {site, stored, analysed} \subseteq Snapshots /\ faults \in 0..MaxFaults
      /\ thisSecond \subseteq Parts /\ excuse \in Excuses
      /\ poller \in [Pollers -> PollRecord] /\ \A q \in Pollers : ReadsFit(poller[q])
      /\ changes \in 0..MaxChanges
  BY DEF PollTyped, PollTypeOK, PollRecord
<1>2. CASE Change \/ NextSecond \/ UNCHANGED pollVars
  <2>1. /\ site' \in Snapshots /\ changes' \in 0..MaxChanges /\ thisSecond' \subseteq Parts
        /\ UNCHANGED <<faults, stored, poller, analysed, excuse>>
    BY <1>1, <1>2, PollAssumption DEF Change, NextSecond, pollVars
  <2> QED BY <1>1, <2>1 DEF PollTyped, PollTypeOK, PollRecord, ReadsFit
<1>3. ASSUME NEW p \in Pollers, Begin(p) PROVE PollTyped'
  <2>1. PICK n : n = [Away EXCEPT !.at = "compare"]
    OBVIOUS
  <2>2. n \in PollRecord /\ ReadsFit(n)
    BY <2>1 DEF Away, PollRecord, ReadsFit, Parts
  <2>3. poller' = [poller EXCEPT ![p] = n]
        /\ UNCHANGED <<site, changes, faults, stored, thisSecond, analysed, excuse>>
    BY <1>3, <2>1 DEF Begin
  <2> QED BY <1>1, <2>2, <2>3, RecordFits
<1>4. ASSUME NEW p \in Pollers, Compare(p) \/ Fetch(p) PROVE PollTyped'
  <2> DEFINE r == poller[p]
             x == stored[r.part]
             y == site[r.part]
  <2>1. r \in PollRecord /\ ReadsFit(r) /\ r.part \in Parts
    BY <1>1 DEF PollRecord
  <2>2. /\ x \subseteq Entries \union Agents /\ y \subseteq Entries \union Agents
        /\ y \subseteq (IF r.part = "rosters" THEN Entries ELSE Agents)
    BY <1>1, <2>1, PartsFit
  <2>3. PICK n : /\ poller' = [poller EXCEPT ![p] = n]
                 /\ \/ n = [r EXCEPT !.at = "fetch", !.before = x]
                    \/ n = [r EXCEPT !.at = "save", !.read = y]
    BY <1>1, <1>4 DEF Compare, Fetch
  <2>4. UNCHANGED <<site, changes, faults, stored, thisSecond, analysed, excuse>>
    BY <1>4 DEF Compare, Fetch
  <2> HIDE DEF r, x, y
  <2>5. n \in PollRecord /\ ReadsFit(n)
    BY <2>1, <2>2, <2>3 DEF PollRecord, ReadsFit
  <2> QED BY <1>1, <2>3, <2>4, <2>5, RecordFits
<1>5. ASSUME NEW p \in Pollers, Fail(p) PROVE PollTyped'
  <2>1. Away \in PollRecord /\ ReadsFit(Away)
    BY DEF Away, PollRecord, ReadsFit, Parts
  <2>2. /\ poller' = [poller EXCEPT ![p] = Away] /\ faults' \in 0..MaxFaults
        /\ UNCHANGED <<site, changes, stored, thisSecond, analysed>>
        /\ excuse' \in Excuses
    BY <1>1, <1>5, PollAssumption DEF Fail, Excuses
  <2> QED BY <1>1, <2>1, <2>2, RecordFits
<1>6. ASSUME NEW p \in Pollers, Same(p) PROVE PollTyped'
  <2>1. PICK n : n = Following(p, poller[p].changed)
    OBVIOUS
  <2>2. poller[p].changed \in BOOLEAN
    BY <1>1 DEF PollRecord
  <2>3. n \in PollRecord /\ ReadsFit(n)
    BY <2>1, <2>2, FollowingFits
  <2>4. /\ poller' = [poller EXCEPT ![p] = n]
        /\ UNCHANGED <<site, changes, faults, stored, thisSecond, analysed, excuse>>
    BY <1>6, <2>1 DEF Same
  <2> QED BY <1>1, <2>3, <2>4, RecordFits
<1>7. ASSUME NEW p \in Pollers, Save(p) PROVE PollTyped'
  <2> DEFINE part == poller[p].part
             rows == poller[p].read
  <2>1. PICK n : n = Following(p, Changed(p))
    OBVIOUS
  <2>2. Changed(p) \in BOOLEAN
    BY DEF Changed
  <2>3. n \in PollRecord /\ ReadsFit(n)
    BY <2>1, <2>2, FollowingFits
  <2>4. part \in Parts /\ rows \subseteq (IF part = "rosters" THEN Entries ELSE Agents)
    BY <1>1 DEF PollRecord, ReadsFit
  <2>5. /\ poller' = [poller EXCEPT ![p] = n]
        /\ stored' = [stored EXCEPT ![part] = Snapshot(part, rows)]
        /\ thisSecond' \subseteq Parts /\ UNCHANGED <<site, changes, faults, analysed>>
        /\ excuse' \in Excuses
    BY <1>1, <1>7, <2>1, <2>4 DEF Save, Excuses
  <2>6. stored' \in Snapshots
    <3>1. stored[part] \subseteq (IF part = "rosters" THEN Entries ELSE Agents)
      BY <1>1, <2>4, PartsFit
    <3>2. Snapshot(part, rows) \subseteq (IF part = "rosters" THEN Entries ELSE Agents)
      BY <2>4, <3>1 DEF Snapshot
    <3>3. stored \in Snapshots
      BY <1>1
    <3> HIDE DEF part, rows
    <3> QED BY <2>4, <2>5, <3>2, <3>3 DEF Snapshots, Parts
  <2> QED BY <1>1, <2>3, <2>5, <2>6, RecordFits
<1>8. CASE Decline \/ ReadRosters \/ ReadAgents
  <2>1. PICK n : n = [Away EXCEPT !.at = "read", !.changed = TRUE]
    OBVIOUS
  <2>2. n \in PollRecord /\ ReadsFit(n) /\ Away \in PollRecord /\ ReadsFit(Away)
    BY <2>1 DEF Away, PollRecord, ReadsFit, Parts
  <2>3. PICK m \in {n, Away} : poller' = [poller EXCEPT !["job"] = m]
    BY <1>8, <2>1 DEF Decline, ReadRosters, ReadAgents
  <2>4. /\ UNCHANGED <<site, changes, faults, stored, thisSecond>>
        /\ excuse' \in Excuses
        /\ analysed' \in Snapshots
    BY <1>1, <1>8 DEF Decline, ReadRosters, ReadAgents, Snapshots, Excuses
  <2>5. "job" \in Pollers /\ m \in PollRecord /\ ReadsFit(m)
    BY <2>2, <2>3 DEF Pollers
  <2> QED BY <1>1, <2>3, <2>4, <2>5, RecordFits
<1> QED BY <1>2, <1>3, <1>4, <1>5, <1>6, <1>7, <1>8
   DEF PollNext, Work, Look

\* Every reachable state of the polls is of the declared types.
THEOREM PollTypeCorrect == PollSpec => []PollTypeOK
<1>1. PollInit => PollTyped
  <2> SUFFICES ASSUME PollInit PROVE PollTyped
    OBVIOUS
  <2>1. Away \in PollRecord /\ ReadsFit(Away)
    BY DEF Away, PollRecord, ReadsFit, Parts
  <2>2. {site, stored, analysed} \subseteq Snapshots
    BY DEF PollInit, Snapshots
  <2>3. poller = [p \in Pollers |-> Away]
    BY DEF PollInit
  <2>4. poller \in [Pollers -> PollRecord] /\ \A p \in Pollers : ReadsFit(poller[p])
    BY <2>1, <2>3
  <2> QED BY <2>2, <2>4, PollAssumption DEF PollInit, PollTyped, PollTypeOK, PollRecord, Excuses
<1>2. PollTyped => PollTypeOK
  BY DEF PollTyped
<1>3. PollTyped /\ [PollNext]_pollVars => PollTyped'
  BY PollStepFits
<1> QED BY <1>1, <1>2, <1>3, PTL DEF PollSpec

-----------------------------------------------------------------------------
(* The gates.                                                              *)

GateChange == [feature : Features, on : BOOLEAN]

\* q sets gates as the settings s say, those of the features in F among them.
Says(q, s, F) ==
  /\ q \in Seq(GateChange)
  /\ \A k \in 1..Len(q) : q[k].on <=> q[k].feature \in Gates(s)
  /\ \A f \in F : \E k \in 1..Len(q) : q[k].feature = f

LEMMA SaysBoth ==
  ASSUME NEW s, NEW q, NEW r, NEW F, NEW G, Says(q, s, F), Says(r, s, G)
  PROVE  Says(q \o r, s, F \union G)
<1> DEFINE t == q \o r
<1>1. q \in Seq(GateChange) /\ r \in Seq(GateChange) /\ Len(q) \in Nat /\ Len(r) \in Nat
  BY LenProperties DEF Says
<1>2. /\ t \in Seq(GateChange) /\ Len(t) = Len(q) + Len(r)
      /\ \A k \in 1..Len(t) : t[k] = IF k <= Len(q) THEN q[k] ELSE r[k - Len(q)]
  BY <1>1, ConcatProperties
<1> HIDE DEF t
<1>3. ASSUME NEW k \in 1..Len(t) PROVE t[k].on <=> t[k].feature \in Gates(s)
  <2>1. CASE k <= Len(q)
    BY <1>1, <1>2, <2>1 DEF Says
  <2>2. CASE ~(k <= Len(q))
    <3>1. k - Len(q) \in 1..Len(r) /\ t[k] = r[k - Len(q)]
      BY <1>1, <1>2, <2>2
    <3> QED BY <3>1 DEF Says
  <2> QED BY <2>1, <2>2
<1>4. ASSUME NEW f \in F PROVE \E k \in 1..Len(t) : t[k].feature = f
  <2>1. PICK k \in 1..Len(q) : q[k].feature = f
    BY DEF Says
  <2>2. k \in 1..Len(t) /\ t[k] = q[k]
    BY <1>1, <1>2
  <2> QED BY <2>1, <2>2
<1>5. ASSUME NEW f \in G PROVE \E k \in 1..Len(t) : t[k].feature = f
  <2>1. PICK k \in 1..Len(r) : r[k].feature = f
    BY DEF Says
  <2>2. k + Len(q) \in 1..Len(t)
    BY <1>1, <1>2
  <2>3. t[k + Len(q)] = r[k]
    BY <1>1, <1>2, <2>2
  <2> QED BY <2>1, <2>2, <2>3
<1> QED BY <1>2, <1>3, <1>4, <1>5 DEF Says, t

\* One gate, if it is to be set this way.
One(s, on, f) == IF (f \in Gates(s)) = on THEN <<[feature |-> f, on |-> on]>> ELSE <<>>
Which(s, on, f) == IF (f \in Gates(s)) = on THEN {f} ELSE {}

LEMMA OneSays ==
  ASSUME NEW s, NEW on \in BOOLEAN, NEW f \in Features
  PROVE  Says(One(s, on, f), s, Which(s, on, f))
<1>1. CASE (f \in Gates(s)) = on
  <2> DEFINE c == [feature |-> f, on |-> on]
  <2>1. c \in GateChange /\ c.feature = f /\ (c.on <=> f \in Gates(s))
    BY <1>1 DEF GateChange
  <2> HIDE DEF c
  <2>2. << c >> \in Seq(GateChange) /\ Len(<< c >>) = 1 /\ << c >>[1] = c
    BY <2>1
  <2>3. Says(<< c >>, s, {f})
    BY <2>1, <2>2 DEF Says
  <2> QED BY <1>1, <2>3 DEF One, Which, c
<1>2. CASE (f \in Gates(s)) # on
  <2>1. Says(<<>>, s, {})
    BY DEF Says
  <2> QED BY <1>2, <2>1 DEF One, Which
<1> QED BY <1>1, <1>2

LEMMA SwitchedSays ==
  ASSUME NEW s, NEW on \in BOOLEAN
  PROVE  Says(Switched(s, on), s, {f \in Features : (f \in Gates(s)) = on})
<1> DEFINE a == One(s, on, "scoring")
           b == One(s, on, "lineup")
           c == One(s, on, "waivers")
           d == One(s, on, "trades")
           A == Which(s, on, "scoring")
           B == Which(s, on, "lineup")
           C == Which(s, on, "waivers")
           D == Which(s, on, "trades")
<1>1. Says(a, s, A) /\ Says(b, s, B) /\ Says(c, s, C) /\ Says(d, s, D)
  BY OneSays DEF Features
<1>2. Switched(s, on) = a \o b \o c \o d
  BY DEF Switched, One
<1>3. A \union B \union C \union D = {f \in Features : (f \in Gates(s)) = on}
  BY DEF Which, Features
<1> HIDE DEF a, b, c, d, A, B, C, D
<1>4. Says(a \o b, s, A \union B)
  BY <1>1, SaysBoth
<1>5. Says((a \o b) \o c, s, (A \union B) \union C)
  BY <1>1, <1>4, SaysBoth
<1>6. Says(((a \o b) \o c) \o d, s, ((A \union B) \union C) \union D)
  BY <1>1, <1>5, SaysBoth
<1> QED BY <1>2, <1>3, <1>6

\* A sync sets every gate, and sets it right.
LEMMA ChangesSay == ASSUME NEW s PROVE Says(Changes(s), s, Features)
<1> DEFINE F(on) == {f \in Features : (f \in Gates(s)) = on}
<1>1. Says(Switched(s, TRUE), s, F(TRUE)) /\ Says(Switched(s, FALSE), s, F(FALSE))
  BY SwitchedSays
<1>2. F(TRUE) \union F(FALSE) = Features
  OBVIOUS
<1> HIDE DEF F
<1> QED BY <1>1, <1>2, SaysBoth DEF Changes

\* What is still to come puts right what is not right yet, as long as no two syncs
\* overlap.
OneSync == \A p, q \in Syncers : sync[p] # <<>> /\ sync[q] # <<>> => p = q

Wrong == {f \in Features : (f \in gates) # (f \in Gates(league))}

GatesComing ==
  \A p \in Syncers : sync[p] # <<>> => Says(sync[p], league, Wrong)

GatesTyped ==
  /\ gates \subseteq Features
  /\ sync = [p \in Syncers |-> sync[p]]
  /\ \A p \in Syncers : sync[p] \in Seq(GateChange)

GatesInv ==
  /\ GatesTyped
  /\ ~overlapped =>
       /\ OneSync /\ GatesComing
       /\ league.stored /\ (\A p \in Syncers : sync[p] = <<>>) => Wrong = {}

LEMMA GatesInit == Init => GatesInv
<1> SUFFICES ASSUME Init PROVE GatesInv
  OBVIOUS
<1>1. /\ gates = IF league.stored THEN Gates(league) ELSE {}
      /\ sync = [p \in Syncers |-> <<>>]
  BY DEF Init
<1>2. Gates(league) \subseteq Features
  BY DEF Gates
<1>3. GatesTyped
  BY <1>1, <1>2 DEF GatesTyped
<1>4. OneSync /\ GatesComing
  BY <1>1 DEF OneSync, GatesComing
<1>5. league.stored => Wrong = {}
  BY <1>1 DEF Wrong
<1> QED BY <1>3, <1>4, <1>5 DEF GatesInv

LEMMA StoreKeepsGates == ASSUME GatesInv, NEW p \in Syncers, StoreSettings(p) PROVE GatesInv'
<1>1. PICK l : league' = l /\ sync' = [sync EXCEPT ![p] = Changes(l)]
  BY DEF StoreSettings
<1>2. gates' = gates /\ (overlapped' <=> (overlapped \/ \E q \in Syncers : sync[q] # <<>>))
  BY DEF StoreSettings
<1>3. /\ sync' = [q \in Syncers |-> sync'[q]] /\ sync'[p] = Changes(l)
      /\ \A q \in Syncers \ {p} : sync'[q] = sync[q]
  BY <1>1 DEF GatesInv, GatesTyped
<1>4. Says(Changes(l), l, Features)
  BY ChangesSay
<1>5. GatesTyped'
  BY <1>2, <1>3, <1>4 DEF GatesInv, GatesTyped, Says
<1>6. ASSUME ~overlapped'
      PROVE  /\ OneSync' /\ GatesComing'
             /\ ~\A q \in Syncers : sync'[q] = <<>>
  <2>1. \A q \in Syncers \ {p} : sync'[q] = <<>>
    BY <1>2, <1>3, <1>6
  <2>2. Wrong' \subseteq Features
    BY DEF Wrong
  <2>3. Says(sync'[p], league', Wrong')
    BY <1>1, <1>3, <1>4, <2>2 DEF Says
  <2>4. sync'[p] # <<>>
    <3>1. \E k \in 1..Len(sync'[p]) : sync'[p][k].feature = "scoring"
      BY <1>3, <1>4 DEF Says, Features
    <3> QED BY <3>1
  <2> QED BY <2>1, <2>3, <2>4 DEF OneSync, GatesComing
<1> QED BY <1>5, <1>6 DEF GatesInv

LEMMA SetKeepsGates == ASSUME GatesInv, NEW p \in Syncers, SetGate(p) PROVE GatesInv'
<1> DEFINE q == sync[p]
           c == Head(q)
           t == Tail(q)
<1>1. q # <<>> /\ q \in Seq(GateChange)
  BY DEF SetGate, GatesInv, GatesTyped
<1>2. /\ gates' = IF c.on THEN gates \union {c.feature} ELSE gates \ {c.feature}
      /\ sync' = [sync EXCEPT ![p] = t]
      /\ league' = league /\ overlapped' = overlapped
  BY DEF SetGate
<1>3. /\ c \in GateChange /\ t \in Seq(GateChange) /\ c = q[1]
      /\ Len(q) \in Nat /\ Len(q) > 0 /\ Len(t) = Len(q) - 1
      /\ \A k \in 1..Len(t) : t[k] = q[k + 1]
  BY <1>1, HeadTailProperties
<1> HIDE DEF q, c, t
<1>4. c.feature \in Features /\ c.on \in BOOLEAN
  BY <1>3 DEF GateChange
<1>5. /\ sync' = [r \in Syncers |-> sync'[r]] /\ sync'[p] = t
      /\ \A r \in Syncers \ {p} : sync'[r] = sync[r]
  BY <1>2 DEF GatesInv, GatesTyped
<1>6. GatesTyped'
  BY <1>2, <1>3, <1>4, <1>5 DEF GatesInv, GatesTyped
<1>7. ASSUME ~overlapped'
      PROVE  /\ OneSync' /\ GatesComing'
             /\ (\A r \in Syncers : sync'[r] = <<>>) => Wrong' = {}
  <2>1. Says(q, league, Wrong) /\ \A r \in Syncers \ {p} : sync[r] = <<>>
    BY <1>1, <1>2, <1>7 DEF GatesInv, OneSync, GatesComing, q
  <2>2. c.on <=> c.feature \in Gates(league)
    BY <1>3, <2>1 DEF Says
  <2>3. Wrong' = Wrong \ {c.feature}
    BY <1>2, <1>4, <2>2 DEF Wrong
  <2>4. Says(t, league, Wrong \ {c.feature})
    <3>1. ASSUME NEW k \in 1..Len(t) PROVE t[k].on <=> t[k].feature \in Gates(league)
      <4>1. k + 1 \in 1..Len(q) /\ t[k] = q[k + 1]
        BY <1>3
      <4> QED BY <2>1, <4>1 DEF Says
    <3>2. ASSUME NEW f \in Wrong \ {c.feature} PROVE \E k \in 1..Len(t) : t[k].feature = f
      <4>1. PICK k \in 1..Len(q) : q[k].feature = f
        BY <2>1 DEF Says
      <4>2. k # 1
        BY <1>3, <3>2, <4>1
      <4>3. k - 1 \in 1..Len(t) /\ t[k - 1] = q[k]
        BY <1>3, <4>2
      <4> QED BY <4>1, <4>3
    <3> QED BY <1>3, <3>1, <3>2 DEF Says
  <2>5. Says(sync'[p], league', Wrong')
    BY <1>2, <1>5, <2>3, <2>4
  <2>6. t = <<>> => Wrong' = {}
    BY <2>3, <2>4 DEF Says
  <2>7. OneSync' /\ GatesComing'
    BY <1>5, <2>1, <2>5 DEF OneSync, GatesComing
  <2> QED BY <1>5, <2>6, <2>7
<1> QED BY <1>6, <1>7 DEF GatesInv

LEMMA AbortKeepsGates == ASSUME GatesInv, NEW p \in Syncers, AbortSync(p) PROVE GatesInv'
<1>1. sync' = [sync EXCEPT ![p] = <<>>] /\ gates' = gates /\ overlapped' = TRUE
  BY DEF AbortSync
<1>2. <<>> \in Seq(GateChange) /\ \A q \in Syncers : sync[q] \in Seq(GateChange)
  BY DEF GatesInv, GatesTyped
<1>3. /\ sync' = [q \in Syncers |-> sync'[q]]
      /\ \A q \in Syncers : sync'[q] = IF q = p THEN <<>> ELSE sync[q]
  BY <1>1 DEF GatesInv, GatesTyped
<1>4. GatesTyped'
  BY <1>1, <1>2, <1>3 DEF GatesInv, GatesTyped
<1> QED BY <1>1, <1>4 DEF GatesInv

LEMMA AnalyseKeepsGates == ASSUME GatesInv, Analyse \/ UNCHANGED vars PROVE GatesInv'
<1>1. UNCHANGED <<league, gates, sync, overlapped>>
  BY DEF Analyse, ReadGate, ReadSettings, AnalyseLineup, AnalyseWaivers, AnalyseTrades, AnalyseOffer,
         Return, Propose, syncing, vars
<1> QED BY <1>1 DEF GatesInv, GatesTyped, OneSync, GatesComing, Wrong

\* While no two syncs overlap, what a sync has still to set puts right every gate
\* that is not as the settings say (sync_config).
THEOREM GatesInductive == GatesInv /\ [Next]_vars => GatesInv'
BY StoreKeepsGates, SetKeepsGates, AbortKeepsGates, AnalyseKeepsGates DEF Next, Sync

\* When no sync is under way the gates are those of the settings stored, unless two
\* syncs overlapped or one was cut short (sync_config), for any number of syncers
\* and syncs and whatever settings the site reports.
THEOREM GatesFollow == Spec => []GatesFollowSettings
<1>1. GatesInv => GatesFollowSettings
  <2> SUFFICES ASSUME GatesInv, ~overlapped, \A p \in Syncers : sync[p] = <<>>, league.stored
               PROVE  gates = Gates(league)
    BY DEF GatesFollowSettings
  <2>1. Wrong = {} /\ gates \subseteq Features
    BY DEF GatesInv, GatesTyped
  <2>2. Gates(league) \subseteq Features
    BY DEF Gates
  <2> QED BY <2>1, <2>2 DEF Wrong
<1> QED BY GatesInit, GatesInductive, <1>1, PTL DEF Spec

-----------------------------------------------------------------------------
(* Bids.                                                                   *)

LEMMA LeastOfTwo ==
  ASSUME NEW a \in Int, NEW b \in Int
  PROVE  Min({a, b}) = IF a <= b THEN a ELSE b
<1>1. \E x \in {a, b} : \A y \in {a, b} : x <= y
  OBVIOUS
<1>2. Min({a, b}) \in {a, b} /\ \A y \in {a, b} : Min({a, b}) <= y
  BY <1>1 DEF Min
<1> QED BY <1>2

LEMMA GreatestOfTwo ==
  ASSUME NEW a \in Int, NEW b \in Int
  PROVE  Max({a, b}) = IF a >= b THEN a ELSE b
<1>1. \E x \in {a, b} : \A y \in {a, b} : x >= y
  OBVIOUS
<1>2. Max({a, b}) \in {a, b} /\ \A y \in {a, b} : Max({a, b}) >= y
  BY <1>1 DEF Max
<1> QED BY <1>2

LEMMA TimesKeepsOrder ==
  ASSUME NEW x \in Nat, NEW a \in Int, NEW b \in Int, a <= b
  PROVE  x * a \in Int /\ x * b \in Int /\ x * a <= x * b
<1>1. x * (b - a) \in Int /\ x * (b - a) >= 0
  OBVIOUS
<1>2. x * b = x * a + x * (b - a)
  OBVIOUS
<1> QED BY <1>1, <1>2

LEMMA DivKeepsOrder ==
  ASSUME NEW a \in Int, NEW b \in Int, a <= b, NEW d \in Nat, d > 0
  PROVE  a \div d \in Int /\ b \div d \in Int /\ a \div d <= b \div d
<1> DEFINE x == a \div d
           y == b \div d
<1>1. /\ x \in Int /\ d * x <= a /\ a < d * x + d
      /\ y \in Int /\ d * y <= b /\ b < d * y + d
  OBVIOUS
<1> HIDE DEF x, y
<1>2. ASSUME y + 1 <= x PROVE FALSE
  <2>1. d * (y + 1) <= d * x /\ d * (y + 1) \in Int
    BY <1>1, <1>2, TimesKeepsOrder
  <2>2. d * (y + 1) = d * y + d /\ d * y \in Int /\ d * x \in Int
    BY <1>1
  <2> QED BY <1>1, <2>1, <2>2
<1>3. x <= y
  BY <1>1, <1>2
<1> QED BY <1>1, <1>3 DEF x, y

LEMMA NearestKeepsOrder ==
  ASSUME NEW a \in Int, NEW b \in Int, a <= b, NEW d \in Nat, d > 0
  PROVE  Nearest(a, d) \in Int /\ Nearest(b, d) \in Int /\ Nearest(a, d) <= Nearest(b, d)
<1> DEFINE x == 2 * a + d
           y == 2 * b + d
           e == 2 * d
<1>1. x \in Int /\ y \in Int /\ x <= y /\ e \in Nat /\ e > 0
  OBVIOUS
<1>2. Nearest(a, d) = x \div e /\ Nearest(b, d) = y \div e
  BY DEF Nearest
<1> HIDE DEF x, y, e
<1> QED BY <1>1, <1>2, DivKeepsOrder

\* A part of less than a hundred percent of more than a dollar is not all of it.
LEMMA PartIsLess ==
  ASSUME NEW budget \in Int, budget > 100, NEW percent \in Nat, percent < 100,
         NEW n \in Nat, n > 0
  PROVE  Nearest(budget * percent * n, 100 * n) < budget
<1> DEFINE u == 2 * (budget * percent) + 100
           v == 200 * budget
           x == n * u
           e == 200 * n
           q == x \div e
<1>1. u \in Int /\ v \in Int /\ u + 1 <= v
  <2>1. /\ budget * percent \in Int /\ budget * 99 \in Int
        /\ budget * percent <= budget * 99
    BY TimesKeepsOrder
  <2> QED BY <2>1
<1> HIDE DEF u
<1>2. x \in Int /\ n * v \in Int /\ x < n * v
  <2>1. n * (u + 1) \in Int /\ n * v \in Int /\ n * (u + 1) <= n * v
    BY <1>1, TimesKeepsOrder
  <2>2. n * (u + 1) = n * u + n
    BY <1>1
  <2> QED BY <1>1, <2>1, <2>2
<1>3. n * v = e * budget /\ e \in Nat /\ e > 0
  OBVIOUS
<1> HIDE DEF x, v, e
<1>4. q \in Int /\ e * q <= x
  BY <1>2, <1>3
<1> HIDE DEF q
<1>5. ASSUME budget <= q PROVE FALSE
  <2>1. e * budget \in Int /\ e * q \in Int /\ e * budget <= e * q
    BY <1>3, <1>4, <1>5, TimesKeepsOrder
  <2> QED BY <1>2, <1>3, <1>4, <2>1
<1>6. Nearest(budget * percent * n, 100 * n) = q
  <2>1. 2 * (budget * percent * n) + 100 * n = x /\ 2 * (100 * n) = e
    BY DEF u, x, e
  <2> QED BY <2>1 DEF Nearest, q
<1> QED BY <1>4, <1>5, <1>6

\* A bid is at most the budget, and less where there is more than a dollar and not all of
\* it is asked for; it is nothing only when there is nothing, and the better of two claims
\* has the higher.
LEMMA BidsAreRight ==
  ASSUME NEW budget \in Int, Known(budget), NEW percent \in Nat,
         NEW n \in Nat, NEW j \in 1..n, NEW k \in 1..n
  PROVE  LET bid(i) == Bid(budget, i - 1, n, percent)
         IN /\ 0 <= bid(k) /\ bid(k) <= Max({budget, 0})
            /\ bid(k) = 0 => budget <= 0
            /\ budget > 100 /\ percent < 100 => bid(k) < budget
            /\ j < k => bid(j) >= bid(k)
<1> DEFINE bid(i) == Bid(budget, i - 1, n, percent)
           part(i) == Nearest(budget * percent * (n - (i - 1)), 100 * n)
<1>1. CASE budget < 100
  <2>1. \A i \in 1..n : bid(i) = IF budget <= 0 THEN 0 ELSE budget
    BY <1>1 DEF Bid
  <2>2. Max({budget, 0}) = IF budget >= 0 THEN budget ELSE 0
    BY GreatestOfTwo
  <2>3. ~(budget > 100)
    BY <1>1
  <2> HIDE DEF bid
  <2>4. /\ 0 <= bid(k) /\ bid(k) <= Max({budget, 0})
        /\ bid(k) = 0 => budget <= 0
        /\ j < k => bid(j) >= bid(k)
    BY <2>1, <2>2
  <2> QED BY <2>3, <2>4 DEF bid
<1>2. CASE budget >= 100
  <2>1. ASSUME NEW i \in 1..n, NEW h \in 1..n, h <= i
        PROVE  part(i) \in Int /\ part(h) \in Int /\ part(i) <= part(h)
    <3> DEFINE x == budget * percent
    <3>1. x \in Nat
      BY <1>2
    <3>2. n - (i - 1) <= n - (h - 1) /\ n - (i - 1) \in Int /\ n - (h - 1) \in Int
      BY <2>1
    <3> HIDE DEF x
    <3>3. /\ x * (n - (i - 1)) \in Int /\ x * (n - (h - 1)) \in Int
          /\ x * (n - (i - 1)) <= x * (n - (h - 1))
      BY <3>1, <3>2, TimesKeepsOrder
    <3>4. 100 * n \in Nat /\ 100 * n > 0
      OBVIOUS
    <3>5. /\ part(i) = Nearest(x * (n - (i - 1)), 100 * n)
          /\ part(h) = Nearest(x * (n - (h - 1)), 100 * n)
      BY DEF x
    <3> HIDE DEF part
    <3> QED BY <3>3, <3>4, <3>5, NearestKeepsOrder
  <2>2. ASSUME NEW i \in 1..n
        PROVE  bid(i) = IF (IF part(i) >= 100 THEN part(i) ELSE 100) <= budget
                        THEN (IF part(i) >= 100 THEN part(i) ELSE 100) ELSE budget
    <3>1. part(i) \in Int
      BY <2>1
    <3>2. bid(i) = Min({Max({part(i), 100}), budget})
      BY <1>2 DEF Bid
    <3> HIDE DEF part, bid
    <3>3. Max({part(i), 100}) = IF part(i) >= 100 THEN part(i) ELSE 100
      BY <3>1, GreatestOfTwo
    <3>4. Max({part(i), 100}) \in Int
      BY <3>1, <3>3
    <3> QED BY <3>2, <3>3, <3>4, LeastOfTwo
  <2>3. Max({budget, 0}) = budget
    BY <1>2, GreatestOfTwo
  <2>4. /\ part(j) \in Int /\ part(k) \in Int
        /\ j < k => part(k) <= part(j)
    <3> HIDE DEF part
    <3>1. part(j) \in Int
      BY <2>1
    <3>2. part(k) \in Int
      BY <2>1
    <3>3. j < k => part(k) <= part(j)
      BY <2>1
    <3> QED BY <3>1, <3>2, <3>3
  <2>5. /\ 0 <= bid(k) /\ bid(k) <= budget /\ bid(k) # 0
        /\ j < k => bid(j) >= bid(k)
    <3> HIDE DEF part, bid
    <3> QED BY <1>2, <2>2, <2>4
  <2>6. ASSUME budget > 100, percent < 100 PROVE bid(k) < budget
    <3>1. 1 \in 1..n /\ 1 <= k /\ n > 0
      OBVIOUS
    <3>2. part(k) \in Int /\ part(1) \in Int /\ part(k) <= part(1)
      BY <2>1, <3>1
    <3>3. part(1) < budget
      <4>1. n - (1 - 1) = n
        OBVIOUS
      <4> QED BY <2>6, <3>1, <4>1, PartIsLess
    <3>4. part(k) < budget
      <4> HIDE DEF part
      <4> QED BY <3>2, <3>3
    <3> HIDE DEF part, bid
    <3> QED BY <2>2, <2>4, <2>6, <3>4
  <2> HIDE DEF part
  <2> QED BY <2>3, <2>5, <2>6
<1> QED BY <1>1, <1>2

-----------------------------------------------------------------------------
(* Claims.                                                                 *)

LEMMA RosterIs ==
  ASSUME NEW r \in Rosters
  PROVE  /\ Len(r) \in Nat /\ DOMAIN r = 1..Len(r)
         /\ \A i \in DOMAIN r : r[i].pos \in Nat /\ r[i].proj \in Seq(Int)
<1> DEFINE P == [pos : Nat, out : {"no"} \union Feeds, proj : Seq(Int)]
<1>1. r \in Seq(P)
  BY DEF Rosters
<1>2. \A x \in P : x.pos \in Nat /\ x.proj \in Seq(Int)
  OBVIOUS
<1> HIDE DEF P
<1>3. Len(r) \in Nat /\ DOMAIN r = 1..Len(r) /\ \A i \in DOMAIN r : r[i] \in P
  BY <1>1
<1> QED BY <1>2, <1>3

LEMMA WorthyFinite ==
  ASSUME NEW r \in Rosters, NEW w, NEW ours, NEW limits
  PROVE  LET worthy == Worthy(ours, Values(r, w), limits)
         IN /\ IsFiniteSet(worthy) /\ Cardinality(worthy) \in Nat
            /\ worthy \subseteq 1..Len(r)
<1> DEFINE worthy == Worthy(ours, Values(r, w), limits)
<1>1. worthy \subseteq 1..Len(r)
  BY RosterIs DEF Worthy, Candidates, Values
<1>2. IsFiniteSet(1..Len(r))
  BY RosterIs, FS_Interval
<1> HIDE DEF worthy
<1>3. IsFiniteSet(worthy)
  BY <1>1, <1>2, FS_Subset
<1> QED BY <1>1, <1>3, FS_CardinalityType DEF worthy

\* How many claims there are.
Most(worthy, limits) == Min({Max({limits.most, 1}), Cardinality(worthy)})

LEMMA ClaimsAre ==
  ASSUME NEW r \in Rosters, NEW w, NEW ours, NEW limits, limits.most \in Nat
  PROVE  LET free == Values(r, w)
             worthy == Worthy(ours, free, limits)
             claims == Claims(ours, free, limits)
             n == Most(worthy, limits)
         IN /\ n \in Nat /\ n <= Cardinality(worthy)
            /\ n < Cardinality(worthy) => n >= limits.most
            /\ DOMAIN claims = 1..n /\ Len(claims) = n
            /\ \A k \in 1..n : claims[k] =
                 [add |-> Descending(free, worthy, "next")[k],
                  drop |-> Replaced(ours, free[Descending(free, worthy, "next")[k]])]
<1> DEFINE free == Values(r, w)
           worthy == Worthy(ours, free, limits)
           claims == Claims(ours, free, limits)
           n == Most(worthy, limits)
           c == Cardinality(worthy)
           m == Max({limits.most, 1})
<1>1. c \in Nat
  BY WorthyFinite
<1>2. m \in Nat /\ m >= limits.most
  BY GreatestOfTwo
<1>3. n = IF m <= c THEN m ELSE c
  <2> HIDE DEF m, c
  <2>1. Min({m, c}) = IF m <= c THEN m ELSE c
    BY <1>1, <1>2, LeastOfTwo
  <2> QED BY <2>1 DEF Most, m, c
<1>4. claims = [k \in 1..n |->
        [add |-> Descending(free, worthy, "next")[k],
         drop |-> Replaced(ours, free[Descending(free, worthy, "next")[k]])]]
  BY DEF Claims, Most
<1> HIDE DEF m, c, n, claims, worthy, free
<1>5. n \in Nat /\ n <= c /\ (n < c => n >= limits.most)
  BY <1>1, <1>2, <1>3
<1>6. DOMAIN claims = 1..n
  BY <1>4
<1>7. Len(claims) = n
  BY <1>5, <1>6
<1>8. \A k \in 1..n : claims[k] =
        [add |-> Descending(free, worthy, "next")[k],
         drop |-> Replaced(ours, free[Descending(free, worthy, "next")[k]])]
  BY <1>4
<1> QED BY <1>5, <1>6, <1>7, <1>8 DEF c, n, claims, worthy, free

\* What a waiver analysis proposes under settings s, and when it proposes anything.
LEMMA WaiversAre ==
  ASSUME NEW s, IsLeague(s), NEW r \in Rosters, NEW w, NEW ours, NEW limits,
         limits.most \in Nat
  PROVE  LET free == Values(r, w)
             claims == Claims(ours, free, limits)
             result == Waivers(s, ours, free, limits)
         IN IF result.blocks # {} THEN result.ideas = <<>>
            ELSE \/ s.waiver = "none" /\ result.ideas = <<>>
                 \/ /\ s.waiver \in {"fcfs", "bbid"}
                    /\ s.waiver = "bbid" /\ claims # <<>> => Known(s.budget)
                    /\ result.ideas = [k \in DOMAIN claims |->
                         [add |-> claims[k].add, drop |-> claims[k].drop,
                          bid |-> IF s.waiver # "bbid" THEN NoValue
                                  ELSE Bid(s.budget, k - 1, Len(claims), limits.percent)]]
<1> DEFINE free == Values(r, w)
           claims == Claims(ours, free, limits)
           result == Waivers(s, ours, free, limits)
           all == [k \in DOMAIN claims |->
                      [add |-> claims[k].add, drop |-> claims[k].drop,
                       bid |-> IF s.waiver # "bbid" THEN NoValue
                               ELSE Bid(s.budget, k - 1, Len(claims), limits.percent)]]
<1> DEFINE none == [ideas |-> <<>>, blocks |-> {}]
<1>1. /\ \A x : [none EXCEPT !.blocks = {x}].blocks # {} /\ [none EXCEPT !.blocks = {x}].ideas = <<>>
      /\ none.blocks = {} /\ none.ideas = <<>>
      /\ \A x : [none EXCEPT !.ideas = x].blocks = {} /\ [none EXCEPT !.ideas = x].ideas = x
  OBVIOUS
<1>2. result = IF s.waiver = "unknown" THEN [none EXCEPT !.blocks = {"system"}]
     ELSE IF s.waiver = "none" THEN none
     ELSE IF s.waiver = "order" THEN [none EXCEPT !.blocks = {"order"}]
     ELSE IF free # <<>> /\ \A i \in DOMAIN free : ~HasValue(free[i])
          THEN [none EXCEPT !.blocks = {"unprojected"}]
     ELSE IF s.waiver = "bbid" /\ claims # <<>> /\ ~Known(s.budget)
          THEN [none EXCEPT !.blocks = {"budget"}]
     ELSE [none EXCEPT !.ideas = all]
  BY Zenon DEF Waivers
<1> HIDE DEF result, claims, free, all, none
<1>3. result.blocks # {} => result.ideas = <<>>
  BY <1>1, <1>2
<1>4. ASSUME result.blocks = {}
      PROVE  \/ s.waiver = "none" /\ result.ideas = <<>>
             \/ /\ s.waiver \in {"fcfs", "bbid"}
                /\ s.waiver = "bbid" /\ claims # <<>> => Known(s.budget)
                /\ result.ideas = all
  <2>1. s.waiver \notin {"unknown", "order"}
    BY <1>1, <1>2, <1>4
  <2>2. CASE s.waiver = "none"
    BY <1>1, <1>2, <1>4, <2>2
  <2>3. CASE s.waiver \in {"fcfs", "bbid"}
    <3>1. ~(free # <<>> /\ \A i \in DOMAIN free : ~HasValue(free[i]))
      BY <1>1, <1>2, <1>4, <2>3
    <3>2. ~(s.waiver = "bbid" /\ claims # <<>> /\ ~Known(s.budget))
      BY <1>1, <1>2, <1>4, <2>3, <3>1
    <3>3. result = [none EXCEPT !.ideas = all]
      BY <1>2, <2>3, <3>1, <3>2
    <3> QED BY <1>1, <2>3, <3>2, <3>3
  <2> QED BY <2>1, <2>2, <2>3 DEF IsLeague
<1> QED BY <1>3, <1>4 DEF result, claims, free, all

-----------------------------------------------------------------------------
(* Rankings.                                                               *)

\* D orders the elements of S one after another.
Ranks(D, S) ==
  /\ \A x, y \in S : x # y => <<x, y>> \in D \/ <<y, x>> \in D
  /\ \A x, y, z \in S : <<x, y>> \in D /\ <<y, z>> \in D => <<x, z>> \in D
  /\ \A x \in S : <<x, x>> \notin D

First(D, S, x) == x \in S /\ \A y \in S \ {x} : <<x, y>> \in D

Sorted(D, S, s) ==
  s \in [1..Cardinality(S) -> S] /\ \A k, l \in DOMAIN s : k < l => <<s[k], s[l]>> \in D

\* A property of the sizes of finite sets that fails for some size fails for a least one.
LEMMA LeastSize ==
  ASSUME NEW T \in SUBSET Nat, T # {}
  PROVE  \E n \in T : \A m \in Nat : m < n => m \notin T
<1>1. PICK R : R = OpToRel(<, Nat)
  OBVIOUS
<1>2. IsWellFoundedOn(R, Nat)
  BY <1>1, NatLessThanWellFounded
<1>3. PICK n \in T : \A y \in T : ~(<<y, n>> \in R)
  BY <1>2, WFMin
<1>4. \A x, y \in Nat : x < y => <<x, y>> \in R
  BY <1>1 DEF OpToRel
<1> QED BY <1>3, <1>4

\* The set without one of its elements.
LEMMA Without ==
  ASSUME NEW S, IsFiniteSet(S), NEW x \in S
  PROVE  /\ IsFiniteSet(S \ {x}) /\ Cardinality(S) \in Nat /\ Cardinality(S \ {x}) \in Nat
         /\ Cardinality(S) = Cardinality(S \ {x}) + 1
<1>1. IsFiniteSet(S \ {x}) /\ Cardinality(S \ {x}) = Cardinality(S) - 1
  BY FS_RemoveElement
<1> QED BY <1>1, FS_CardinalityType

\* Of finitely many ranked things one is the first.
LEMMA OneIsFirst ==
  ASSUME NEW D, NEW S, IsFiniteSet(S), S # {}, Ranks(D, S)
  PROVE  \E x \in S : First(D, S, x)
<1> DEFINE Bad(n, T) == /\ T \in SUBSET S /\ T # {} /\ IsFiniteSet(T) /\ Cardinality(T) = n
                        /\ \A x \in T : ~First(D, T, x)
           Sizes == {n \in Nat : \E T \in SUBSET S : Bad(n, T)}
<1>1. SUFFICES ASSUME \A x \in S : ~First(D, S, x) PROVE FALSE
  OBVIOUS
<1>2. Cardinality(S) \in Sizes
  BY <1>1, FS_CardinalityType
<1>3. PICK n \in Sizes : \A m \in Nat : m < n => m \notin Sizes
  <2> HIDE DEF Sizes
  <2>1. Sizes \in SUBSET Nat
    BY DEF Sizes
  <2> QED BY <1>2, <2>1, LeastSize
<1>4. PICK T \in SUBSET S : Bad(n, T)
  BY <1>3
<1>5. PICK x \in T : TRUE
  BY <1>4
<1> DEFINE U == T \ {x}
<1>6. IsFiniteSet(U) /\ Cardinality(U) \in Nat /\ Cardinality(U) < n
  <2>1. IsFiniteSet(T) /\ Cardinality(T) = n
    BY <1>4
  <2>2. /\ IsFiniteSet(U) /\ Cardinality(T) \in Nat /\ Cardinality(U) \in Nat
        /\ Cardinality(T) = Cardinality(U) + 1
    BY <1>5, <2>1, Without
  <2> QED BY <2>1, <2>2
<1>7. U = {} => First(D, T, x)
  BY <1>5 DEF First
<1>8. CASE U # {}
  <2>1. PICK y \in U : First(D, U, y)
    <3>1. ~Bad(Cardinality(U), U)
      BY <1>3, <1>6
    <3> QED BY <1>6, <1>8, <3>1
  <2>2. CASE <<x, y>> \in D
    <3>1. ASSUME NEW z \in T \ {x} PROVE <<x, z>> \in D
      <4>1. z = y \/ <<y, z>> \in D
        BY <2>1 DEF First
      <4> QED BY <1>4, <1>5, <2>1, <2>2, <4>1 DEF Ranks
    <3> QED BY <1>4, <1>5, <3>1 DEF First
  <2>3. CASE <<y, x>> \in D
    <3>1. ASSUME NEW z \in T \ {y} PROVE <<y, z>> \in D
      BY <2>1, <2>3 DEF First
    <3> QED BY <1>4, <2>1, <3>1 DEF First
  <2>4. <<x, y>> \in D \/ <<y, x>> \in D
    BY <1>4, <1>5, <2>1 DEF Ranks
  <2> QED BY <1>4, <2>2, <2>3, <2>4
<1> QED BY <1>4, <1>5, <1>7, <1>8

\* Finitely many ranked things can be put in their order.
LEMMA OneOrder ==
  ASSUME NEW D, NEW S, IsFiniteSet(S), Ranks(D, S)
  PROVE  \E s \in [1..Cardinality(S) -> S] : Sorted(D, S, s)
<1> DEFINE Ordered(T) == \E s \in [1..Cardinality(T) -> T] : Sorted(D, T, s)
           Sizes == {n \in Nat : \E T \in SUBSET S :
                                   IsFiniteSet(T) /\ Cardinality(T) = n /\ ~Ordered(T)}
<1> HIDE DEF Ordered
<1>1. SUFFICES ASSUME ~Ordered(S) PROVE FALSE
  BY DEF Ordered
<1>2. Cardinality(S) \in Sizes
  BY <1>1, FS_CardinalityType
<1>3. PICK n \in Sizes : \A m \in Nat : m < n => m \notin Sizes
  <2> HIDE DEF Sizes
  <2>1. Sizes \in SUBSET Nat
    BY DEF Sizes
  <2> QED BY <1>2, <2>1, LeastSize
<1>4. PICK T \in SUBSET S : IsFiniteSet(T) /\ Cardinality(T) = n /\ ~Ordered(T)
  BY <1>3
<1>5. CASE T = {}
  <2>1. Cardinality(T) = 0
    BY <1>5, FS_EmptySet
  <2> DEFINE s == [k \in 1..0 |-> k]
  <2>2. s \in [1..Cardinality(T) -> T] /\ DOMAIN s = {}
    BY <2>1
  <2> HIDE DEF s
  <2>3. Sorted(D, T, s)
    BY <2>2 DEF Sorted
  <2> QED BY <1>4, <2>2, <2>3 DEF Ordered
<1>6. CASE T # {}
  <2>1. Ranks(D, T)
    BY <1>4 DEF Ranks
  <2>2. PICK x \in T : First(D, T, x)
    BY <1>4, <1>6, <2>1, OneIsFirst
  <2> DEFINE U == T \ {x}
             m == Cardinality(U)
  <2>3. IsFiniteSet(U) /\ m \in Nat /\ n = m + 1 /\ n \in Nat
    BY <1>4, Without
  <2>4. Ordered(U)
    BY <1>3, <1>4, <2>3
  <2>5. PICK u \in [1..m -> U] : Sorted(D, U, u)
    BY <2>4 DEF Ordered
  <2> DEFINE s == [k \in 1..n |-> IF k = 1 THEN x ELSE u[k - 1]]
  <2> HIDE DEF m
  <2>6. \A k \in 1..n : k # 1 => k - 1 \in 1..m
    BY <2>3
  <2>7. \A k \in 1..m : u[k] \in T \ {x}
    BY <2>5
  <2>8. s \in [1..n -> T] /\ s[1] = x /\ \A k \in 1..n : k # 1 => s[k] = u[k - 1]
    BY <2>3, <2>6, <2>7
  <2> HIDE DEF s
  <2>9. ASSUME NEW k \in 1..n, NEW l \in 1..n, k < l PROVE <<s[k], s[l]>> \in D
    <3>1. l # 1 /\ l - 1 \in 1..m /\ s[l] = u[l - 1]
      BY <2>3, <2>6, <2>8, <2>9
    <3>2. CASE k = 1
      BY <2>2, <2>7, <2>8, <3>1, <3>2 DEF First
    <3>3. CASE k # 1
      <4>1. k - 1 \in 1..m /\ s[k] = u[k - 1] /\ k - 1 < l - 1
        BY <2>6, <2>8, <2>9, <3>3
      <4>2. DOMAIN u = 1..m
        BY <2>5
      <4> QED BY <2>5, <3>1, <4>1, <4>2 DEF Sorted
    <3> QED BY <3>2, <3>3
  <2>10. Sorted(D, T, s)
    BY <1>4, <2>8, <2>9 DEF Sorted
  <2> QED BY <1>4, <2>8, <2>10 DEF Ordered
<1> QED BY <1>5, <1>6

\* In its order everything has a place, and one place only.
LEMMA OrderIsFull ==
  ASSUME NEW D, NEW S, IsFiniteSet(S), Ranks(D, S), NEW s, Sorted(D, S, s)
  PROVE  \A x \in S : \E k \in 1..Cardinality(S) : s[k] = x
<1> DEFINE n == Cardinality(S)
<1>1. n \in Nat /\ s \in [1..n -> S]
  BY FS_CardinalityType DEF Sorted
<1>2. Cardinality(1..n) = n
  BY <1>1, FS_Interval
<1>3. ASSUME NEW k \in 1..n, NEW l \in 1..n, s[k] = s[l] PROVE k = l
  <2>1. ~(k < l) /\ ~(l < k)
    BY <1>1, <1>3 DEF Sorted, Ranks
  <2> QED BY <1>1, <2>1
<1> HIDE DEF n
<1>4. s \in Injection(1..n, S)
  BY <1>1, <1>3 DEF Injection, IsInjective
<1>5. s \in Surjection(1..n, S)
  BY <1>2, <1>4, FS_Injection DEF n
<1> QED BY <1>5 DEF Surjection, n

\* Descending is the order of its places, from the highest to the lowest.
LEMMA DescendingIs ==
  ASSUME NEW values, NEW measure, NEW S \in SUBSET Nat, IsFiniteSet(S),
         \A i \in S : OrZero(values[i][measure]) \in Int
  PROVE  LET s == Descending(values, S, measure)
         IN /\ s \in [1..Cardinality(S) -> S]
            /\ \A k, l \in 1..Cardinality(S) : k < l => Precedes(values, measure, s[k], s[l])
            /\ \A i \in S : \E k \in 1..Cardinality(S) : s[k] = i
<1> DEFINE D == {x \in S \X S : Precedes(values, measure, x[1], x[2])}
           s == Descending(values, S, measure)
           Of(t) == \A k, l \in DOMAIN t : k < l => Precedes(values, measure, t[k], t[l])
<1>1. \A i, j \in S : <<i, j>> \in D <=> Precedes(values, measure, i, j)
  OBVIOUS
<1>2. Ranks(D, S)
  <2> HIDE DEF D
  <2> QED BY <1>1 DEF Ranks, Precedes
<1> HIDE DEF D
<1>3. ASSUME NEW t \in [1..Cardinality(S) -> S] PROVE Of(t) <=> Sorted(D, S, t)
  BY <1>1 DEF Sorted
<1>4. \E t \in [1..Cardinality(S) -> S] : Of(t)
  <2> HIDE DEF Of
  <2> QED BY <1>2, <1>3, OneOrder
<1>5. s = CHOOSE t \in [1..Cardinality(S) -> S] : Of(t)
  BY DEF Descending, InOrder
<1> HIDE DEF s, Of
<1>6. s \in [1..Cardinality(S) -> S] /\ Of(s)
  BY <1>4, <1>5
<1>7. Sorted(D, S, s)
  BY <1>3, <1>6
<1>8. \A i \in S : \E k \in 1..Cardinality(S) : s[k] = i
  BY <1>2, <1>7, OrderIsFull
<1>9. DOMAIN s = 1..Cardinality(S)
  BY <1>6
<1> QED BY <1>6, <1>8, <1>9 DEF Of, s

\* The weakest is one of them and none is lower.
LEMMA WeakestIs ==
  ASSUME NEW roster, NEW S \in SUBSET Nat, IsFiniteSet(S), S # {},
         \A i \in S : OrZero(roster[i].next) \in Int
  PROVE  /\ Weakest(roster, S) \in S
         /\ \A j \in S : OrZero(roster[Weakest(roster, S)].next) <= OrZero(roster[j].next)
<1> DEFINE Under(i, j) == \/ OrZero(roster[i].next) < OrZero(roster[j].next)
                          \/ OrZero(roster[i].next) = OrZero(roster[j].next) /\ i < j
           D == {x \in S \X S : Under(x[1], x[2])}
<1>1. \A i, j \in S : <<i, j>> \in D <=> Under(i, j)
  OBVIOUS
<1>2. Ranks(D, S)
  <2> HIDE DEF D
  <2> QED BY <1>1 DEF Ranks
<1> HIDE DEF D
<1>3. \E i \in S : \A j \in S \ {i} : Under(i, j)
  <2>1. PICK i \in S : First(D, S, i)
    BY <1>2, OneIsFirst
  <2>2. \A j \in S \ {i} : Under(i, j)
    BY <1>1, <2>1 DEF First
  <2> QED BY <2>2
<1> DEFINE w == Weakest(roster, S)
<1>4. w = CHOOSE i \in S : \A j \in S \ {i} : Under(i, j)
  BY DEF Weakest
<1> HIDE DEF w
<1>5. w \in S /\ \A j \in S \ {w} : Under(w, j)
  <2> HIDE DEF Under
  <2> QED BY <1>3, <1>4
<1>6. ASSUME NEW j \in S PROVE OrZero(roster[w].next) <= OrZero(roster[j].next)
  BY <1>5
<1> QED BY <1>5, <1>6 DEF w

\* The values of a roster: whole numbers, or none.
LEMMA ValuesAre ==
  ASSUME NEW r \in Rosters, NEW w
  PROVE  /\ Len(r) \in Nat /\ DOMAIN Values(r, w) = 1..Len(r)
         /\ \A i \in 1..Len(r) : /\ Values(r, w)[i].next \in Int /\ OrZero(Values(r, w)[i].next) \in Int
                                 /\ OrZero(Values(r, w)[i]["next"]) \in Int
<1>1. Len(r) \in Nat /\ DOMAIN r = 1..Len(r) /\ \A i \in DOMAIN r : r[i].proj \in Seq(Int)
  BY RosterIs
<1>2. ASSUME NEW i \in 1..Len(r) PROVE Week(r[i], w) \in Int
  <2>1. r[i].proj \in Seq(Int)
    BY <1>1
  <2>2. w \in DOMAIN r[i].proj => r[i].proj[w] \in Int
    BY <2>1
  <2>3. NoValue \in Int
    BY DEF NoValue
  <2> QED BY <2>2, <2>3 DEF Week
<1>3. \A i \in 1..Len(r) : Values(r, w)[i].next = Week(r[i], w)
  BY <1>1 DEF Values, Value
<1>4. \A i \in 1..Len(r) : Values(r, w)[i].next \in Int
  BY <1>2, <1>3
<1>5. \A i \in 1..Len(r) : OrZero(Values(r, w)[i].next) \in Int
  BY <1>4 DEF OrZero
<1>6. DOMAIN Values(r, w) = 1..Len(r)
  BY <1>1 DEF Values
<1> QED BY <1>1, <1>4, <1>5, <1>6

\* Who makes room for v: somebody of his position with a projection, and no such is lower.
LEMMA ReplacedIs ==
  ASSUME NEW r \in Rosters, NEW w, NEW v, Droppable(Values(r, w), v) # {}
  PROVE  LET ours == Values(r, w)
             drop == Replaced(ours, v)
         IN /\ drop \in Droppable(ours, v) /\ drop \in DOMAIN ours
            /\ \A j \in Droppable(ours, v) : ours[drop].next <= ours[j].next
<1> DEFINE ours == Values(r, w)
           S == Droppable(ours, v)
           drop == Replaced(ours, v)
<1>1. /\ Len(r) \in Nat /\ DOMAIN ours = 1..Len(r)
      /\ \A i \in 1..Len(r) : ours[i].next \in Int /\ OrZero(ours[i].next) \in Int
  BY ValuesAre
<1> HIDE DEF ours
<1>2. S \subseteq 1..Len(r) /\ \A i \in S : Known(ours[i].next)
  BY <1>1 DEF Droppable
<1>3. drop = Weakest(ours, S)
  BY DEF Replaced
<1>4. S # {}
  BY DEF ours
<1> HIDE DEF S, drop
<1>5. IsFiniteSet(S)
  <2>1. IsFiniteSet(1..Len(r))
    BY <1>1, FS_Interval
  <2> QED BY <1>2, <2>1, FS_Subset
<1>6. /\ drop \in S
      /\ \A j \in S : OrZero(ours[drop].next) <= OrZero(ours[j].next)
  <2>1. S \in SUBSET Nat /\ \A i \in S : OrZero(ours[i].next) \in Int
    BY <1>1, <1>2
  <2> QED BY <1>3, <1>4, <1>5, <2>1, WeakestIs
<1>7. \A j \in S : OrZero(ours[j].next) = ours[j].next
  BY <1>2 DEF OrZero
<1> QED BY <1>1, <1>2, <1>6, <1>7 DEF S, drop, ours

\* A free agent above the floor who improves on somebody next week is worth a claim.
LEMMA WantedIsWorthy ==
  ASSUME NEW r \in Rosters, NEW f \in Rosters, NEW w, NEW limits,
         limits.floor \in Int, limits.delta \in Int, NoValue < limits.delta,
         NEW i \in DOMAIN Values(f, w), Known(Values(f, w)[i].next),
         Values(f, w)[i].next >= limits.floor,
         NEW d \in DOMAIN Values(r, w), Values(r, w)[d].pos = Values(f, w)[i].pos,
         Known(Values(r, w)[d].next),
         Values(f, w)[i].next - Values(r, w)[d].next >= limits.delta
  PROVE  i \in Worthy(Values(r, w), Values(f, w), limits)
<1> DEFINE ours == Values(r, w)
           free == Values(f, w)
           drop == Replaced(ours, free[i])
<1>1. d \in Droppable(ours, free[i])
  BY DEF Droppable
<1>2. /\ drop \in Droppable(ours, free[i]) /\ drop \in DOMAIN ours
      /\ ours[drop].next <= ours[d].next
  BY <1>1, ReplacedIs
<1>3. /\ \A k \in DOMAIN ours : ours[k].next \in Int
      /\ \A k \in DOMAIN free : free[k].next \in Int
  BY ValuesAre
<1>4. Known(ours[drop].next)
  BY <1>2 DEF Droppable
<1>5. i \in Candidates(free, limits)
  BY DEF Candidates, HasValue, OrZero
<1> HIDE DEF ours, free, drop
<1>6. free[i].next - ours[drop].next >= limits.delta /\ free[i].next - ours[drop].next \in Int
  <2>1. /\ free[i].next \in Int /\ ours[drop].next \in Int /\ ours[d].next \in Int
        /\ free[i].next - ours[d].next >= limits.delta
    BY <1>2, <1>3 DEF ours, free
  <2> DEFINE a == free[i].next
             b == ours[drop].next
             c == ours[d].next
  <2>2. a \in Int /\ b \in Int /\ c \in Int /\ a - c >= limits.delta /\ b <= c
    BY <1>2, <2>1
  <2> HIDE DEF a, b, c
  <2>3. a - b >= limits.delta /\ a - b \in Int
    BY <2>2
  <2> QED BY <2>3 DEF a, b
<1>7. Delta(free[i].next, ours[drop].next) = free[i].next - ours[drop].next
  <2>1. Known(free[i].next)
    BY DEF free
  <2> QED BY <1>4, <2>1 DEF Delta
<1>8. Known(Delta(free[i].next, ours[drop].next))
  <2>1. NoValue \in Int
    BY DEF NoValue
  <2> QED BY <1>6, <1>7, <2>1 DEF Known
<1>9. Worth(free[i], ours[drop], limits)
  BY <1>6, <1>7, <1>8 DEF Worth
<1> QED BY <1>1, <1>5, <1>9 DEF Worthy, drop, ours, free

\* Whoever is worth a claim improves on the one who makes room for him.
LEMMA WorthySwaps ==
  ASSUME NEW r \in Rosters, NEW f \in Rosters, NEW w, NEW limits,
         NEW i \in Worthy(Values(r, w), Values(f, w), limits)
  PROVE  LET add == Values(f, w)[i]
             drop == Values(r, w)[Replaced(Values(r, w), add)]
         IN /\ i \in DOMAIN Values(f, w)
            /\ add.pos = drop.pos /\ Known(drop.next)
            /\ \/ Known(add.next) /\ add.next - drop.next >= limits.delta
               \/ Known(add.ros) /\ Known(drop.ros) /\ add.ros - drop.ros >= limits.season
<1> DEFINE ours == Values(r, w)
           free == Values(f, w)
           add == free[i]
           place == Replaced(ours, add)
           drop == ours[place]
<1>1. /\ i \in DOMAIN free
      /\ Droppable(ours, add) # {}
      /\ Worth(add, drop, limits)
  BY DEF Worthy, Candidates
<1>2. place \in Droppable(ours, add)
  BY <1>1, ReplacedIs
<1>3. add.pos = drop.pos /\ Known(drop.next)
  BY <1>2 DEF Droppable
<1> HIDE DEF ours, free, add, place, drop
<1>4. \A a, b : Known(Delta(a, b)) => Known(a) /\ Known(b) /\ Delta(a, b) = a - b
  BY DEF Known, Delta
<1>5. \/ Known(add.next) /\ add.next - drop.next >= limits.delta
      \/ Known(add.ros) /\ Known(drop.ros) /\ add.ros - drop.ros >= limits.season
  BY <1>1, <1>4 DEF Worth
<1> QED BY <1>1, <1>3, <1>5 DEF ours, free, add, place, drop

\* The claims are for the best of those who are worth it, as many as the limit allows.
LEMMA BestAreClaimed ==
  ASSUME NEW r \in Rosters, NEW f \in Rosters, NEW w, NEW limits, limits.most \in Nat
  PROVE  LET ours == Values(r, w)
             free == Values(f, w)
             worthy == Worthy(ours, free, limits)
             claims == Claims(ours, free, limits)
         IN /\ \A k \in DOMAIN claims : /\ claims[k].add \in worthy
                                        /\ claims[k].drop = Replaced(ours, free[claims[k].add])
            /\ \A i \in worthy \ {claims[k].add : k \in DOMAIN claims} :
                 /\ Len(claims) >= limits.most
                 /\ \A k \in DOMAIN claims : OrZero(free[claims[k].add].next) >= OrZero(free[i].next)
<1> DEFINE ours == Values(r, w)
           free == Values(f, w)
           worthy == Worthy(ours, free, limits)
           claims == Claims(ours, free, limits)
           n == Most(worthy, limits)
           c == Cardinality(worthy)
           s == Descending(free, worthy, "next")
<1>1. /\ n \in Nat /\ n <= c /\ (n < c => n >= limits.most)
      /\ DOMAIN claims = 1..n /\ Len(claims) = n
      /\ \A k \in 1..n : claims[k] = [add |-> s[k], drop |-> Replaced(ours, free[s[k]])]
  BY ClaimsAre
<1>2. IsFiniteSet(worthy) /\ c \in Nat /\ worthy \subseteq 1..Len(f)
  BY WorthyFinite
<1>3. /\ Len(f) \in Nat
      /\ \A i \in 1..Len(f) : OrZero(free[i].next) \in Int /\ OrZero(free[i]["next"]) \in Int
  BY ValuesAre
<1> HIDE DEF ours, free, worthy, claims, n
<1>4. worthy \in SUBSET Nat /\ \A i \in worthy : OrZero(free[i]["next"]) \in Int
  BY <1>2, <1>3
<1>5. /\ s \in [1..c -> worthy]
      /\ \A k, l \in 1..c : k < l => Precedes(free, "next", s[k], s[l])
      /\ \A i \in worthy : \E k \in 1..c : s[k] = i
  BY <1>2, <1>4, DescendingIs
<1> HIDE DEF c, s
<1>6. \A k \in 1..n : k \in 1..c /\ s[k] \in worthy
  BY <1>1, <1>2, <1>5
<1>7. \A k \in 1..n : claims[k].add = s[k] /\ claims[k].drop = Replaced(ours, free[s[k]])
  BY <1>1
<1>8. ASSUME NEW i \in worthy \ {claims[k].add : k \in 1..n}
      PROVE  n >= limits.most /\ \A k \in 1..n : OrZero(free[claims[k].add].next) >= OrZero(free[i].next)
  <2>1. PICK l \in 1..c : s[l] = i
    BY <1>5
  <2>2. ~(l \in 1..n)
    BY <1>7, <1>8, <2>1
  <2>3. n < l /\ n < c
    BY <1>1, <1>2, <2>2
  <2>4. ASSUME NEW k \in 1..n PROVE OrZero(free[claims[k].add].next) >= OrZero(free[i].next)
    <3>1. k \in 1..c /\ k < l /\ s[k] \in worthy
      BY <1>1, <1>6, <2>3
    <3>2. Precedes(free, "next", s[k], i)
      BY <1>5, <2>1, <3>1
    <3>3. OrZero(free[s[k]].next) \in Int /\ OrZero(free[i].next) \in Int
      BY <1>2, <1>3, <3>1
    <3>4. OrZero(free[s[k]].next) >= OrZero(free[i].next)
      BY <3>2, <3>3 DEF Precedes
    <3> QED BY <1>7, <3>4
  <2> QED BY <1>1, <2>3, <2>4
<1> QED BY <1>1, <1>6, <1>7, <1>8 DEF ours, free, worthy, claims

-----------------------------------------------------------------------------
(* Sums over finite sets.                                                  *)

\* What a sum adds last.
LastOne(s) == CHOOSE x \in s : TRUE

\* g sums f over the subsets of S of at most n elements, over all subsets, and
\* whichever element comes last.
SumsUpto(f, S, g, n) ==
  \A s \in SUBSET S : Cardinality(s) <= n =>
    g[s] = IF s = {} THEN 0 ELSE f[LastOne(s)] + g[s \ {LastOne(s)}]
Sums(f, S, g) ==
  \A s \in SUBSET S : g[s] = IF s = {} THEN 0 ELSE f[LastOne(s)] + g[s \ {LastOne(s)}]
SumsAny(f, S, g) ==
  \A s \in SUBSET S : \A x \in s : g[s] = f[x] + g[s \ {x}]

LEMMA LastOneIs == ASSUME NEW s, s # {} PROVE LastOne(s) \in s
BY DEF LastOne

\* Subsets of a finite set are finite and no larger.
LEMMA SubsetSizes ==
  ASSUME NEW S, IsFiniteSet(S)
  PROVE  \A s \in SUBSET S : IsFiniteSet(s) /\ Cardinality(s) \in 0..Cardinality(S)
<1>1. ASSUME NEW s \in SUBSET S PROVE IsFiniteSet(s) /\ Cardinality(s) \in 0..Cardinality(S)
  <2>1. IsFiniteSet(s) /\ Cardinality(s) <= Cardinality(S)
    BY FS_Subset
  <2>2. Cardinality(s) \in Nat /\ Cardinality(S) \in Nat
    BY <2>1, FS_CardinalityType
  <2> QED BY <2>1, <2>2
<1> QED BY <1>1

\* A sum over the small subsets extends to larger ones.
LEMMA SumsGrow ==
  ASSUME NEW S, IsFiniteSet(S), NEW f, \A x \in S : f[x] \in Int, NEW n \in Nat,
         NEW g \in [SUBSET S -> Int], SumsUpto(f, S, g, n)
  PROVE  \E h \in [SUBSET S -> Int] : SumsUpto(f, S, h, n + 1)
<1> DEFINE h == [s \in SUBSET S |-> IF Cardinality(s) <= n THEN g[s]
                                    ELSE f[LastOne(s)] + g[s \ {LastOne(s)}]]
<1>1. \A s \in SUBSET S : s # {} =>
        /\ LastOne(s) \in S /\ s \ {LastOne(s)} \in SUBSET S
        /\ Cardinality(s) \in Nat /\ Cardinality(s \ {LastOne(s)}) = Cardinality(s) - 1
  <2>1. ASSUME NEW s \in SUBSET S, s # {}
        PROVE  /\ LastOne(s) \in S /\ s \ {LastOne(s)} \in SUBSET S
               /\ Cardinality(s) \in Nat /\ Cardinality(s \ {LastOne(s)}) = Cardinality(s) - 1
    <3>1. IsFiniteSet(s) /\ LastOne(s) \in s
      BY <2>1, SubsetSizes, LastOneIs
    <3>2. /\ Cardinality(s) \in Nat /\ Cardinality(s \ {LastOne(s)}) \in Nat
          /\ Cardinality(s) = Cardinality(s \ {LastOne(s)}) + 1
      BY <3>1, Without
    <3> QED BY <3>1, <3>2
  <2> QED BY <2>1
<1>2. {} \in SUBSET S /\ Cardinality({}) = 0 /\ \A s \in SUBSET S : Cardinality(s) \in Nat
  <2>1. \A s \in SUBSET S : Cardinality(s) \in 0..Cardinality(S)
    BY SubsetSizes
  <2>2. Cardinality(S) \in Nat
    BY FS_CardinalityType
  <2> QED BY <2>1, <2>2, FS_EmptySet
<1>3. \A s \in SUBSET S : Cardinality(s) <= n => h[s] = g[s]
  OBVIOUS
<1>4. \A s \in SUBSET S : ~(Cardinality(s) <= n) => h[s] = f[LastOne(s)] + g[s \ {LastOne(s)}]
  OBVIOUS
<1>0. h = [s \in SUBSET S |-> h[s]]
  OBVIOUS
<1> HIDE DEF h
<1>5. h \in [SUBSET S -> Int]
  <2>1. ASSUME NEW s \in SUBSET S PROVE h[s] \in Int
    <3>1. ~(Cardinality(s) <= n) => s # {}
      <4>1. 0 <= n
        OBVIOUS
      <4> QED BY <1>2, <4>1
    <3>2. Cardinality(s) <= n => h[s] \in Int
      BY <1>3
    <3>3. ~(Cardinality(s) <= n) => f[LastOne(s)] \in Int /\ g[s \ {LastOne(s)}] \in Int
      BY <1>1, <3>1
    <3> QED BY <1>4, <3>2, <3>3
  <2> QED BY <1>0, <2>1
<1>6. ASSUME NEW s \in SUBSET S, Cardinality(s) <= n + 1
      PROVE  h[s] = IF s = {} THEN 0 ELSE f[LastOne(s)] + h[s \ {LastOne(s)}]
  <2>1. CASE s = {}
    <3>1. Cardinality(s) <= n
      BY <1>2, <2>1
    <3>2. g[s] = 0
      BY <2>1, <3>1 DEF SumsUpto
    <3> QED BY <1>3, <2>1, <3>1, <3>2
  <2>2. CASE s # {}
    <3>1. Cardinality(s \ {LastOne(s)}) <= n /\ s \ {LastOne(s)} \in SUBSET S
      <4>1. /\ Cardinality(s) \in Nat /\ Cardinality(s \ {LastOne(s)}) = Cardinality(s) - 1
            /\ s \ {LastOne(s)} \in SUBSET S
        BY <1>1, <2>2
      <4> QED BY <1>6, <4>1
    <3>2. h[s \ {LastOne(s)}] = g[s \ {LastOne(s)}]
      BY <1>3, <3>1
    <3>3. h[s] = f[LastOne(s)] + g[s \ {LastOne(s)}]
      BY <1>3, <1>4, <2>2 DEF SumsUpto
    <3> QED BY <2>2, <3>2, <3>3
  <2> QED BY <2>1, <2>2
<1> QED BY <1>5, <1>6 DEF SumsUpto

\* There is a function that sums f over the subsets of a finite set: by the least size for
\* which there is none.
LEMMA SumsExist ==
  ASSUME NEW S, IsFiniteSet(S), NEW f, \A x \in S : f[x] \in Int
  PROVE  \E g \in [SUBSET S -> Int] : Sums(f, S, g)
<1> DEFINE Sizes == {n \in Nat : ~\E g \in [SUBSET S -> Int] : SumsUpto(f, S, g, n)}
<1>1. \E g \in [SUBSET S -> Int] : SumsUpto(f, S, g, 0)
  <2> DEFINE g == [s \in SUBSET S |-> 0]
  <2>1. \A s \in SUBSET S : Cardinality(s) <= 0 => s = {}
    <3>1. ASSUME NEW s \in SUBSET S, Cardinality(s) <= 0 PROVE s = {}
      <4>1. IsFiniteSet(s) /\ Cardinality(s) \in Nat
        BY SubsetSizes, FS_CardinalityType
      <4> QED BY <3>1, <4>1, FS_EmptySet
    <3> QED BY <3>1
  <2>2. g \in [SUBSET S -> Int] /\ \A s \in SUBSET S : g[s] = 0
    OBVIOUS
  <2> HIDE DEF g
  <2>3. SumsUpto(f, S, g, 0)
    BY <2>1, <2>2 DEF SumsUpto
  <2> QED BY <2>2, <2>3
<1>2. ASSUME Sizes # {} PROVE FALSE
  <2>1. PICK n \in Sizes : \A m \in Nat : m < n => m \notin Sizes
    <3>1. Sizes \in SUBSET Nat
      OBVIOUS
    <3> HIDE DEF Sizes
    <3> QED BY <1>2, <3>1, LeastSize
  <2>2. n - 1 \in Nat /\ n - 1 < n /\ (n - 1) + 1 = n
    BY <1>1, <2>1
  <2>3. PICK g \in [SUBSET S -> Int] : SumsUpto(f, S, g, n - 1)
    BY <2>1, <2>2
  <2>4. \E h \in [SUBSET S -> Int] : SumsUpto(f, S, h, (n - 1) + 1)
    BY <2>2, <2>3, SumsGrow
  <2> QED BY <2>1, <2>2, <2>4
<1>3. Cardinality(S) \in Nat
  BY FS_CardinalityType
<1>4. PICK g \in [SUBSET S -> Int] : SumsUpto(f, S, g, Cardinality(S))
  BY <1>2, <1>3
<1>5. \A s \in SUBSET S : Cardinality(s) <= Cardinality(S)
  BY <1>3, SubsetSizes
<1> QED BY <1>4, <1>5 DEF Sums, SumsUpto

\* There is one sum only over what two sets have in common.
LEMMA SumsAgree ==
  ASSUME NEW S, IsFiniteSet(S), NEW f, NEW g, Sums(f, S, g),
         NEW T \in SUBSET S, NEW h, Sums(f, T, h)
  PROVE  \A s \in SUBSET T : g[s] = h[s]
<1> DEFINE Sizes == {n \in Nat : \E s \in SUBSET T : Cardinality(s) = n /\ g[s] # h[s]}
<1>1. SUFFICES ASSUME NEW s \in SUBSET T, g[s] # h[s] PROVE FALSE
  OBVIOUS
<1>2. \A t \in SUBSET T : IsFiniteSet(t) /\ Cardinality(t) \in Nat
  <2>1. ASSUME NEW t \in SUBSET T PROVE IsFiniteSet(t)
    BY SubsetSizes
  <2> QED BY <2>1, FS_CardinalityType
<1>3. Cardinality(s) \in Sizes
  BY <1>1, <1>2
<1>4. PICK n \in Sizes : \A m \in Nat : m < n => m \notin Sizes
  <2>1. Sizes \in SUBSET Nat
    OBVIOUS
  <2> HIDE DEF Sizes
  <2> QED BY <1>3, <2>1, LeastSize
<1>5. PICK t \in SUBSET T : Cardinality(t) = n /\ g[t] # h[t]
  BY <1>4
<1>6. t # {}
  BY <1>5 DEF Sums
<1> DEFINE u == t \ {LastOne(t)}
<1>7. u \in SUBSET T /\ Cardinality(u) \in Nat /\ Cardinality(u) < n
  <2>1. LastOne(t) \in t /\ IsFiniteSet(t)
    BY <1>2, <1>6, LastOneIs
  <2>2. /\ Cardinality(t) \in Nat /\ Cardinality(u) \in Nat
        /\ Cardinality(t) = Cardinality(u) + 1
    BY <2>1, Without
  <2> QED BY <1>5, <2>2
<1>8. g[u] = h[u]
  BY <1>4, <1>7
<1>9. g[t] = f[LastOne(t)] + g[u] /\ h[t] = f[LastOne(t)] + h[u]
  BY <1>6 DEF Sums
<1> QED BY <1>5, <1>8, <1>9

\* Whichever element comes last.
LEMMA SumsOfAny ==
  ASSUME NEW S, IsFiniteSet(S), NEW f, \A x \in S : f[x] \in Int,
         NEW g \in [SUBSET S -> Int], Sums(f, S, g)
  PROVE  SumsAny(f, S, g)
<1> DEFINE Off(s) == \E x \in s : g[s] # f[x] + g[s \ {x}]
           Sizes == {n \in Nat : \E s \in SUBSET S : Cardinality(s) = n /\ Off(s)}
<1>1. SUFFICES ASSUME NEW s \in SUBSET S, Off(s) PROVE FALSE
  BY DEF SumsAny
<1> HIDE DEF Off
<1>2. \A t \in SUBSET S : IsFiniteSet(t) /\ Cardinality(t) \in Nat
  <2>1. ASSUME NEW t \in SUBSET S PROVE IsFiniteSet(t)
    BY SubsetSizes
  <2> QED BY <2>1, FS_CardinalityType
<1>3. Cardinality(s) \in Sizes
  BY <1>1, <1>2
<1>4. PICK n \in Sizes : \A m \in Nat : m < n => m \notin Sizes
  <2>1. Sizes \in SUBSET Nat
    OBVIOUS
  <2> HIDE DEF Sizes
  <2> QED BY <1>3, <2>1, LeastSize
<1>5. PICK t \in SUBSET S : Cardinality(t) = n /\ Off(t)
  BY <1>4
<1>6. PICK x \in t : g[t] # f[x] + g[t \ {x}]
  BY <1>5 DEF Off
<1> DEFINE y == LastOne(t)
<1>7. y \in t /\ g[t] = f[y] + g[t \ {y}]
  BY <1>6, LastOneIs DEF Sums
<1> HIDE DEF y
<1>8. x # y
  BY <1>6, <1>7
<1>9. ASSUME NEW z \in t PROVE t \ {z} \in SUBSET S /\ ~Off(t \ {z})
  <2>1. /\ Cardinality(t) \in Nat /\ Cardinality(t \ {z}) \in Nat
        /\ Cardinality(t) = Cardinality(t \ {z}) + 1
    BY <1>2, Without
  <2>2. Cardinality(t \ {z}) < n
    BY <1>5, <2>1
  <2> QED BY <1>4, <2>1, <2>2
<1>10. g[t \ {y}] = f[x] + g[(t \ {y}) \ {x}] /\ g[t \ {x}] = f[y] + g[(t \ {x}) \ {y}]
  BY <1>7, <1>8, <1>9 DEF Off
<1>11. (t \ {y}) \ {x} = (t \ {x}) \ {y}
  OBVIOUS
<1>12. f[x] \in Int /\ f[y] \in Int /\ g[(t \ {x}) \ {y}] \in Int
  BY <1>7 DEF Sums
<1> DEFINE rest == g[(t \ {x}) \ {y}]
<1>13. /\ g[t] = f[y] + g[t \ {y}] /\ g[t \ {y}] = f[x] + rest /\ g[t \ {x}] = f[y] + rest
       /\ rest \in Int
  BY <1>7, <1>10, <1>11, <1>12
<1> HIDE DEF rest
<1>14. g[t] = f[x] + g[t \ {x}]
  BY <1>12, <1>13
<1> QED BY <1>6, <1>14

\* The sum over a finite set: nothing is 0, and each element adds its own.
Adds(f, S) ==
  /\ SumFunctionOnSet(f, {}) = 0 /\ SumFunctionOnSet(f, S) \in Int
  /\ \A x \in S : SumFunctionOnSet(f, S) = f[x] + SumFunctionOnSet(f, S \ {x})

\* What a sum over a finite set is: an integer, and any element may be taken off it.
LEMMA SumIs ==
  ASSUME NEW S, IsFiniteSet(S), NEW f, \A x \in S : f[x] \in Int
  PROVE  Adds(f, S)
<1> DEFINE Body(T, g) == [s \in SUBSET T |-> IF s = {} THEN 0 ELSE f[LastOne(s)] + g[s \ {LastOne(s)}]]
           It(T) == CHOOSE g : g = Body(T, g)
<1>1. ASSUME NEW T PROVE SumFunctionOnSet(f, T) = It(T)[T]
  BY DEF SumFunctionOnSet, FoldFunctionOnSet, MapThenFoldSet, LastOne
<1>2. PICK g \in [SUBSET S -> Int] : Sums(f, S, g)
  BY SumsExist
<1>3. ASSUME NEW T \in SUBSET S PROVE It(T)[T] = g[T]
  <2>1. IsFiniteSet(T) /\ \A x \in T : f[x] \in Int
    BY SubsetSizes
  <2>2. PICK h \in [SUBSET T -> Int] : Sums(f, T, h)
    BY <2>1, SumsExist
  <2>3. h = Body(T, h)
    BY <2>2 DEF Sums
  <2> DEFINE i == It(T)
  <2>4. i = Body(T, i)
    <3> HIDE DEF Body
    <3> QED BY <2>3
  <2> HIDE DEF It
  <2>5. Sums(f, T, i)
    <3> HIDE DEF i
    <3> QED BY <2>4 DEF Sums
  <2> HIDE DEF i
  <2>6. \A s \in SUBSET T : g[s] = i[s]
    BY <1>2, <2>5, SumsAgree
  <2> QED BY <2>6 DEF i
<1> HIDE DEF It
<1>4. \A T \in SUBSET S : SumFunctionOnSet(f, T) = g[T]
  BY <1>1, <1>3
<1>5. SumsAny(f, S, g)
  BY <1>2, SumsOfAny
<1>6. g[{}] = 0
  BY <1>2 DEF Sums
<1> QED BY <1>4, <1>5, <1>6 DEF SumsAny, Adds
-----------------------------------------------------------------------------
(* Steps one after another.                                                *)

\* g starts at b and takes the first m of the n steps F.
Steps(n, b, F, g, m) == g[0] = b /\ \A k \in 1..n : k <= m => g[k] = F[k][g[k - 1]]

\* A step that the last fill of a lineup is made by exists for as many steps as one wants.
LEMMA StepsExist ==
  ASSUME NEW n \in Nat, NEW D, NEW b \in D, NEW F \in [1..n -> [D -> D]]
  PROVE  \E g \in [0..n -> D] : Steps(n, b, F, g, n)
<1> DEFINE Short == {m \in Nat : ~\E g \in [0..n -> D] : Steps(n, b, F, g, m)}
<1>1. \E g \in [0..n -> D] : Steps(n, b, F, g, 0)
  <2> DEFINE g == [k \in 0..n |-> b]
  <2>1. g \in [0..n -> D] /\ g[0] = b
    OBVIOUS
  <2> HIDE DEF g
  <2> QED BY <2>1 DEF Steps
<1>2. SUFFICES ASSUME Short # {} PROVE FALSE
  OBVIOUS
<1>3. PICK m \in Short : \A i \in Nat : i < m => i \notin Short
  <2>1. Short \in SUBSET Nat
    OBVIOUS
  <2> HIDE DEF Short
  <2> QED BY <1>2, <2>1, LeastSize
<1>4. m \in Nat /\ m - 1 \in Nat /\ m - 1 < m
  BY <1>1, <1>3
<1>5. PICK g \in [0..n -> D] : Steps(n, b, F, g, m - 1)
  BY <1>3, <1>4
<1> DEFINE h == [k \in 0..n |-> IF k = m THEN F[k][g[k - 1]] ELSE g[k]]
<1>6. ASSUME NEW k \in 1..n PROVE k \in 0..n /\ k - 1 \in 0..n /\ k - 1 # k /\ F[k][g[k - 1]] \in D
  OBVIOUS
<1>7. h \in [0..n -> D] /\ h[0] = b
  <2>1. ASSUME NEW k \in 0..n PROVE h[k] \in D
    <3>1. k = m => k \in 1..n
      BY <1>4
    <3> QED BY <1>6, <3>1
  <2>2. h = [k \in 0..n |-> h[k]]
    OBVIOUS
  <2>3. h[0] = g[0] /\ g[0] = b
    BY <1>4, <1>5 DEF Steps
  <2> HIDE DEF h
  <2> QED BY <2>1, <2>2, <2>3
<1>8. ASSUME NEW k \in 1..n, k <= m PROVE h[k] = F[k][h[k - 1]]
  <2>1. k - 1 # m /\ h[k - 1] = g[k - 1]
    BY <1>4, <1>6, <1>8
  <2>2. CASE k = m
    BY <1>6, <2>1, <2>2
  <2>3. CASE k # m
    <3>1. k <= m - 1 /\ h[k] = g[k]
      BY <1>4, <1>6, <1>8, <2>3
    <3> HIDE DEF h
    <3> QED BY <1>5, <2>1, <3>1 DEF Steps
  <2> QED BY <2>2, <2>3
<1> HIDE DEF h
<1>9. Steps(n, b, F, h, m)
  BY <1>7, <1>8 DEF Steps
<1> QED BY <1>3, <1>7, <1>9

\* What holds at first and is kept by every step holds in the end.
LEMMA AllSteps ==
  ASSUME NEW n \in Nat, NEW Good \in SUBSET (0..n), 0 \in Good,
         \A k \in 1..n : k - 1 \in Good => k \in Good
  PROVE  \A k \in 0..n : k \in Good
<1> DEFINE Bad == {k \in Nat : k \in 0..n /\ k \notin Good}
<1>1. SUFFICES ASSUME Bad # {} PROVE FALSE
  OBVIOUS
<1>2. PICK k \in Bad : \A i \in Nat : i < k => i \notin Bad
  <2>1. Bad \in SUBSET Nat
    OBVIOUS
  <2> HIDE DEF Bad
  <2> QED BY <1>1, <2>1, LeastSize
<1>3. k \in 1..n /\ k - 1 \in Nat /\ k - 1 < k /\ k - 1 \in 0..n
  BY <1>2
<1> QED BY <1>2, <1>3
-----------------------------------------------------------------------------
(* Lineups as matchings.                                                   *)

\* The players P score as much as the players Q, unless Q are fewer and some
\* points are below zero.
Beats(f, C, P, Q) ==
  /\ Cardinality(Q) <= Cardinality(P)
  /\ Cardinality(P) = Cardinality(Q) \/ (\A c \in C : f[c] >= 0) =>
       SumFunctionOnSet(f, Q) <= SumFunctionOnSet(f, P)

Valued(f, C) == IsFiniteSet(C) /\ \A c \in C : f[c] \in Int

\* Sums over the players of a lineup can be reckoned with.
LEMMA SubsetsAdd ==
  ASSUME NEW f, NEW C, Valued(f, C), NEW P \in SUBSET C
  PROVE  IsFiniteSet(P) /\ Cardinality(P) \in Nat /\ Adds(f, P)
<1>1. IsFiniteSet(P)
  BY SubsetSizes DEF Valued
<1>2. \A c \in P : f[c] \in Int
  BY DEF Valued
<1> QED BY <1>1, <1>2, FS_CardinalityType, SumIs

\* To be as good is transitive,
LEMMA BeatsTwice ==
  ASSUME NEW f, NEW C, Valued(f, C), NEW P \in SUBSET C, NEW Q \in SUBSET C, NEW R \in SUBSET C,
         Beats(f, C, P, Q), Beats(f, C, Q, R)
  PROVE  Beats(f, C, P, R)
<1> DEFINE s(X) == SumFunctionOnSet(f, X)
           n(X) == Cardinality(X)
<1>1. \A X \in SUBSET C : n(X) \in Nat /\ s(X) \in Int
  BY SubsetsAdd DEF Adds
<1>2. /\ n(Q) <= n(P) /\ n(R) <= n(Q)
      /\ n(P) = n(Q) \/ (\A c \in C : f[c] >= 0) => s(Q) <= s(P)
      /\ n(Q) = n(R) \/ (\A c \in C : f[c] >= 0) => s(R) <= s(Q)
  BY DEF Beats
<1>3. n(P) \in Nat /\ n(Q) \in Nat /\ n(R) \in Nat /\ s(P) \in Int /\ s(Q) \in Int /\ s(R) \in Int
  BY <1>1
<1> HIDE DEF s, n
<1>4. n(R) <= n(P)
  BY <1>2, <1>3
<1>5. ASSUME n(P) = n(R) \/ \A c \in C : f[c] >= 0 PROVE s(R) <= s(P)
  <2>1. n(P) = n(R) => n(P) = n(Q) /\ n(Q) = n(R)
    BY <1>2, <1>3
  <2>2. s(Q) <= s(P) /\ s(R) <= s(Q)
    BY <1>2, <1>5, <2>1
  <2> QED BY <1>3, <2>2
<1> QED BY <1>4, <1>5 DEF Beats, s, n

\* and reflexive,
LEMMA BeatsItself ==
  ASSUME NEW f, NEW C, Valued(f, C), NEW P \in SUBSET C PROVE Beats(f, C, P, P)
<1>1. Cardinality(P) \in Nat /\ SumFunctionOnSet(f, P) \in Int
  BY SubsetsAdd DEF Adds
<1> QED BY <1>1 DEF Beats

\* One player more.
LEMMA AddsOne ==
  ASSUME NEW f, NEW C, Valued(f, C), NEW P \in SUBSET C, NEW c \in C \ P
  PROVE  /\ Cardinality(P \union {c}) = Cardinality(P) + 1
         /\ SumFunctionOnSet(f, P \union {c}) = f[c] + SumFunctionOnSet(f, P)
<1> DEFINE Q == P \union {c}
<1>1. Q \in SUBSET C /\ c \in Q /\ Q \ {c} = P
  OBVIOUS
<1>2. IsFiniteSet(Q) /\ Cardinality(Q) \in Nat /\ Adds(f, Q)
  BY <1>1, SubsetsAdd
<1>3. Cardinality(Q \ {c}) \in Nat /\ Cardinality(Q) = Cardinality(Q \ {c}) + 1
  BY <1>1, <1>2, Without
<1> QED BY <1>1, <1>2, <1>3 DEF Adds

\* and one more player does no harm.
LEMMA BeatsWithout ==
  ASSUME NEW f, NEW C, Valued(f, C), NEW P \in SUBSET C, NEW c \in C \ P
  PROVE  Beats(f, C, P \union {c}, P)
<1> DEFINE Q == P \union {c}
<1>1. /\ Cardinality(Q) = Cardinality(P) + 1
      /\ SumFunctionOnSet(f, Q) = f[c] + SumFunctionOnSet(f, P)
  BY AddsOne
<1>2. Cardinality(P) \in Nat /\ SumFunctionOnSet(f, P) \in Int
  BY SubsetsAdd DEF Adds
<1>3. f[c] \in Int
  BY DEF Valued
<1> HIDE DEF Q
<1>4. Cardinality(P) <= Cardinality(Q) /\ Cardinality(P) # Cardinality(Q)
  BY <1>1, <1>2
<1>5. (\A d \in C : f[d] >= 0) => SumFunctionOnSet(f, P) <= SumFunctionOnSet(f, Q)
  BY <1>1, <1>2, <1>3
<1>6. Beats(f, C, Q, P)
  BY <1>4, <1>5 DEF Beats
<1> QED BY <1>6 DEF Q

\* A better one instead.
LEMMA BeatsWorse ==
  ASSUME NEW f, NEW C, Valued(f, C), NEW P \in SUBSET C, NEW c \in C \ P, NEW d \in P, f[c] >= f[d]
  PROVE  /\ Beats(f, C, (P \ {d}) \union {c}, P)
         /\ SumFunctionOnSet(f, P) <= SumFunctionOnSet(f, (P \ {d}) \union {c})
<1> DEFINE R == P \ {d}
           Q == R \union {c}
<1>1. R \in SUBSET C /\ c \in C \ R /\ d \in C \ R /\ R \union {d} = P
  OBVIOUS
<1> HIDE DEF R
<1>2. /\ Cardinality(Q) = Cardinality(R) + 1
      /\ SumFunctionOnSet(f, Q) = f[c] + SumFunctionOnSet(f, R)
  BY <1>1, AddsOne
<1>3. /\ Cardinality(P) = Cardinality(R) + 1
      /\ SumFunctionOnSet(f, P) = f[d] + SumFunctionOnSet(f, R)
  <2>1. /\ Cardinality(R \union {d}) = Cardinality(R) + 1
        /\ SumFunctionOnSet(f, R \union {d}) = f[d] + SumFunctionOnSet(f, R)
    BY <1>1, AddsOne
  <2> QED BY <1>1, <2>1
<1>4. Cardinality(R) \in Nat /\ SumFunctionOnSet(f, R) \in Int
  BY <1>1, SubsetsAdd DEF Adds
<1>5. f[c] \in Int /\ f[d] \in Int
  BY DEF Valued
<1> HIDE DEF Q
<1>6. Cardinality(P) <= Cardinality(Q) /\ SumFunctionOnSet(f, P) <= SumFunctionOnSet(f, Q)
  BY <1>2, <1>3, <1>4, <1>5
<1>7. Beats(f, C, Q, P)
  BY <1>6 DEF Beats
<1> QED BY <1>6, <1>7 DEF Q, R

\* Seats and players are taken once, and only together if A allows it.
Legal(A, l) ==
  /\ l \subseteq A
  /\ \A s, t, c, d : <<s, c>> \in l /\ <<t, d>> \in l /\ (s = t \/ c = d) => s = t /\ c = d

\* The players of a set of pairs and the seats it uses.
LEMMA MembersAre ==
  ASSUME NEW I, NEW C, NEW l \in SUBSET (I \X C)
  PROVE  /\ \A c : c \in Players(l) <=> \E s : <<s, c>> \in l
         /\ \A s : s \in Used(l) <=> \E c : <<s, c>> \in l
         /\ Players(l) \subseteq C /\ Used(l) \subseteq I
<1>1. \A p \in l : p = <<p[1], p[2]>> /\ p[1] \in I /\ p[2] \in C
  OBVIOUS
<1>2. ASSUME NEW c PROVE c \in Players(l) <=> \E s : <<s, c>> \in l
  <2>1. ASSUME c \in Players(l) PROVE \E s : <<s, c>> \in l
    <3>1. PICK p \in l : c = p[2]
      BY <2>1 DEF Players
    <3>2. <<p[1], c>> \in l
      BY <1>1, <3>1
    <3> QED BY <3>2
  <2>2. ASSUME NEW s, <<s, c>> \in l PROVE c \in Players(l)
    <3>1. <<s, c>>[2] = c
      OBVIOUS
    <3> QED BY <2>2, <3>1, Zenon DEF Players
  <2> QED BY <2>1, <2>2
<1>3. ASSUME NEW s PROVE s \in Used(l) <=> \E c : <<s, c>> \in l
  <2>1. ASSUME s \in Used(l) PROVE \E c : <<s, c>> \in l
    <3>1. PICK p \in l : s = p[1]
      BY <2>1 DEF Used
    <3>2. <<s, p[2]>> \in l
      BY <1>1, <3>1
    <3> QED BY <3>2
  <2>2. ASSUME NEW c, <<s, c>> \in l PROVE s \in Used(l)
    <3>1. <<s, c>>[1] = s
      OBVIOUS
    <3> QED BY <2>2, <3>1, Zenon DEF Used
  <2> QED BY <2>1, <2>2
<1>4. \A s, c : <<s, c>> \in l => s \in I /\ c \in C
  BY <1>1
<1> QED BY <1>2, <1>3, <1>4

\* M with c on the seat S, and who was there, if anybody, on the seat c had.
Exchanged(S, c, M, N) ==
  /\ <<S, c>> \in N
  /\ \A s, d : <<s, d>> \in M /\ s # S /\ d # c => <<s, d>> \in N
  /\ \A s, d : <<s, d>> \in N => \/ <<s, d>> \in M \/ <<s, d>> = <<S, c>>
                                 \/ <<s, c>> \in M /\ <<S, d>> \in M
  /\ \A s : <<s, c>> \in M /\ S \notin Used(M) => s \notin Used(N)

\* What is needed to put c on S: whoever is there may go where c was, and is no
\* better than c if c was nowhere.
MayExchange(f, A, S, c, M) ==
  /\ Legal(A, M) /\ <<S, c>> \in A
  /\ \A s, d : <<s, c>> \in M /\ <<S, d>> \in M => <<s, d>> \in A
  /\ \A d : <<S, d>> \in M /\ c \notin Players(M) => f[c] >= f[d]

\* Putting c on S costs nothing.
Exchanges(f, C, A, S, c, M) ==
  \E N \in SUBSET A : /\ Legal(A, N) /\ Exchanged(S, c, M, N)
                      /\ Beats(f, C, Players(N), Players(M))

\* The exchange of the greedy argument: a legal lineup stays legal, and becomes no worse,
\* when c is put on S and whoever was there goes where c was.
LEMMA Exchange ==
  ASSUME NEW f, NEW C, Valued(f, C), NEW I, NEW A \in SUBSET (I \X C),
         NEW S, NEW c, NEW M, MayExchange(f, A, S, c, M)
  PROVE  Exchanges(f, C, A, S, c, M)
<1>1. /\ M \in SUBSET (I \X C) /\ M \in SUBSET A /\ Legal(A, M) /\ <<S, c>> \in A /\ c \in C /\ S \in I
  BY DEF MayExchange, Legal
<1>2. /\ \A d : d \in Players(M) <=> \E s : <<s, d>> \in M
      /\ \A s : s \in Used(M) <=> \E d : <<s, d>> \in M
      /\ Players(M) \subseteq C
  BY <1>1, MembersAre
<1>3. ASSUME NEW N \in SUBSET A
      PROVE  /\ \A d : d \in Players(N) <=> \E s : <<s, d>> \in N
             /\ \A s : s \in Used(N) <=> \E d : <<s, d>> \in N
             /\ Players(N) \subseteq C
  <2>1. N \in SUBSET (I \X C)
    OBVIOUS
  <2> QED BY <2>1, MembersAre
<1>4. \A s, d : <<s, d>> \in M => <<s, d>> \in A
  BY <1>1
<1>5. \A s, t, d, e : <<s, d>> \in M /\ <<t, e>> \in M /\ (s = t \/ d = e) => s = t /\ d = e
  BY <1>1 DEF Legal
<1>6. CASE <<S, c>> \in M
  <2>1. Exchanged(S, c, M, M)
    BY <1>2, <1>6 DEF Exchanged
  <2>2. Beats(f, C, Players(M), Players(M))
    BY <1>2, BeatsItself
  <2> QED BY <1>1, <2>1, <2>2 DEF Exchanges
<1>7. CASE <<S, c>> \notin M /\ c \in Players(M)
  <2>1. PICK T : <<T, c>> \in M
    BY <1>2, <1>7
  <2>2. T # S /\ <<T, c>> # <<S, c>>
    BY <1>7, <2>1
  <2>3. CASE S \notin Used(M)
    <3> DEFINE N == (M \ {<<T, c>>}) \union {<<S, c>>}
    <3>1. \A s, d : <<s, d>> \in N <=>
            \/ <<s, d>> \in M /\ ~(s = T /\ d = c)
            \/ s = S /\ d = c
      OBVIOUS
    <3>2. N \in SUBSET A
      BY <1>1
    <3> HIDE DEF N
    <3>3. \A d : <<S, d>> \notin M
      BY <1>2, <2>3
    <3>4. Legal(A, N)
      <4>1. ASSUME NEW s, NEW t, NEW d, NEW e, <<s, d>> \in N, <<t, e>> \in N, s = t \/ d = e
            PROVE  s = t /\ d = e
        BY <1>5, <2>1, <3>1, <3>3, <4>1
      <4> QED BY <3>2, <4>1 DEF Legal
    <3>5. Players(N) = Players(M)
      <4>1. ASSUME NEW d PROVE d \in Players(N) <=> d \in Players(M)
        <5>1. ASSUME NEW s, <<s, d>> \in N PROVE \E t : <<t, d>> \in M
          <6>1. CASE d = c
            BY <2>1, <6>1
          <6>2. CASE d # c
            <7>1. <<s, d>> \in M
              BY <3>1, <5>1, <6>2
            <7> QED BY <7>1
          <6> QED BY <6>1, <6>2
        <5>2. ASSUME NEW s, <<s, d>> \in M PROVE \E t : <<t, d>> \in N
          <6>1. CASE d = c
            <7>1. <<S, d>> \in N
              BY <3>1, <6>1
            <7> QED BY <7>1
          <6>2. CASE d # c
            BY <3>1, <5>2, <6>2
          <6> QED BY <6>1, <6>2
        <5> QED BY <1>2, <1>3, <3>2, <5>1, <5>2
      <4> QED BY <4>1
    <3>6. Exchanged(S, c, M, N)
      <4>1. \A s : <<s, c>> \in M => s \notin Used(N)
        <5>1. ASSUME NEW s, <<s, c>> \in M, s \in Used(N) PROVE FALSE
          <6>1. s = T
            BY <1>5, <2>1, <5>1
          <6>2. PICK d : <<s, d>> \in N
            BY <1>3, <3>2, <5>1
          <6> QED BY <1>5, <2>1, <2>2, <3>1, <6>1, <6>2
        <5> QED BY <5>1
      <4>2. \A s, d : <<s, d>> \in M /\ s # S /\ d # c => <<s, d>> \in N
        BY <3>1
      <4> QED BY <3>1, <4>1, <4>2 DEF Exchanged
    <3>7. Beats(f, C, Players(N), Players(M))
      BY <1>2, <3>5, BeatsItself
    <3> QED BY <3>2, <3>4, <3>6, <3>7 DEF Exchanges
  <2>4. CASE S \in Used(M)
    <3>1. PICK d : <<S, d>> \in M
      BY <1>2, <2>4
    <3>2. d # c /\ <<T, d>> \in A
      BY <1>7, <2>1, <3>1 DEF MayExchange
    <3> DEFINE N == (M \ {<<T, c>>, <<S, d>>}) \union {<<S, c>>, <<T, d>>}
    <3>3. \A s, e : <<s, e>> \in N <=>
            \/ <<s, e>> \in M /\ ~(s = T /\ e = c) /\ ~(s = S /\ e = d)
            \/ (s = S /\ e = c) \/ (s = T /\ e = d)
      OBVIOUS
    <3>4. N \in SUBSET A
      BY <1>1, <3>2
    <3> HIDE DEF N
    <3>5. Legal(A, N)
      <4>1. ASSUME NEW s, NEW t, NEW x, NEW e, <<s, x>> \in N, <<t, e>> \in N, s = t \/ x = e
            PROVE  s = t /\ x = e
        BY <1>5, <2>1, <2>2, <3>1, <3>2, <3>3, <4>1
      <4> QED BY <3>4, <4>1 DEF Legal
    <3>6. Players(N) = Players(M)
      <4>1. ASSUME NEW e PROVE e \in Players(N) <=> e \in Players(M)
        <5>1. (\E s : <<s, e>> \in N) <=> (\E s : <<s, e>> \in M)
          BY <1>5, <2>1, <3>1, <3>3
        <5> QED BY <1>2, <1>3, <3>4, <5>1
      <4> QED BY <4>1
    <3>7. Exchanged(S, c, M, N)
      <4>1. \A s, e : <<s, e>> \in M /\ s # S /\ e # c => <<s, e>> \in N
        BY <3>3
      <4>2. <<S, c>> \in N
        BY <3>3
      <4>3. \A s, e : <<s, e>> \in N => \/ <<s, e>> \in M \/ <<s, e>> = <<S, c>>
                                        \/ <<s, c>> \in M /\ <<S, e>> \in M
        BY <2>1, <3>1, <3>3
      <4> QED BY <2>4, <4>1, <4>2, <4>3 DEF Exchanged
    <3>8. Beats(f, C, Players(N), Players(M))
      BY <1>2, <3>6, BeatsItself
    <3> QED BY <3>4, <3>5, <3>7, <3>8 DEF Exchanges
  <2> QED BY <2>3, <2>4
<1>8. CASE c \notin Players(M)
  <2>1. \A s : <<s, c>> \notin M
    BY <1>2, <1>8
  <2>2. CASE S \notin Used(M)
    <3> DEFINE N == M \union {<<S, c>>}
    <3>1. \A s, d : <<s, d>> \in N <=> <<s, d>> \in M \/ (s = S /\ d = c)
      OBVIOUS
    <3>2. N \in SUBSET A
      BY <1>1
    <3> HIDE DEF N
    <3>3. \A d : <<S, d>> \notin M
      BY <1>2, <2>2
    <3>4. Legal(A, N)
      <4>1. ASSUME NEW s, NEW t, NEW d, NEW e, <<s, d>> \in N, <<t, e>> \in N, s = t \/ d = e
            PROVE  s = t /\ d = e
        BY <1>5, <2>1, <3>1, <3>3, <4>1
      <4> QED BY <3>2, <4>1 DEF Legal
    <3>5. Players(N) = Players(M) \union {c}
      <4>1. ASSUME NEW d PROVE d \in Players(N) <=> d \in Players(M) \/ d = c
        BY <1>2, <1>3, <3>1, <3>2
      <4> QED BY <4>1
    <3>6. Exchanged(S, c, M, N)
      BY <2>1, <3>1 DEF Exchanged
    <3>7. Beats(f, C, Players(N), Players(M))
      <4>1. c \in C \ Players(M) /\ Players(M) \in SUBSET C
        BY <1>1, <1>2, <1>8
      <4> QED BY <3>5, <4>1, BeatsWithout
    <3> QED BY <3>2, <3>4, <3>6, <3>7 DEF Exchanges
  <2>3. CASE S \in Used(M)
    <3>1. PICK d : <<S, d>> \in M
      BY <1>2, <2>3
    <3>2. f[c] >= f[d] /\ d # c
      BY <1>8, <2>1, <3>1 DEF MayExchange
    <3> DEFINE N == (M \ {<<S, d>>}) \union {<<S, c>>}
    <3>3. \A s, e : <<s, e>> \in N <=> (<<s, e>> \in M /\ ~(s = S /\ e = d)) \/ (s = S /\ e = c)
      OBVIOUS
    <3>4. N \in SUBSET A
      BY <1>1
    <3> HIDE DEF N
    <3>5. Legal(A, N)
      <4>1. ASSUME NEW s, NEW t, NEW x, NEW e, <<s, x>> \in N, <<t, e>> \in N, s = t \/ x = e
            PROVE  s = t /\ x = e
        BY <1>5, <2>1, <3>1, <3>3, <4>1
      <4> QED BY <3>4, <4>1 DEF Legal
    <3>6. Players(N) = (Players(M) \ {d}) \union {c}
      <4>1. ASSUME NEW e PROVE e \in Players(N) <=> (e \in Players(M) /\ e # d) \/ e = c
        <5>1. (\E s : <<s, e>> \in N) <=> ((\E s : <<s, e>> \in M) /\ e # d) \/ e = c
          BY <1>5, <2>1, <3>1, <3>3
        <5> QED BY <1>2, <1>3, <3>4, <5>1
      <4> QED BY <4>1
    <3>7. Exchanged(S, c, M, N)
      <4>1. \A s, e : <<s, e>> \in M /\ s # S /\ e # c => <<s, e>> \in N
        BY <3>3
      <4>2. <<S, c>> \in N
        BY <3>3
      <4>3. \A s, e : <<s, e>> \in N => \/ <<s, e>> \in M \/ <<s, e>> = <<S, c>>
        BY <3>3
      <4> QED BY <2>3, <4>1, <4>2, <4>3 DEF Exchanged
    <3>8. Beats(f, C, Players(N), Players(M))
      <4>1. c \in C \ Players(M) /\ Players(M) \in SUBSET C /\ d \in Players(M)
        BY <1>1, <1>2, <1>8, <3>1
      <4> QED BY <3>2, <3>6, <4>1, BeatsWorse
    <3> QED BY <3>4, <3>5, <3>7, <3>8 DEF Exchanges
  <2> QED BY <2>2, <2>3
<1> QED BY <1>6, <1>7, <1>8

-----------------------------------------------------------------------------
(* What the integer program admits.                                        *)

IsRoster(roster) == roster \in Seq([pos : Nat, points : Int, out : BOOLEAN])
AreSlots(slots) ==
  /\ slots \in Seq([eligible : SUBSET Nat, min : Nat, max : Int])
  /\ \A i \in DOMAIN slots : IsFiniteSet(slots[i].eligible)

\* Who may have which seat.
Fits(roster, slots) ==
  {x \in Seats(slots) \X Startable(roster) : roster[x[2]].pos \in Eligible(slots, x[1])}

\* A roster's points can be summed over those who can start.
LEMMA RosterValued ==
  ASSUME NEW roster, IsRoster(roster)
  PROVE  /\ Valued(Points(roster), Startable(roster))
         /\ Startable(roster) \subseteq DOMAIN roster /\ DOMAIN roster = 1..Len(roster)
         /\ Len(roster) \in Nat /\ 0 \notin Startable(roster)
         /\ \A c \in DOMAIN roster : Points(roster)[c] = roster[c].points /\ roster[c].points \in Int
<1>1. DOMAIN roster = 1..Len(roster) /\ Len(roster) \in Nat
  BY LenProperties DEF IsRoster
<1>2. \A c \in DOMAIN roster : roster[c].points \in Int
  <2>1. \A c \in 1..Len(roster) : roster[c] \in [pos : Nat, points : Int, out : BOOLEAN]
    BY ElementOfSeq DEF IsRoster
  <2> QED BY <1>1, <2>1
<1>3. \A c \in DOMAIN roster : Points(roster)[c] = roster[c].points
  BY DEF Points
<1>4. Startable(roster) \subseteq DOMAIN roster
  BY DEF Startable
<1>5. IsFiniteSet(Startable(roster))
  <2>1. IsFiniteSet(1..Len(roster))
    BY <1>1, FS_Interval
  <2> QED BY <1>1, <1>4, <2>1, FS_Subset
<1> QED BY <1>1, <1>2, <1>3, <1>4, <1>5 DEF Valued

\* Who may have which seat.
LEMMA FitsAre ==
  ASSUME NEW roster, NEW slots
  PROVE  /\ Fits(roster, slots) \in SUBSET (Seats(slots) \X Startable(roster))
         /\ \A s, c : <<s, c>> \in Fits(roster, slots) <=>
              /\ s \in Seats(slots) /\ c \in Startable(roster)
              /\ roster[c].pos \in Eligible(slots, s)
BY DEF Fits

\* The assignments of the integer program, functions to players or 0, are the legal
\* matchings of seats and players.
LEMMA AssignmentsAre ==
  ASSUME NEW roster, IsRoster(roster), NEW slots, NEW l
  PROVE  l \in Assignments(roster, Startable(roster), slots) <=> Legal(Fits(roster, slots), l)
<1> DEFINE cs == Startable(roster)
           seats == Seats(slots)
           A == Fits(roster, slots)
           fits(f) == \A s \in DOMAIN f :
             f[s] # 0 => /\ roster[f[s]].pos \in Eligible(slots, s)
                         /\ \A t \in DOMAIN f : f[s] = f[t] => s = t
           Pairs(f) == {<<s, f[s]>> : s \in {t \in DOMAIN f : f[t] # 0}}
<1>1. Assignments(roster, cs, slots) =
        {Pairs(f) : f \in {g \in [seats -> cs \union {0}] : fits(g)}}
  BY DEF Assignments
<1>2. 0 \notin cs
  BY RosterValued
<1>3. \A s, c : <<s, c>> \in A <=> s \in seats /\ c \in cs /\ roster[c].pos \in Eligible(slots, s)
  BY FitsAre
<1> HIDE DEF cs, seats, A
<1>4. ASSUME NEW f \in [seats -> cs \union {0}], fits(f), l = Pairs(f) PROVE Legal(A, l)
  <2>1. \A x \in l : \E s \in seats : x = <<s, f[s]>> /\ f[s] # 0
    BY <1>4
  <2>2. l \subseteq A
    <3>1. ASSUME NEW x \in l PROVE x \in A
      <4>1. PICK s \in seats : x = <<s, f[s]>> /\ f[s] # 0
        BY <2>1
      <4>2. f[s] \in cs /\ roster[f[s]].pos \in Eligible(slots, s)
        BY <1>4, <4>1
      <4> QED BY <1>3, <4>1, <4>2
    <3> QED BY <3>1
  <2>3. ASSUME NEW s, NEW t, NEW c, NEW d, <<s, c>> \in l, <<t, d>> \in l, s = t \/ c = d
        PROVE  s = t /\ c = d
    <3>1. s \in seats /\ c = f[s] /\ c # 0 /\ t \in seats /\ d = f[t]
      BY <2>1, <2>3
    <3> QED BY <1>4, <2>3, <3>1
  <2> QED BY <2>2, <2>3 DEF Legal
<1>5. ASSUME Legal(A, l) PROVE \E f \in [seats -> cs \union {0}] : fits(f) /\ l = Pairs(f)
  <2> DEFINE f == [s \in seats |-> IF \E c : <<s, c>> \in l THEN CHOOSE c : <<s, c>> \in l ELSE 0]
  <2>1. \A s, c : <<s, c>> \in l => s \in seats /\ c \in cs /\ roster[c].pos \in Eligible(slots, s)
    BY <1>3, <1>5 DEF Legal
  <2>2. \A s, t, c, d : <<s, c>> \in l /\ <<t, d>> \in l /\ (s = t \/ c = d) => s = t /\ c = d
    BY <1>5 DEF Legal
  <2>3. ASSUME NEW s, NEW c, <<s, c>> \in l PROVE s \in seats /\ f[s] = c
    <3>1. s \in seats /\ \E d : <<s, d>> \in l
      BY <2>1, <2>3
    <3>2. f[s] = CHOOSE d : <<s, d>> \in l
      BY <3>1
    <3> HIDE DEF f
    <3>3. <<s, f[s]>> \in l
      BY <3>1, <3>2
    <3> QED BY <2>2, <2>3, <3>1, <3>3
  <2>4. ASSUME NEW s \in seats, f[s] # 0 PROVE <<s, f[s]>> \in l
    <3>1. PICK d : <<s, d>> \in l
      BY <2>4
    <3> HIDE DEF f
    <3> QED BY <2>3, <3>1
  <2>5. DOMAIN f = seats /\ f = [s \in seats |-> f[s]]
    OBVIOUS
  <2> HIDE DEF f
  <2>6. \A s \in seats : f[s] \in cs \union {0}
    BY <2>1, <2>4
  <2>7. f \in [seats -> cs \union {0}]
    BY <2>5, <2>6
  <2>8. fits(f)
    <3>1. ASSUME NEW s \in seats, f[s] # 0
          PROVE  roster[f[s]].pos \in Eligible(slots, s) /\ \A t \in seats : f[s] = f[t] => s = t
      <4>1. \A t \in seats : f[t] # 0 => <<t, f[t]>> \in l
        BY <2>4
      <4> QED BY <2>1, <2>2, <3>1, <4>1
    <3> QED BY <2>5, <3>1
  <2>9. l = Pairs(f)
    <3>1. \A x \in l : x = <<x[1], x[2]>>
      BY <1>5, FitsAre DEF Legal, A
    <3>2. ASSUME NEW x \in l PROVE x \in Pairs(f)
      <4>1. <<x[1], x[2]>> \in l
        BY <3>1
      <4>2. x[1] \in seats /\ f[x[1]] = x[2]
        BY <2>3, <4>1
      <4>3. x[2] # 0
        BY <1>2, <2>1, <4>1
      <4> QED BY <2>5, <3>1, <4>2, <4>3
    <3>3. ASSUME NEW x \in Pairs(f) PROVE x \in l
      <4>1. PICK s \in seats : x = <<s, f[s]>> /\ f[s] # 0
        BY <2>5
      <4> QED BY <2>4, <4>1
    <3> QED BY <3>2, <3>3
  <2> QED BY <2>7, <2>8, <2>9
<1> QED BY <1>1, <1>4, <1>5 DEF A, cs, seats

\* So the lineups are the matchings with few enough optional seats.
LEMMA LineupsAre ==
  ASSUME NEW roster, IsRoster(roster), NEW slots, NEW extra
  PROVE  \A l : l \in Lineups(roster, slots, extra) <=>
           /\ Legal(Fits(roster, slots), l)
           /\ Cardinality(Used(l) \ Required(slots)) <= extra
BY AssignmentsAre DEF Lineups

\* There are finitely many seats.
LEMMA SeatsAre ==
  ASSUME NEW slots, AreSlots(slots)
  PROVE  /\ IsFiniteSet(Required(slots)) /\ IsFiniteSet(Optional(slots)) /\ IsFiniteSet(Seats(slots))
         /\ Seats(slots) \subseteq (1..Len(slots)) \X Nat
         /\ Required(slots) \subseteq Seats(slots) /\ Optional(slots) \subseteq Seats(slots)
         /\ Required(slots) \intersect Optional(slots) = {}
         /\ Seats(slots) \ Required(slots) = Optional(slots)
         /\ Cardinality(Required(slots)) \in Nat /\ Cardinality(Optional(slots)) \in Nat
<1> DEFINE n == Len(slots)
           R(i) == {i} \X (1..Low(slots[i]))
           O(i) == {i} \X (Low(slots[i]) + 1 .. High(slots[i]))
<1>1. n \in Nat /\ DOMAIN slots = 1..n
  BY LenProperties DEF AreSlots
<1>2. ASSUME NEW i \in 1..n PROVE Low(slots[i]) \in Nat /\ High(slots[i]) \in Nat
  <2>1. slots[i].min \in Nat /\ slots[i].max \in Int
    <3>1. slots[i] \in [eligible : SUBSET Nat, min : Nat, max : Int]
      BY ElementOfSeq DEF AreSlots
    <3> QED BY <3>1
  <2> QED BY <2>1 DEF Low, High, AtLeast
<1>3. ASSUME NEW i \in 1..n PROVE IsFiniteSet(R(i)) /\ IsFiniteSet(O(i))
  <2>1. IsFiniteSet(1..Low(slots[i])) /\ IsFiniteSet(Low(slots[i]) + 1 .. High(slots[i]))
    <3>1. 1 \in Int /\ Low(slots[i]) \in Int /\ Low(slots[i]) + 1 \in Int /\ High(slots[i]) \in Int
      BY <1>2
    <3> HIDE DEF R, O
    <3> QED BY <3>1, FS_Interval
  <2>2. IsFiniteSet({i})
    BY FS_Singleton
  <2> QED BY <2>1, <2>2, FS_Product
<1>4. /\ Required(slots) = UNION {R(i) : i \in 1..n}
      /\ Optional(slots) = UNION {O(i) : i \in 1..n}
  BY <1>1 DEF Required, Optional
<1>5. /\ \A x : x \in Required(slots) <=> \E i \in 1..n : x \in R(i)
      /\ \A x : x \in Optional(slots) <=> \E i \in 1..n : x \in O(i)
  BY <1>4
<1>6. /\ \A i : \A x \in R(i) : x = <<i, x[2]>> /\ x[2] \in 1..Low(slots[i])
      /\ \A i : \A x \in O(i) : x = <<i, x[2]>> /\ x[2] \in Low(slots[i]) + 1 .. High(slots[i])
  OBVIOUS
<1>7. IsFiniteSet(Required(slots)) /\ IsFiniteSet(Optional(slots))
  <2>1. IsFiniteSet({R(i) : i \in 1..n}) /\ IsFiniteSet({O(i) : i \in 1..n})
    <3>1. IsFiniteSet(1..n)
      BY <1>1, FS_Interval
    <3> DEFINE r == [i \in 1..n |-> R(i)]
               o == [i \in 1..n |-> O(i)]
    <3>2. /\ r \in Surjection(1..n, {R(i) : i \in 1..n})
          /\ o \in Surjection(1..n, {O(i) : i \in 1..n})
      <4> HIDE DEF R, O
      <4> QED BY DEF Surjection
    <3> HIDE DEF r, o, R, O
    <3> QED BY <3>1, <3>2, FS_Surjection
  <2>2. \A T \in {R(i) : i \in 1..n} : IsFiniteSet(T)
    BY <1>3
  <2>3. \A T \in {O(i) : i \in 1..n} : IsFiniteSet(T)
    BY <1>3
  <2> HIDE DEF R, O
  <2> QED BY <1>4, <2>1, <2>2, <2>3, FS_UNION
<1>8. Seats(slots) \subseteq (1..n) \X Nat
  <2>1. ASSUME NEW x \in Seats(slots) PROVE x \in (1..n) \X Nat
    <3>1. PICK i \in 1..n : x \in R(i) \/ x \in O(i)
      BY <1>5 DEF Seats
    <3>2. x = <<i, x[2]>> /\ x[2] \in Nat
      BY <1>2, <1>6, <3>1
    <3> QED BY <3>2
  <2> QED BY <2>1
<1>9. Required(slots) \intersect Optional(slots) = {}
  <2>1. ASSUME NEW x \in Required(slots), x \in Optional(slots) PROVE FALSE
    <3>1. PICK i \in 1..n : x \in R(i)
      BY <1>5
    <3>2. PICK j \in 1..n : x \in O(j)
      BY <1>5, <2>1
    <3>3. i = j /\ x[2] <= Low(slots[i]) /\ x[2] >= Low(slots[j]) + 1 /\ x[2] \in Int
      BY <1>2, <1>6, <3>1, <3>2
    <3> QED BY <1>2, <3>3
  <2> QED BY <2>1
<1> HIDE DEF n
<1>10. IsFiniteSet(Seats(slots))
  BY <1>7, FS_Union DEF Seats
<1> QED BY <1>7, <1>8, <1>9, <1>10, FS_CardinalityType DEF Seats, n
-----------------------------------------------------------------------------
(* The greedy solver's orders and steps.                                   *)

\* Fewer players could take s than t, or as many and s is listed first.
Before(roster, cs, slots, s, t) ==
  LET n(seat) == Cardinality(Takers(roster, cs, Eligible(slots, seat)))
  IN n(s) < n(t) \/ (n(s) = n(t) /\ Listed(s, t))

\* o puts the elements of S in an order, each once.
Enumerates(o, S) ==
  /\ o \in [1..Cardinality(S) -> S]
  /\ \A k, l \in 1..Cardinality(S) : o[k] = o[l] => k = l
  /\ \A x \in S : \E k \in 1..Cardinality(S) : o[k] = x

\* What is sorted by a strict order has every element once.
LEMMA SortedEnumerates ==
  ASSUME NEW D, NEW S, IsFiniteSet(S), Ranks(D, S), NEW s, Sorted(D, S, s)
  PROVE  Enumerates(s, S)
<1>1. Cardinality(S) \in Nat /\ s \in [1..Cardinality(S) -> S]
  BY FS_CardinalityType DEF Sorted
<1>2. ASSUME NEW k \in 1..Cardinality(S), NEW l \in 1..Cardinality(S), s[k] = s[l] PROVE k = l
  <2>1. ~(k < l) /\ ~(l < k)
    BY <1>1, <1>2 DEF Sorted, Ranks
  <2> QED BY <1>1, <2>1
<1>3. \A x \in S : \E k \in 1..Cardinality(S) : s[k] = x
  BY OrderIsFull
<1> QED BY <1>1, <1>2, <1>3 DEF Enumerates

\* Who can take a seat.
LEMMA TakersAre ==
  ASSUME NEW roster, NEW cs, IsFiniteSet(cs), NEW eligible
  PROVE  /\ \A c : c \in Takers(roster, cs, eligible) <=> c \in cs /\ roster[c].pos \in eligible
         /\ IsFiniteSet(Takers(roster, cs, eligible))
         /\ Cardinality(Takers(roster, cs, eligible)) \in Nat
<1>1. \A c : c \in Takers(roster, cs, eligible) <=> c \in cs /\ roster[c].pos \in eligible
  BY DEF Takers
<1>2. Takers(roster, cs, eligible) \subseteq cs
  BY <1>1
<1>3. IsFiniteSet(Takers(roster, cs, eligible))
  BY <1>2, FS_Subset
<1> QED BY <1>1, <1>3, FS_CardinalityType

\* The seats in order: every required seat once, none before one that fewer could take.
LEMMA RestrictiveIs ==
  ASSUME NEW roster, NEW slots, AreSlots(slots), NEW cs, IsFiniteSet(cs)
  PROVE  LET o == Restrictive(roster, cs, slots)
         IN /\ Enumerates(o, Required(slots))
            /\ \A k, l \in 1..Cardinality(Required(slots)) :
                 k < l => Before(roster, cs, slots, o[k], o[l])
<1> DEFINE S == Required(slots)
           o == Restrictive(roster, cs, slots)
           D == {x \in S \X S : Before(roster, cs, slots, x[1], x[2])}
           Of(t) == \A k, l \in DOMAIN t : k < l => Before(roster, cs, slots, t[k], t[l])
           n(s) == Cardinality(Takers(roster, cs, Eligible(slots, s)))
<1>1. \A s, t \in S : <<s, t>> \in D <=> Before(roster, cs, slots, s, t)
  OBVIOUS
<1>2. IsFiniteSet(S) /\ \A s \in S : s = <<s[1], s[2]>> /\ s[1] \in Nat /\ s[2] \in Nat
  <2>1. IsFiniteSet(S) /\ S \subseteq (1..Len(slots)) \X Nat
    BY SeatsAre
  <2> HIDE DEF S
  <2> QED BY <2>1
<1>3. \A s : n(s) \in Nat
  <2>1. ASSUME NEW s PROVE n(s) \in Nat
    BY TakersAre
  <2> QED BY <2>1
<1> HIDE DEF S, D
<1>4. \A s, t \in S : <<s, t>> \in D <=> n(s) < n(t) \/ (n(s) = n(t) /\ Listed(s, t))
  BY <1>1 DEF Before
<1> HIDE DEF n
<1>5. Ranks(D, S)
  <2>1. ASSUME NEW s \in S, NEW t \in S, s # t PROVE <<s, t>> \in D \/ <<t, s>> \in D
    <3>1. Listed(s, t) \/ Listed(t, s)
      BY <1>2, <2>1 DEF Listed
    <3> QED BY <1>3, <1>4, <3>1
  <2>2. ASSUME NEW s \in S, NEW t \in S, NEW u \in S, <<s, t>> \in D, <<t, u>> \in D
        PROVE  <<s, u>> \in D
    <3>1. Listed(s, t) /\ Listed(t, u) => Listed(s, u)
      BY <1>2 DEF Listed
    <3> QED BY <1>3, <1>4, <2>2, <3>1
  <2>3. ASSUME NEW s \in S PROVE <<s, s>> \notin D
    <3>1. ~Listed(s, s)
      BY <1>2 DEF Listed
    <3> QED BY <1>3, <1>4, <3>1
  <2> QED BY <2>1, <2>2, <2>3 DEF Ranks
<1>6. ASSUME NEW t \in [1..Cardinality(S) -> S] PROVE Of(t) <=> Sorted(D, S, t)
  BY <1>1 DEF Sorted
<1>7. \E t \in [1..Cardinality(S) -> S] : Of(t)
  <2> HIDE DEF Of
  <2> QED BY <1>2, <1>5, <1>6, OneOrder
<1>8. o = CHOOSE t \in [1..Cardinality(S) -> S] : Of(t)
  BY DEF Restrictive, InOrder, Before, S
<1> HIDE DEF o, Of
<1>9. o \in [1..Cardinality(S) -> S] /\ Of(o)
  BY <1>7, <1>8
<1>10. Enumerates(o, S)
  <2>1. Sorted(D, S, o)
    BY <1>6, <1>9
  <2> QED BY <1>2, <1>5, <2>1, SortedEnumerates
<1>11. DOMAIN o = 1..Cardinality(S)
  BY <1>9
<1> QED BY <1>9, <1>10, <1>11 DEF Of, S, o

\* The better of two players is the one with more points, or listed first.
LEMMA BetterRanks ==
  ASSUME NEW roster, IsRoster(roster), NEW cs \in SUBSET Startable(roster)
  PROVE  /\ Ranks({x \in cs \X cs : Better(roster, x[1], x[2])}, cs)
         /\ IsFiniteSet(cs)
         /\ \A c, d \in cs : Better(roster, c, d) => Points(roster)[c] >= Points(roster)[d]
<1> DEFINE D == {x \in cs \X cs : Better(roster, x[1], x[2])}
<1>1. \A c \in cs : c \in Nat /\ roster[c].points \in Int /\ Points(roster)[c] = roster[c].points
  BY RosterValued
<1>2. \A c, d \in cs : <<c, d>> \in D <=> Better(roster, c, d)
  OBVIOUS
<1>3. Ranks(D, cs)
  <2> HIDE DEF D
  <2> QED BY <1>1, <1>2 DEF Ranks, Better
<1>4. IsFiniteSet(cs)
  BY RosterValued, FS_Subset DEF Valued
<1> QED BY <1>1, <1>3, <1>4 DEF Better

\* Of any players there is a best one.
LEMMA BestIs ==
  ASSUME NEW roster, IsRoster(roster), NEW cs \in SUBSET Startable(roster), cs # {}
  PROVE  /\ Best(roster, cs) \in cs
         /\ \A d \in cs : Points(roster)[Best(roster, cs)] >= Points(roster)[d]
<1> DEFINE D == {x \in cs \X cs : Better(roster, x[1], x[2])}
           Top(c) == \A d \in cs \ {c} : Better(roster, c, d)
           best == Best(roster, cs)
<1>1. Ranks(D, cs) /\ IsFiniteSet(cs)
  BY BetterRanks
<1>2. \A c, d \in cs : <<c, d>> \in D <=> Better(roster, c, d)
  OBVIOUS
<1> HIDE DEF D
<1>3. PICK c \in cs : First(D, cs, c)
  BY <1>1, OneIsFirst
<1>4. Top(c)
  BY <1>2, <1>3 DEF First
<1>5. best = CHOOSE d \in cs : Top(d)
  BY DEF Best
<1> HIDE DEF Top, best
<1>6. best \in cs /\ Top(best)
  BY <1>3, <1>4, <1>5
<1>7. \A d \in cs \ {best} : Better(roster, best, d)
  BY <1>6 DEF Top
<1>8. ASSUME NEW d \in cs PROVE Points(roster)[best] >= Points(roster)[d]
  <2>1. CASE d = best
    <3>1. Points(roster)[best] \in Int
      BY <1>6, RosterValued
    <3> QED BY <2>1, <3>1
  <2>2. CASE d # best
    BY <1>6, <1>7, <2>2, BetterRanks
  <2> QED BY <2>1, <2>2
<1> QED BY <1>6, <1>8 DEF best

\* The candidates from the best to the worst.
ByPoints(roster, cs) == InOrder(cs, LAMBDA c, d : Better(roster, c, d))

\* The players in order: each once, none before a better one.
LEMMA ByPointsIs ==
  ASSUME NEW roster, IsRoster(roster), NEW cs \in SUBSET Startable(roster)
  PROVE  LET o == ByPoints(roster, cs)
         IN /\ Enumerates(o, cs)
            /\ \A k, l \in 1..Cardinality(cs) :
                 k < l => Points(roster)[o[k]] >= Points(roster)[o[l]]
<1> DEFINE o == ByPoints(roster, cs)
           D == {x \in cs \X cs : Better(roster, x[1], x[2])}
           Of(t) == \A k, l \in DOMAIN t : k < l => Better(roster, t[k], t[l])
<1>1. Ranks(D, cs) /\ IsFiniteSet(cs)
  BY BetterRanks
<1>2. \A c, d \in cs : <<c, d>> \in D <=> Better(roster, c, d)
  OBVIOUS
<1> HIDE DEF D
<1>3. ASSUME NEW t \in [1..Cardinality(cs) -> cs] PROVE Of(t) <=> Sorted(D, cs, t)
  BY <1>2 DEF Sorted
<1>4. \E t \in [1..Cardinality(cs) -> cs] : Of(t)
  <2> HIDE DEF Of
  <2> QED BY <1>1, <1>3, OneOrder
<1>5. o = CHOOSE t \in [1..Cardinality(cs) -> cs] : Of(t)
  BY DEF ByPoints, InOrder
<1> HIDE DEF o, Of
<1>6. o \in [1..Cardinality(cs) -> cs] /\ Of(o)
  BY <1>4, <1>5
<1>7. Enumerates(o, cs)
  <2>1. Sorted(D, cs, o)
    BY <1>3, <1>6
  <2> QED BY <1>1, <2>1, SortedEnumerates
<1>8. ASSUME NEW k \in 1..Cardinality(cs), NEW l \in 1..Cardinality(cs), k < l
      PROVE  Points(roster)[o[k]] >= Points(roster)[o[l]]
  <2>1. DOMAIN o = 1..Cardinality(cs) /\ o[k] \in cs /\ o[l] \in cs
    BY <1>6
  <2>2. Better(roster, o[k], o[l])
    BY <1>6, <1>8, <2>1 DEF Of
  <2> QED BY <2>1, <2>2, BetterRanks
<1> QED BY <1>7, <1>8 DEF o
\* A step of FillRequired, for the seat s.
Filled(roster, cs, slots, s, l) ==
  LET left == Takers(roster, cs \ Players(l), Eligible(slots, s))
  IN IF left = {} THEN l ELSE l \union {<<s, Best(roster, left)>>}

\* g are the lineups that FillRequired makes.
RequiredSteps(roster, cs, slots, g) ==
  /\ g[0] = {}
  /\ \A k \in 1..Cardinality(Required(slots)) :
       g[k] = Filled(roster, cs, slots, Restrictive(roster, cs, slots)[k], g[k - 1])

\* Filling a seat keeps players to seats they may have.
LEMMA FilledFits ==
  ASSUME NEW roster, IsRoster(roster), NEW slots,
         NEW s \in Seats(slots), NEW l \in SUBSET Fits(roster, slots)
  PROVE  Filled(roster, Startable(roster), slots, s, l) \in SUBSET Fits(roster, slots)
<1> DEFINE cs == Startable(roster)
           left == Takers(roster, cs \ Players(l), Eligible(slots, s))
<1>1. \A c : c \in left => c \in cs /\ roster[c].pos \in Eligible(slots, s)
  BY DEF Takers
<1>2. Filled(roster, cs, slots, s, l) = IF left = {} THEN l ELSE l \union {<<s, Best(roster, left)>>}
  BY DEF Filled
<1> HIDE DEF left
<1>3. left # {} => Best(roster, left) \in left
  <2>1. left \in SUBSET cs
    BY <1>1
  <2> HIDE DEF cs
  <2> QED BY <2>1, BestIs DEF cs
<1>4. left # {} => <<s, Best(roster, left)>> \in Fits(roster, slots)
  BY <1>1, <1>3, FitsAre
<1> QED BY <1>2, <1>4

\* The required seats are filled in steps, one for each.
LEMMA RequiredStepsAre ==
  ASSUME NEW roster, IsRoster(roster), NEW slots, AreSlots(slots)
  PROVE  \E g : /\ RequiredSteps(roster, Startable(roster), slots, g)
                /\ FillRequired(roster, Startable(roster), slots) = g[Cardinality(Required(slots))]
<1> DEFINE cs == Startable(roster)
           n == Cardinality(Required(slots))
           o == Restrictive(roster, cs, slots)
           A == Fits(roster, slots)
           F == [k \in 1..n |-> [l \in SUBSET A |-> Filled(roster, cs, slots, o[k], l)]]
           Body(h) == [k \in 0..n |-> IF k = 0 THEN {} ELSE Filled(roster, cs, slots, o[k], h[k - 1])]
           i == CHOOSE h : h = Body(h)
<1>1. n \in Nat /\ Required(slots) \subseteq Seats(slots)
  BY SeatsAre
<1>2. \A k \in 1..n : o[k] \in Required(slots)
  <2>1. IsFiniteSet(cs)
    BY RosterValued DEF Valued
  <2>2. Enumerates(o, Required(slots))
    <3> HIDE DEF cs
    <3> QED BY <2>1, RestrictiveIs
  <2> HIDE DEF o
  <2> QED BY <2>2 DEF Enumerates
<1>3. FillRequired(roster, cs, slots) = i[n]
  BY DEF FillRequired, Filled
<1> HIDE DEF o
<1>4. \A k \in 1..n : \A l \in SUBSET A : Filled(roster, cs, slots, o[k], l) \in SUBSET A
  BY <1>1, <1>2, FilledFits
<1> HIDE DEF n, A, cs
<1>5. PICK g \in [0..n -> SUBSET A] : Steps(n, {}, F, g, n)
  <2>1. F \in [1..n -> [SUBSET A -> SUBSET A]] /\ {} \in SUBSET A
    BY <1>4
  <2> HIDE DEF F
  <2> QED BY <1>1, <2>1, StepsExist
<1>6. g = Body(g)
  <2>1. \A k \in 0..n : g[k] = IF k = 0 THEN {} ELSE Filled(roster, cs, slots, o[k], g[k - 1])
    <3>1. ASSUME NEW k \in 1..n PROVE g[k] = Filled(roster, cs, slots, o[k], g[k - 1])
      <4>1. k <= n /\ k - 1 \in 0..n
        BY <1>1
      <4>2. g[k] = F[k][g[k - 1]]
        BY <1>5, <4>1 DEF Steps
      <4> QED BY <4>1, <4>2
    <3>2. g[0] = {}
      BY <1>5 DEF Steps
    <3>3. \A k \in 0..n : k # 0 => k \in 1..n
      BY <1>1
    <3> QED BY <3>1, <3>2, <3>3
  <2> QED BY <2>1
<1>7. i = Body(i)
  <2> HIDE DEF Body
  <2> QED BY <1>6
<1> HIDE DEF i
<1>8. i[0] = {} /\ \A k \in 1..n : i[k] = Filled(roster, cs, slots, o[k], i[k - 1])
  <2>1. \A k \in 0..n : i[k] = IF k = 0 THEN {} ELSE Filled(roster, cs, slots, o[k], i[k - 1])
    BY <1>7
  <2>2. 0 \in 0..n /\ \A k \in 1..n : k \in 0..n /\ k # 0
    BY <1>1
  <2> QED BY <2>1, <2>2
<1>9. RequiredSteps(roster, cs, slots, i)
  BY <1>8 DEF RequiredSteps, o, n
<1> QED BY <1>3, <1>9 DEF cs, n

-----------------------------------------------------------------------------
(* The required seats.                                                     *)

\* What of the league's slots the greedy solver takes on.
Solvable(slots, extra) ==
  /\ Laminar(slots) /\ extra \in Nat
  /\ extra > 0 => \A s \in Seats(slots) : Cardinality(Eligible(slots, s)) = 1

\* M is legal, uses no more optional seats than it may, and beats L.
Rivals(roster, slots, extra, M, L) ==
  /\ Legal(Fits(roster, slots), M) /\ Cardinality(Used(M) \ Required(slots)) <= extra
  /\ Players(L) \subseteq Startable(roster)
  /\ Beats(Points(roster), Startable(roster), Players(M), Players(L))

\* A lineup that beats L has l as its first k required seats.
Reaches(roster, slots, extra, L, o, k, l) ==
  \E M : /\ Rivals(roster, slots, extra, M, L) /\ l \subseteq M
         /\ \A j \in 1..k : \A d : <<o[j], d>> \in M => <<o[j], d>> \in l
         /\ \A s, d : <<s, d>> \in l => \E j \in 1..k : s = o[j]

\* With one position a seat, seats that share one are alike.
LEMMA SamePositions ==
  ASSUME NEW slots, AreSlots(slots), NEW extra, Solvable(slots, extra), extra > 0,
         NEW s \in Seats(slots), NEW t \in Seats(slots),
         NEW p, p \in Eligible(slots, s), p \in Eligible(slots, t)
  PROVE  Eligible(slots, s) = Eligible(slots, t)
<1>1. ASSUME NEW u \in Seats(slots) PROVE \E x : Eligible(slots, u) = {x}
  <2>1. Seats(slots) \subseteq (1..Len(slots)) \X Nat /\ DOMAIN slots = 1..Len(slots)
    BY SeatsAre, LenProperties DEF AreSlots
  <2>2. u[1] \in DOMAIN slots
    BY <2>1
  <2>3. IsFiniteSet(Eligible(slots, u)) /\ Cardinality(Eligible(slots, u)) = 1
    BY <2>2 DEF AreSlots, Eligible, Solvable
  <2> QED BY <2>3, FS_Singleton
<1>2. PICK x : Eligible(slots, s) = {x}
  BY <1>1
<1>3. PICK y : Eligible(slots, t) = {y}
  BY <1>1
<1> QED BY <1>2, <1>3

\* Where two seats have a taker in common, whoever may have the more restrictive
\* one may have the other.
LEMMA MoreRestrictive ==
  ASSUME NEW roster, IsRoster(roster), NEW slots, AreSlots(slots), NEW extra, Solvable(slots, extra),
         NEW s \in Required(slots), NEW t \in Seats(slots), extra = 0 => t \in Required(slots),
         t \in Required(slots) => Before(roster, Startable(roster), slots, s, t),
         NEW c, <<s, c>> \in Fits(roster, slots), <<t, c>> \in Fits(roster, slots),
         NEW d, <<s, d>> \in Fits(roster, slots)
  PROVE  <<t, d>> \in Fits(roster, slots)
<1> DEFINE cs == Startable(roster)
           a == Eligible(slots, s)
           b == Eligible(slots, t)
<1>1. /\ s \in Seats(slots) /\ c \in cs /\ d \in cs
      /\ roster[c].pos \in a /\ roster[c].pos \in b /\ roster[d].pos \in a
  BY FitsAre
<1>2. SUFFICES roster[d].pos \in b
  BY <1>1, FitsAre
<1>3. CASE extra > 0
  <2>1. a = b
    BY <1>1, <1>3, SamePositions
  <2> HIDE DEF a, b
  <2> QED BY <1>1, <2>1
<1>4. CASE extra = 0
  <2> DEFINE S == Takers(roster, cs, a)
             T == Takers(roster, cs, b)
  <2>1. IsFiniteSet(cs)
    BY RosterValued DEF Valued
  <2>2. /\ \A e : e \in S <=> e \in cs /\ roster[e].pos \in a
        /\ \A e : e \in T <=> e \in cs /\ roster[e].pos \in b
        /\ IsFiniteSet(S) /\ Cardinality(S) \in Nat /\ Cardinality(T) \in Nat
    <3> HIDE DEF cs, a, b
    <3> QED BY <2>1, TakersAre
  <2>3. Cardinality(S) <= Cardinality(T)
    BY <1>4, <2>2 DEF Before
  <2>4. a \subseteq b \/ b \subseteq a
    BY <1>1, <1>4 DEF Solvable, Laminar
  <2> HIDE DEF S, T, cs, a, b
  <2>5. CASE b \subseteq a
    <3>1. T \subseteq S
      BY <2>2, <2>5
    <3>2. T = S
      <4>1. Cardinality(T) <= Cardinality(S) /\ (Cardinality(T) = Cardinality(S) => T = S)
        BY <2>2, <3>1, FS_Subset
      <4> QED BY <2>2, <2>3, <4>1
    <3> QED BY <1>1, <2>2, <3>2
  <2> QED BY <1>1, <2>4, <2>5
<1> QED BY <1>3, <1>4 DEF Solvable
\* A step for a required seat: what beats L can be exchanged to agree with the solver on
\* this seat too.  In a laminar league whoever the rival has on it fits where the solver's
\* player was, because that seat comes later and so is no more restrictive.
LEMMA RequiredStepReaches ==
  ASSUME NEW roster, IsRoster(roster), NEW slots, AreSlots(slots), NEW extra, Solvable(slots, extra),
         NEW L, NEW k \in 1..Cardinality(Required(slots)), NEW l,
         Reaches(roster, slots, extra, L, Restrictive(roster, Startable(roster), slots), k - 1, l)
  PROVE  Reaches(roster, slots, extra, L, Restrictive(roster, Startable(roster), slots), k,
           Filled(roster, Startable(roster), slots,
                  Restrictive(roster, Startable(roster), slots)[k], l))
<1> DEFINE cs == Startable(roster)
           n == Cardinality(Required(slots))
           o == Restrictive(roster, cs, slots)
           A == Fits(roster, slots)
           f == Points(roster)
           S == o[k]
           left == Takers(roster, cs \ Players(l), Eligible(slots, S))
<1>1. /\ IsFiniteSet(Required(slots)) /\ IsFiniteSet(Optional(slots)) /\ n \in Nat
      /\ Required(slots) \subseteq Seats(slots)
      /\ Required(slots) \intersect Optional(slots) = {}
      /\ Seats(slots) \ Required(slots) = Optional(slots)
  BY SeatsAre
<1>2. Valued(f, cs) /\ IsFiniteSet(cs)
  BY RosterValued DEF Valued
<1>3. /\ \A i \in 1..n : o[i] \in Required(slots)
      /\ \A i, j \in 1..n : o[i] = o[j] => i = j
      /\ \A s \in Required(slots) : \E i \in 1..n : o[i] = s
      /\ \A i, j \in 1..n : i < j => Before(roster, cs, slots, o[i], o[j])
  <2>1. Enumerates(o, Required(slots)) /\ \A i, j \in 1..n : i < j => Before(roster, cs, slots, o[i], o[j])
    <3> HIDE DEF cs
    <3> QED BY <1>2, RestrictiveIs
  <2> HIDE DEF o
  <2> QED BY <2>1 DEF Enumerates
<1>4. PICK M : /\ Rivals(roster, slots, extra, M, L) /\ l \subseteq M
               /\ \A j \in 1..(k - 1) : \A d : <<o[j], d>> \in M => <<o[j], d>> \in l
               /\ \A s, d : <<s, d>> \in l => \E j \in 1..(k - 1) : s = o[j]
  BY DEF Reaches
<1>5. A \in SUBSET (Seats(slots) \X cs) /\ \A s, c : <<s, c>> \in A <=>
        s \in Seats(slots) /\ c \in cs /\ roster[c].pos \in Eligible(slots, s)
  BY FitsAre
<1>6. Filled(roster, cs, slots, S, l) = IF left = {} THEN l ELSE l \union {<<S, Best(roster, left)>>}
  BY DEF Filled
<1>7. Legal(A, M) /\ Cardinality(Used(M) \ Required(slots)) <= extra /\ Beats(f, cs, Players(M), Players(L))
  BY <1>4 DEF Rivals
<1>8. \A c : c \in left <=> c \in cs /\ c \notin Players(l) /\ roster[c].pos \in Eligible(slots, S)
  BY DEF Takers
<1> HIDE DEF cs, n, o, A, f, left
<1>9. /\ M \in SUBSET A /\ M \in SUBSET (Seats(slots) \X cs) /\ l \in SUBSET (Seats(slots) \X cs)
      /\ \A s, t, d, e : <<s, d>> \in M /\ <<t, e>> \in M /\ (s = t \/ d = e) => s = t /\ d = e
  BY <1>4, <1>5, <1>7 DEF Legal
<1>10. /\ \A d : d \in Players(l) <=> \E s : <<s, d>> \in l
       /\ \A d : d \in Players(M) <=> \E s : <<s, d>> \in M
       /\ \A s : s \in Used(M) <=> \E d : <<s, d>> \in M
       /\ Used(M) \subseteq Seats(slots)
  BY <1>9, MembersAre
<1>11. S \in Required(slots) /\ S \in Seats(slots) /\ \A j \in 1..(k - 1) : j \in 1..n /\ o[j] # S
  <2>1. k \in 1..n /\ \A j \in 1..(k - 1) : j \in 1..n /\ j # k
    BY <1>1 DEF n
  <2> QED BY <1>1, <1>3, <2>1
\* Whoever has the seat in M is among those left for it.
<1>12. ASSUME NEW d, <<S, d>> \in M PROVE d \in left /\ <<S, d>> \notin l
  <2>1. d \in cs /\ roster[d].pos \in Eligible(slots, S)
    BY <1>5, <1>9, <1>12
  <2>2. ASSUME NEW s, <<s, d>> \in l PROVE FALSE
    <3>1. s = S
      BY <1>4, <1>9, <1>12, <2>2
    <3> QED BY <1>4, <1>11, <2>2, <3>1
  <2> QED BY <1>8, <1>10, <2>1, <2>2
<1>13. \A j \in 1..k : j \in 1..(k - 1) \/ j = k
  OBVIOUS
<1>14. CASE left = {}
  <2>1. \A j \in 1..k : \A d : <<o[j], d>> \in M => <<o[j], d>> \in l
    BY <1>4, <1>12, <1>13, <1>14
  <2>2. \A s, d : <<s, d>> \in l => \E j \in 1..k : s = o[j]
    <3>1. \A j \in 1..(k - 1) : j \in 1..k
      OBVIOUS
    <3> QED BY <1>4, <3>1
  <2>3. Reaches(roster, slots, extra, L, o, k, l)
    BY <1>4, <2>1, <2>2 DEF Reaches
  <2> QED BY <1>6, <1>14, <2>3 DEF o, cs
<1>15. CASE left # {}
  <2> DEFINE c == Best(roster, left)
             m == l \union {<<S, c>>}
  <2>1. c \in left /\ \A d \in left : f[c] >= f[d]
    <3>1. left \in SUBSET Startable(roster)
      BY <1>8 DEF cs
    <3> QED BY <1>15, <3>1, BestIs DEF f
  <2> HIDE DEF c
  <2>2. c \in cs /\ c \notin Players(l) /\ <<S, c>> \in A
    BY <1>5, <1>8, <1>11, <2>1
  \* Where c sits in M, and who sits on S, they may change places.
  <2>3. ASSUME NEW s, NEW d, <<s, c>> \in M, <<S, d>> \in M PROVE <<s, d>> \in A
    <3>1. s \in Seats(slots) /\ <<s, c>> \in A /\ <<S, d>> \in A
      BY <1>5, <1>9, <2>3
    <3>2. CASE s = S
      BY <3>1, <3>2
    <3>3. CASE s # S
      <4>1. \A j \in 1..(k - 1) : s # o[j]
        BY <1>4, <1>10, <2>2, <2>3
      <4>2. s \in Required(slots) => Before(roster, cs, slots, S, s)
        <5>1. ASSUME s \in Required(slots) PROVE Before(roster, cs, slots, S, s)
          <6>1. PICK i \in 1..n : o[i] = s
            BY <1>3, <5>1
          <6>2. i # k /\ i \notin 1..(k - 1)
            BY <3>3, <4>1, <6>1
          <6>3. k < i /\ k \in 1..n
            BY <6>2 DEF n
          <6> QED BY <1>3, <6>1, <6>3
        <5> QED BY <5>1
      <4>3. extra = 0 => s \in Required(slots)
        <5>1. ASSUME extra = 0, s \notin Required(slots) PROVE FALSE
          <6>1. s \in Used(M) \ Required(slots)
            BY <1>10, <2>3, <5>1
          <6>2. IsFiniteSet(Used(M) \ Required(slots))
            <7>1. Used(M) \ Required(slots) \in SUBSET Optional(slots)
              BY <1>1, <1>10
            <7> QED BY <1>1, <7>1, FS_Subset
          <6>3. Cardinality(Used(M) \ Required(slots)) = 0
            <7>1. Cardinality(Used(M) \ Required(slots)) \in Nat
              BY <6>2, FS_CardinalityType
            <7> QED BY <1>7, <5>1, <7>1
          <6> QED BY <6>1, <6>2, <6>3, FS_EmptySet
        <5> QED BY <5>1
      <4> QED BY <1>11, <2>2, <3>1, <4>2, <4>3, MoreRestrictive DEF A, cs
    <3> QED BY <3>2, <3>3
  <2>4. \A d : <<S, d>> \in M => f[c] >= f[d]
    BY <1>12, <2>1
  <2>5. PICK N \in SUBSET A : /\ Legal(A, N) /\ Exchanged(S, c, M, N)
                              /\ Beats(f, cs, Players(N), Players(M))
    <3>1. MayExchange(f, A, S, c, M)
      BY <1>7, <2>2, <2>3, <2>4 DEF MayExchange
    <3>2. Valued(f, cs) /\ A \in SUBSET (Seats(slots) \X cs)
      BY <1>2, <1>5
    <3>3. Exchanges(f, cs, A, S, c, M)
      BY <3>1, <3>2, Exchange
    <3> QED BY <3>3 DEF Exchanges
  <2>6. /\ <<S, c>> \in N
        /\ \A s, d : <<s, d>> \in M /\ s # S /\ d # c => <<s, d>> \in N
        /\ \A s, d : <<s, d>> \in N => \/ <<s, d>> \in M \/ <<s, d>> = <<S, c>>
                                       \/ <<s, c>> \in M /\ <<S, d>> \in M
    BY <2>5 DEF Exchanged
  <2>7. N \in SUBSET (Seats(slots) \X cs)
    BY <1>5
  <2>8. /\ Players(N) \subseteq cs /\ Used(N) \subseteq Seats(slots)
        /\ \A s : s \in Used(N) <=> \E d : <<s, d>> \in N
    BY <2>7, MembersAre
  <2>9. m \subseteq N
    <3>1. ASSUME NEW x \in l PROVE x \in N
      <4>1. PICK s \in Seats(slots), d \in cs : x = <<s, d>>
        BY <1>9
      <4>2. s # S /\ d # c
        BY <1>4, <1>10, <1>11, <2>2, <3>1, <4>1
      <4> QED BY <1>4, <2>6, <3>1, <4>1, <4>2
    <3> QED BY <2>6, <3>1
  <2>10. ASSUME NEW j \in 1..k, NEW d, <<o[j], d>> \in N PROVE <<o[j], d>> \in m
    <3>1. CASE j = k
      <4>1. d = c
        BY <2>5, <2>6, <2>10, <3>1 DEF Legal
      <4> QED BY <3>1, <4>1
    <3>2. CASE j # k
      <4>1. j \in 1..(k - 1) /\ o[j] # S
        BY <1>11, <1>13, <3>2
      <4>2. <<o[j], c>> \notin M
        BY <1>4, <1>10, <2>2, <4>1
      <4>3. <<o[j], d>> \in M
        BY <2>6, <2>10, <4>1, <4>2
      <4> QED BY <1>4, <4>1, <4>3
    <3> QED BY <3>1, <3>2
  <2>11. ASSUME NEW s, NEW d, <<s, d>> \in m PROVE \E j \in 1..k : s = o[j]
    <3>1. <<s, d>> \in l \/ s = o[k]
      BY <2>11
    <3>2. k \in 1..k /\ \A j \in 1..(k - 1) : j \in 1..k
      OBVIOUS
    <3> QED BY <1>4, <3>1, <3>2
  <2>12. Cardinality(Used(N) \ Required(slots)) <= extra
    <3>1. Used(N) \ Required(slots) \in SUBSET (Used(M) \ Required(slots))
      <4>1. ASSUME NEW s \in Used(N), s \notin Required(slots) PROVE s \in Used(M)
        <5>1. PICK d : <<s, d>> \in N
          BY <2>8
        <5>2. <<s, d>> \in M \/ <<s, c>> \in M
          BY <1>11, <2>6, <4>1, <5>1
        <5> QED BY <1>10, <5>2
      <4> QED BY <4>1
    <3>2. IsFiniteSet(Used(M) \ Required(slots))
      <4>1. Used(M) \ Required(slots) \in SUBSET Optional(slots)
        BY <1>1, <1>10
      <4> QED BY <1>1, <4>1, FS_Subset
    <3>3. /\ Cardinality(Used(N) \ Required(slots)) <= Cardinality(Used(M) \ Required(slots))
          /\ IsFiniteSet(Used(N) \ Required(slots))
      BY <3>1, <3>2, FS_Subset
    <3>4. /\ Cardinality(Used(N) \ Required(slots)) \in Nat /\ extra \in Nat
          /\ Cardinality(Used(M) \ Required(slots)) \in Nat
      BY <3>2, <3>3, FS_CardinalityType DEF Solvable
    <3> QED BY <1>7, <3>3, <3>4
  <2>13. Beats(f, cs, Players(N), Players(L))
    <3>1. Players(M) \subseteq cs
      BY <1>9, MembersAre
    <3>2. Players(L) \subseteq cs
      BY <1>4 DEF Rivals, cs
    <3> QED BY <1>2, <1>7, <2>5, <2>8, <3>1, <3>2, BeatsTwice
  <2>14. Rivals(roster, slots, extra, N, L)
    BY <1>4, <2>5, <2>12, <2>13 DEF Rivals, A, f, cs
  <2> HIDE DEF m
  <2>15. Reaches(roster, slots, extra, L, o, k, m)
    BY <2>9, <2>10, <2>11, <2>14 DEF Reaches
  <2> QED BY <1>6, <1>15, <2>15 DEF m, o, cs, c
<1> QED BY <1>14, <1>15
\* A lineup that beats L has the required seats filled as in l.
StartsFrom(roster, slots, extra, L, l) ==
  \E M : /\ Rivals(roster, slots, extra, M, L) /\ l \subseteq M
         /\ \A s, d : <<s, d>> \in M /\ s \in Required(slots) => <<s, d>> \in l
         /\ \A s, d : <<s, d>> \in l => s \in Required(slots)

\* So the required seats cost nothing, whatever L is.
LEMMA RequiredReaches ==
  ASSUME NEW roster, IsRoster(roster), NEW slots, AreSlots(slots), NEW extra, Solvable(slots, extra),
         NEW L, Rivals(roster, slots, extra, L, L)
  PROVE  StartsFrom(roster, slots, extra, L, FillRequired(roster, Startable(roster), slots))
<1> DEFINE cs == Startable(roster)
           n == Cardinality(Required(slots))
           o == Restrictive(roster, cs, slots)
<1>1. PICK g : RequiredSteps(roster, cs, slots, g) /\ FillRequired(roster, cs, slots) = g[n]
  BY RequiredStepsAre
<1> DEFINE Good == {k \in 0..n : Reaches(roster, slots, extra, L, o, k, g[k])}
<1>2. n \in Nat
  BY SeatsAre
<1>3. 0 \in Good
  <2>1. g[0] = {}
    BY <1>1 DEF RequiredSteps
  <2>2. Reaches(roster, slots, extra, L, o, 0, {})
    BY DEF Reaches
  <2> QED BY <1>2, <2>1, <2>2
<1>4. ASSUME NEW k \in 1..n, k - 1 \in Good PROVE k \in Good
  <2>1. g[k] = Filled(roster, cs, slots, o[k], g[k - 1])
    BY <1>1 DEF RequiredSteps
  <2>2. Reaches(roster, slots, extra, L, o, k - 1, g[k - 1])
    BY <1>4
  <2> HIDE DEF Good
  <2>3. Reaches(roster, slots, extra, L, o, k, Filled(roster, cs, slots, o[k], g[k - 1]))
    BY <2>2, RequiredStepReaches
  <2>4. k \in 0..n
    BY <1>2
  <2> QED BY <2>1, <2>3, <2>4 DEF Good
<1>5. Good \in SUBSET (0..n)
  OBVIOUS
<1>6. Reaches(roster, slots, extra, L, o, n, g[n])
  <2> HIDE DEF Good, n
  <2>1. \A k \in 0..n : k \in Good
    BY <1>2, <1>3, <1>4, <1>5, AllSteps
  <2> QED BY <1>2, <2>1 DEF Good
<1>7. /\ \A i \in 1..n : o[i] \in Required(slots)
      /\ \A s \in Required(slots) : \E i \in 1..n : o[i] = s
  <2>1. IsFiniteSet(cs)
    BY RosterValued DEF Valued
  <2>2. Enumerates(o, Required(slots))
    <3> HIDE DEF cs
    <3> QED BY <2>1, RestrictiveIs
  <2> HIDE DEF o
  <2> QED BY <2>2 DEF Enumerates
<1> HIDE DEF o, n, cs, Good
<1>8. PICK M : /\ Rivals(roster, slots, extra, M, L) /\ g[n] \subseteq M
               /\ \A j \in 1..n : \A d : <<o[j], d>> \in M => <<o[j], d>> \in g[n]
               /\ \A s, d : <<s, d>> \in g[n] => \E j \in 1..n : s = o[j]
  BY <1>6 DEF Reaches
<1> DEFINE r == g[n]
<1> HIDE DEF r
<1>9. \A s, d : <<s, d>> \in M /\ s \in Required(slots) => <<s, d>> \in r
  <2>1. ASSUME NEW s \in Required(slots), NEW d, <<s, d>> \in M PROVE <<s, d>> \in r
    <3>1. PICK i \in 1..n : o[i] = s
      BY <1>7
    <3> QED BY <1>8, <2>1, <3>1 DEF r
  <2> QED BY <2>1
<1>10. \A s, d : <<s, d>> \in r => s \in Required(slots)
  BY <1>7, <1>8 DEF r
<1>11. StartsFrom(roster, slots, extra, L, r)
  BY <1>8, <1>9, <1>10 DEF StartsFrom, r
<1> QED BY <1>1, <1>11 DEF r, cs

-----------------------------------------------------------------------------
(* The optional seats.                                                     *)

\* The optional seats of l that c could have, and the first of such seats.
Open(roster, slots, l, c) ==
  {s \in Optional(slots) \ Used(l) : roster[c].pos \in Eligible(slots, s)}
FirstOf(seats) == CHOOSE s \in seats : \A t \in seats \ {s} : Listed(s, t)

\* A step of FillOptional, for the player c.
Added(roster, slots, extra, c, l) ==
  IF Cardinality(Used(l) \ Required(slots)) >= extra \/ Open(roster, slots, l, c) = {} THEN l
  ELSE l \union {<<FirstOf(Open(roster, slots, l, c)), c>>}

\* Of any seats there is a first one.
LEMMA FirstIs ==
  ASSUME NEW slots, AreSlots(slots), NEW seats \in SUBSET Seats(slots), seats # {}
  PROVE  FirstOf(seats) \in seats
<1> DEFINE D == {x \in seats \X seats : Listed(x[1], x[2])}
           Top(s) == \A t \in seats \ {s} : Listed(s, t)
<1>1. IsFiniteSet(seats)
  BY SeatsAre, FS_Subset
<1>2. \A s \in seats : s = <<s[1], s[2]>> /\ s[1] \in Nat /\ s[2] \in Nat
  <2>1. Seats(slots) \subseteq (1..Len(slots)) \X Nat
    BY SeatsAre
  <2> QED BY <2>1
<1>3. \A s, t \in seats : <<s, t>> \in D <=> Listed(s, t)
  OBVIOUS
<1> HIDE DEF D
<1>4. Ranks(D, seats)
  <2>1. \A s, t \in seats : s # t => Listed(s, t) \/ Listed(t, s)
    BY <1>2 DEF Listed
  <2>2. \A s, t, u \in seats : Listed(s, t) /\ Listed(t, u) => Listed(s, u)
    BY <1>2 DEF Listed
  <2>3. \A s \in seats : ~Listed(s, s)
    BY <1>2 DEF Listed
  <2> QED BY <1>3, <2>1, <2>2, <2>3 DEF Ranks
<1>5. PICK s \in seats : First(D, seats, s)
  BY <1>1, <1>4, OneIsFirst
<1>6. Top(s)
  BY <1>3, <1>5 DEF First
<1>7. FirstOf(seats) = CHOOSE t \in seats : Top(t)
  BY DEF FirstOf
<1> HIDE DEF Top
<1> QED BY <1>5, <1>6, <1>7

\* The candidates for the optional seats, in their order.
Rest(roster, r) == Startable(roster) \ Players(r)
InTurn(roster, r) == ByPoints(roster, Rest(roster, r))

OptionalSteps(roster, slots, extra, r, g) ==
  /\ g[0] = r
  /\ \A k \in 1..Cardinality(Rest(roster, r)) :
       g[k] = Added(roster, slots, extra, InTurn(roster, r)[k], g[k - 1])

\* Those left after the required seats, in order.
LEMMA InTurnIs ==
  ASSUME NEW roster, IsRoster(roster), NEW r
  PROVE  /\ Enumerates(InTurn(roster, r), Rest(roster, r))
         /\ \A k, l \in 1..Cardinality(Rest(roster, r)) :
              k < l => Points(roster)[InTurn(roster, r)[k]] >= Points(roster)[InTurn(roster, r)[l]]
         /\ IsFiniteSet(Rest(roster, r)) /\ Cardinality(Rest(roster, r)) \in Nat
<1> DEFINE cs == Rest(roster, r)
           o == InTurn(roster, r)
<1>1. cs \in SUBSET Startable(roster)
  BY DEF Rest
<1>2. o = ByPoints(roster, cs)
  BY DEF InTurn
<1> HIDE DEF cs, o
<1>3. /\ Enumerates(o, cs)
      /\ \A k, l \in 1..Cardinality(cs) : k < l => Points(roster)[o[k]] >= Points(roster)[o[l]]
  BY <1>1, <1>2, ByPointsIs
<1>4. IsFiniteSet(cs)
  BY <1>1, RosterValued, FS_Subset DEF Valued
<1> QED BY <1>3, <1>4, FS_CardinalityType DEF cs, o

\* The optional seats are filled in steps, one for each player left.
LEMMA OptionalStepsAre ==
  ASSUME NEW roster, IsRoster(roster), NEW slots, AreSlots(slots), NEW extra,
         NEW r \in SUBSET Fits(roster, slots)
  PROVE  \E g : /\ OptionalSteps(roster, slots, extra, r, g)
                /\ FillOptional(roster, Startable(roster), slots, extra, r) =
                     g[Cardinality(Rest(roster, r))]
<1> DEFINE cs == Rest(roster, r)
           n == Cardinality(cs)
           o == InTurn(roster, r)
           A == Fits(roster, slots)
           F == [k \in 1..n |-> [l \in SUBSET A |-> Added(roster, slots, extra, o[k], l)]]
           Body(h) == [k \in 0..n |-> IF k = 0 THEN r ELSE Added(roster, slots, extra, o[k], h[k - 1])]
           i == CHOOSE h : h = Body(h)
<1>1. n \in Nat /\ \A k \in 1..n : o[k] \in cs
  <2>1. Enumerates(o, cs) /\ n \in Nat
    BY InTurnIs
  <2> HIDE DEF o, cs
  <2> QED BY <2>1 DEF Enumerates
<1>2. FillOptional(roster, Startable(roster), slots, extra, r) = i[n]
  BY DEF FillOptional, Added, Open, FirstOf, Rest, InTurn, ByPoints
<1>3. \A c : c \in cs => c \in Startable(roster)
  BY DEF Rest
<1> HIDE DEF o, cs
<1>4. ASSUME NEW k \in 1..n, NEW l \in SUBSET A PROVE Added(roster, slots, extra, o[k], l) \in SUBSET A
  <2> DEFINE seats == Open(roster, slots, l, o[k])
             s == FirstOf(seats)
  <2>1. Optional(slots) \subseteq Seats(slots)
    BY SeatsAre
  <2>2. \A t : t \in seats => t \in Seats(slots) /\ roster[o[k]].pos \in Eligible(slots, t)
    BY <2>1 DEF Open
  <2>3. Added(roster, slots, extra, o[k], l) =
          IF Cardinality(Used(l) \ Required(slots)) >= extra \/ seats = {} THEN l
          ELSE l \union {<<s, o[k]>>}
    BY DEF Added
  <2> HIDE DEF seats
  <2>4. seats # {} => s \in seats
    BY <2>2, FirstIs
  <2> HIDE DEF s
  <2>5. seats # {} => <<s, o[k]>> \in A
    BY <1>1, <1>3, <2>2, <2>4, FitsAre
  <2> QED BY <2>3, <2>5
<1> HIDE DEF n, A
<1>5. PICK g \in [0..n -> SUBSET A] : Steps(n, r, F, g, n)
  <2>1. F \in [1..n -> [SUBSET A -> SUBSET A]] /\ r \in SUBSET A
    BY <1>4 DEF A
  <2> HIDE DEF F
  <2> QED BY <1>1, <2>1, StepsExist
<1>6. g = Body(g)
  <2>1. \A k \in 0..n : g[k] = IF k = 0 THEN r ELSE Added(roster, slots, extra, o[k], g[k - 1])
    <3>1. ASSUME NEW k \in 1..n PROVE g[k] = Added(roster, slots, extra, o[k], g[k - 1])
      <4>1. k <= n /\ k - 1 \in 0..n
        BY <1>1
      <4>2. g[k] = F[k][g[k - 1]]
        BY <1>5, <4>1 DEF Steps
      <4> QED BY <4>1, <4>2
    <3>2. g[0] = r
      BY <1>5 DEF Steps
    <3>3. \A k \in 0..n : k # 0 => k \in 1..n
      BY <1>1
    <3> QED BY <3>1, <3>2, <3>3
  <2> QED BY <2>1
<1>7. i = Body(i)
  <2> HIDE DEF Body
  <2> QED BY <1>6
<1> HIDE DEF i
<1>8. i[0] = r /\ \A k \in 1..n : i[k] = Added(roster, slots, extra, o[k], i[k - 1])
  <2>1. \A k \in 0..n : i[k] = IF k = 0 THEN r ELSE Added(roster, slots, extra, o[k], i[k - 1])
    BY <1>7
  <2>2. 0 \in 0..n /\ \A k \in 1..n : k \in 0..n /\ k # 0
    BY <1>1
  <2> QED BY <2>1, <2>2
<1>9. OptionalSteps(roster, slots, extra, r, i)
  BY <1>8 DEF OptionalSteps, o, n, cs
<1> QED BY <1>2, <1>9 DEF cs, n
\* c on the seat S instead of d on j.
Replaces(f, C, A, S, c, j, d, M) ==
  \E N \in SUBSET A :
    /\ Legal(A, N) /\ Beats(f, C, Players(N), Players(M))
    /\ SumFunctionOnSet(f, Players(M)) <= SumFunctionOnSet(f, Players(N))
    /\ \A s, e : <<s, e>> \in N <=> (<<s, e>> \in M /\ ~(s = j /\ e = d)) \/ (s = S /\ e = c)

\* A legal lineup stays legal and becomes no worse when c, who was not in it, takes the
\* place of a player who is no better, on his seat or on an empty one.
LEMMA Replace ==
  ASSUME NEW f, NEW C, Valued(f, C), NEW I, NEW A \in SUBSET (I \X C), NEW M, Legal(A, M),
         NEW S, NEW c, <<S, c>> \in A, c \notin Players(M),
         NEW j, NEW d, <<j, d>> \in M, f[c] >= f[d], S \notin Used(M) \/ S = j
  PROVE  Replaces(f, C, A, S, c, j, d, M)
<1> DEFINE N == (M \ {<<j, d>>}) \union {<<S, c>>}
<1>1. \A s, e : <<s, e>> \in N <=> (<<s, e>> \in M /\ ~(s = j /\ e = d)) \/ (s = S /\ e = c)
  OBVIOUS
<1>2. M \in SUBSET (I \X C) /\ N \in SUBSET A /\ N \in SUBSET (I \X C) /\ c \in C
  BY DEF Legal
<1> HIDE DEF N
<1>3. /\ \A e : e \in Players(M) <=> \E s : <<s, e>> \in M
      /\ \A s : s \in Used(M) <=> \E e : <<s, e>> \in M
      /\ \A e : e \in Players(N) <=> \E s : <<s, e>> \in N
      /\ Players(M) \subseteq C
  BY <1>2, MembersAre
<1>4. \A s, t, x, e : <<s, x>> \in M /\ <<t, e>> \in M /\ (s = t \/ x = e) => s = t /\ x = e
  BY DEF Legal
<1>5. Legal(A, N)
  <2>1. ASSUME NEW s, NEW t, NEW x, NEW e, <<s, x>> \in N, <<t, e>> \in N, s = t \/ x = e
        PROVE  s = t /\ x = e
    <3>1. \A y : <<y, c>> \notin M /\ (<<S, y>> \in M => S = j /\ y = d)
      BY <1>3, <1>4
    <3>2. /\ (<<s, x>> \in M /\ ~(s = j /\ x = d)) \/ (s = S /\ x = c)
          /\ (<<t, e>> \in M /\ ~(t = j /\ e = d)) \/ (t = S /\ e = c)
      BY <1>1, <2>1
    <3>3. <<s, x>> \in M /\ <<t, e>> \in M => s = t /\ x = e
      BY <1>4, <2>1
    <3>4. CASE s = S /\ x = c /\ t = S /\ e = c
      BY <3>4
    <3>5. CASE s = S /\ x = c /\ <<t, e>> \in M /\ ~(t = j /\ e = d)
      <4>1. (s = t => <<S, e>> \in M) /\ (x = e => <<t, c>> \in M)
        BY <3>5
      <4> QED BY <2>1, <3>1, <3>5, <4>1
    <3>6. CASE t = S /\ e = c /\ <<s, x>> \in M /\ ~(s = j /\ x = d)
      <4>1. (s = t => <<S, x>> \in M) /\ (x = e => <<s, c>> \in M)
        BY <3>6
      <4> QED BY <2>1, <3>1, <3>6, <4>1
    <3> QED BY <3>2, <3>3, <3>4, <3>5, <3>6
  <2> QED BY <1>2, <2>1 DEF Legal
<1>6. Players(N) = (Players(M) \ {d}) \union {c}
  <2>1. ASSUME NEW e PROVE e \in Players(N) <=> (e \in Players(M) /\ e # d) \/ e = c
    <3>1. (\E s : <<s, e>> \in N) <=> ((\E s : <<s, e>> \in M) /\ e # d) \/ e = c
      BY <1>1, <1>4
    <3> QED BY <1>3, <3>1
  <2> QED BY <2>1
<1>7. c \in C \ Players(M) /\ Players(M) \in SUBSET C /\ d \in Players(M)
  BY <1>2, <1>3
<1>8. /\ Beats(f, C, Players(N), Players(M))
      /\ SumFunctionOnSet(f, Players(M)) <= SumFunctionOnSet(f, Players(N))
  BY <1>6, <1>7, BeatsWorse
<1> QED BY <1>1, <1>2, <1>5, <1>8 DEF Replaces

\* A lineup that beats L begins as the first k steps of FillOptional have made l.
KeepsUp(roster, slots, extra, L, r, k, l, M) ==
  /\ Rivals(roster, slots, extra, M, L) /\ r \subseteq l /\ l \subseteq M
  /\ \A s, d : <<s, d>> \in M /\ s \in Required(slots) => <<s, d>> \in r
  /\ \A j \in 1..k : InTurn(roster, r)[j] \in Players(M) => InTurn(roster, r)[j] \in Players(l)
  /\ \A d \in Players(l) : d \in Players(r) \/ \E j \in 1..k : d = InTurn(roster, r)[j]
Follows(roster, slots, extra, L, r, k, l) ==
  \E M : KeepsUp(roster, slots, extra, L, r, k, l, M)

\* What the seat of the next player may cost the rival.
LEMMA NextIsBest ==
  ASSUME NEW roster, IsRoster(roster), NEW slots, NEW extra, NEW L, NEW r,
         NEW k \in 1..Cardinality(Rest(roster, r)), NEW l, NEW M,
         KeepsUp(roster, slots, extra, L, r, k - 1, l, M)
  PROVE  LET c == InTurn(roster, r)[k]
         IN /\ c \in Startable(roster) /\ c \notin Players(r) /\ c \notin Players(l)
            /\ \A s, d : <<s, d>> \in M /\ s \notin Used(l) /\ s \notin Required(slots)
                           => Points(roster)[c] >= Points(roster)[d]
<1> DEFINE cs == Rest(roster, r)
           n == Cardinality(cs)
           o == InTurn(roster, r)
           c == o[k]
<1>1. /\ \A i \in 1..n : o[i] \in cs
      /\ \A i, j \in 1..n : o[i] = o[j] => i = j
      /\ \A d \in cs : \E i \in 1..n : o[i] = d
      /\ \A i, j \in 1..n : i < j => Points(roster)[o[i]] >= Points(roster)[o[j]]
      /\ n \in Nat
  <2>1. /\ Enumerates(o, cs) /\ n \in Nat
        /\ \A i, j \in 1..n : i < j => Points(roster)[o[i]] >= Points(roster)[o[j]]
    BY InTurnIs
  <2> HIDE DEF o, cs
  <2> QED BY <2>1 DEF Enumerates
<1>2. \A d : d \in cs <=> d \in Startable(roster) /\ d \notin Players(r)
  BY DEF Rest
<1>3. /\ Legal(Fits(roster, slots), M) /\ r \subseteq l /\ l \subseteq M
      /\ \A s, d : <<s, d>> \in M /\ s \in Required(slots) => <<s, d>> \in r
      /\ \A j \in 1..(k - 1) : o[j] \in Players(M) => o[j] \in Players(l)
      /\ \A d \in Players(l) : d \in Players(r) \/ \E j \in 1..(k - 1) : d = o[j]
  BY DEF KeepsUp, Rivals
<1> HIDE DEF o, cs
<1>4. k \in 1..n /\ n \in Nat
  BY <1>1 DEF cs
<1> HIDE DEF n
<1>5. \A j \in 1..(k - 1) : j \in 1..n /\ j # k
  BY <1>4
<1>6. c \in Startable(roster) /\ c \notin Players(r)
  BY <1>1, <1>2, <1>4
<1>7. c \notin Players(l)
  BY <1>1, <1>3, <1>4, <1>5, <1>6
<1>8. M \in SUBSET (Seats(slots) \X Startable(roster)) /\ l \in SUBSET (Seats(slots) \X Startable(roster))
      /\ r \in SUBSET (Seats(slots) \X Startable(roster))
  BY <1>3, FitsAre DEF Legal
<1>9. /\ \A d : d \in Players(M) <=> \E s : <<s, d>> \in M
      /\ \A d : d \in Players(l) <=> \E s : <<s, d>> \in l
      /\ \A s : s \in Used(l) <=> \E d : <<s, d>> \in l
      /\ \A d : d \in Players(r) <=> \E s : <<s, d>> \in r
  BY <1>8, MembersAre
<1>10. ASSUME NEW s, NEW d, <<s, d>> \in M, s \notin Used(l), s \notin Required(slots)
       PROVE  Points(roster)[c] >= Points(roster)[d]
  <2>1. \A t : <<t, d>> \notin l
    <3>1. ASSUME NEW t, <<t, d>> \in l PROVE FALSE
      <4>1. s = t
        BY <1>3, <1>10, <3>1 DEF Legal
      <4> QED BY <1>9, <1>10, <3>1, <4>1
    <3> QED BY <3>1
  <2>2. d \in Startable(roster) /\ d \notin Players(r)
    BY <1>3, <1>8, <1>9, <1>10, <2>1
  <2>3. PICK i \in 1..n : o[i] = d
    BY <1>1, <1>2, <2>2
  <2>4. ~(i \in 1..(k - 1))
    BY <1>3, <1>9, <1>10, <2>1, <2>3
  <2>5. CASE i = k
    <3>1. Points(roster)[d] \in Int
      BY <2>2, RosterValued
    <3> QED BY <2>3, <2>5, <3>1
  <2>6. CASE i # k
    <3>1. k < i
      BY <1>4, <2>4, <2>6
    <3> QED BY <1>1, <1>4, <2>3, <3>1
  <2> QED BY <2>5, <2>6
<1> QED BY <1>6, <1>7, <1>10 DEF o
\* A step for the next best player: if the solver seats him the rival can seat him too, for
\* somebody it has chosen later than the solver would; if not, the rival cannot have him.
LEMMA OptionalStepFollows ==
  ASSUME NEW roster, IsRoster(roster), NEW slots, AreSlots(slots), NEW extra, Solvable(slots, extra),
         NEW L, NEW r, NEW k \in 1..Cardinality(Rest(roster, r)), NEW l,
         Follows(roster, slots, extra, L, r, k - 1, l)
  PROVE  Follows(roster, slots, extra, L, r, k,
           Added(roster, slots, extra, InTurn(roster, r)[k], l))
<1> DEFINE cs == Startable(roster)
           A == Fits(roster, slots)
           f == Points(roster)
           o == InTurn(roster, r)
           c == o[k]
           seats == Open(roster, slots, l, c)
           S == FirstOf(seats)
           req == Required(slots)
           m == l \union {<<S, c>>}
<1>1. PICK M : KeepsUp(roster, slots, extra, L, r, k - 1, l, M)
  BY DEF Follows
<1>2. /\ Rivals(roster, slots, extra, M, L) /\ r \subseteq l /\ l \subseteq M
      /\ \A s, d : <<s, d>> \in M /\ s \in req => <<s, d>> \in r
      /\ \A j \in 1..(k - 1) : o[j] \in Players(M) => o[j] \in Players(l)
      /\ \A d \in Players(l) : d \in Players(r) \/ \E j \in 1..(k - 1) : d = o[j]
  BY <1>1 DEF KeepsUp
<1>3. /\ c \in cs /\ c \notin Players(r) /\ c \notin Players(l)
      /\ \A s, d : <<s, d>> \in M /\ s \notin Used(l) /\ s \notin req => f[c] >= f[d]
  BY <1>1, NextIsBest
<1>4. /\ Legal(A, M) /\ Cardinality(Used(M) \ req) <= extra /\ extra \in Nat
      /\ Players(L) \subseteq cs /\ Beats(f, cs, Players(M), Players(L))
  BY <1>2 DEF Rivals, Solvable
<1>5. /\ IsFiniteSet(Optional(slots)) /\ Optional(slots) \subseteq Seats(slots)
      /\ req \intersect Optional(slots) = {} /\ Seats(slots) \ req = Optional(slots)
  BY SeatsAre
<1>6. A \in SUBSET (Seats(slots) \X cs) /\ Valued(f, cs)
  BY FitsAre, RosterValued
<1>7. \A s, d : <<s, d>> \in A <=> s \in Seats(slots) /\ d \in cs /\ roster[d].pos \in Eligible(slots, s)
  BY FitsAre
<1>8. \A s : s \in seats <=> s \in Optional(slots) /\ s \notin Used(l) /\ roster[c].pos \in Eligible(slots, s)
  BY DEF Open
<1>9. Added(roster, slots, extra, c, l) =
        IF Cardinality(Used(l) \ req) >= extra \/ seats = {} THEN l ELSE m
  BY DEF Added
<1>10. \A j \in 1..k : j \in 1..(k - 1) \/ j = k
  OBVIOUS
<1>11. \A j \in 1..(k - 1) : j \in 1..k
  OBVIOUS
<1>12. k \in 1..k
  OBVIOUS
<1> HIDE DEF cs, A, f, seats, req
<1>13. /\ M \in SUBSET A /\ M \in SUBSET (Seats(slots) \X cs) /\ l \in SUBSET (Seats(slots) \X cs)
       /\ r \in SUBSET (Seats(slots) \X cs)
       /\ \A s, t, d, e : <<s, d>> \in M /\ <<t, e>> \in M /\ (s = t \/ d = e) => s = t /\ d = e
  BY <1>2, <1>4, <1>6 DEF Legal
<1>14. /\ \A d : d \in Players(M) <=> \E s : <<s, d>> \in M
       /\ \A s : s \in Used(M) <=> \E d : <<s, d>> \in M
       /\ \A d : d \in Players(l) <=> \E s : <<s, d>> \in l
       /\ \A s : s \in Used(l) <=> \E d : <<s, d>> \in l
       /\ \A d : d \in Players(r) <=> \E s : <<s, d>> \in r
       /\ Used(M) \subseteq Seats(slots) /\ Players(M) \subseteq cs
  BY <1>13, MembersAre
\* A seat that c has in M is optional, and empty in l.
<1>15. ASSUME NEW s, <<s, c>> \in M PROVE s \in Used(M) \ req /\ s \in Optional(slots) /\ s \notin Used(l)
  <2>1. s \notin req
    BY <1>2, <1>3, <1>14, <1>15
  <2>2. ASSUME NEW d, <<s, d>> \in l PROVE FALSE
    <3>1. d = c
      BY <1>2, <1>13, <1>15, <2>2
    <3> QED BY <1>3, <1>14, <2>2, <3>1
  <2> QED BY <1>5, <1>14, <1>15, <2>1, <2>2
<1>16. /\ IsFiniteSet(Used(M) \ req) /\ IsFiniteSet(Used(l) \ req) /\ Used(l) \ req \in SUBSET (Used(M) \ req)
       /\ Cardinality(Used(M) \ req) \in Nat /\ Cardinality(Used(l) \ req) \in Nat
       /\ Cardinality(Used(l) \ req) = Cardinality(Used(M) \ req) => Used(l) \ req = Used(M) \ req
       /\ Cardinality(Used(l) \ req) <= Cardinality(Used(M) \ req)
  <2>1. Used(M) \ req \in SUBSET Optional(slots)
    BY <1>5, <1>14
  <2>2. IsFiniteSet(Used(M) \ req)
    BY <1>5, <2>1, FS_Subset
  <2>3. Used(l) \ req \in SUBSET (Used(M) \ req)
    BY <1>2, <1>14
  <2> QED BY <2>2, <2>3, FS_Subset, FS_CardinalityType
<1>17. CASE Cardinality(Used(l) \ req) >= extra \/ seats = {}
  <2>1. c \notin Players(M)
    <3>1. ASSUME NEW s, <<s, c>> \in M PROVE FALSE
      <4>1. s \in Used(M) \ req /\ s \in Optional(slots) /\ s \notin Used(l)
        BY <1>15, <3>1
      <4>2. CASE seats = {}
        <5>1. roster[c].pos \in Eligible(slots, s)
          BY <1>7, <1>13, <3>1
        <5> QED BY <1>8, <4>1, <4>2, <5>1
      <4>3. CASE Cardinality(Used(l) \ req) >= extra
        <5>1. Used(l) \ req = Used(M) \ req
          BY <1>4, <1>16, <4>3
        <5> QED BY <4>1, <5>1
      <4> QED BY <1>17, <4>2, <4>3
    <3> QED BY <1>14, <3>1
  <2>2. KeepsUp(roster, slots, extra, L, r, k, l, M)
    <3>1. \A j \in 1..k : o[j] \in Players(M) => o[j] \in Players(l)
      BY <1>2, <1>10, <2>1
    <3>2. \A d \in Players(l) : d \in Players(r) \/ \E j \in 1..k : d = o[j]
      BY <1>2, <1>11
    <3> QED BY <1>2, <3>1, <3>2 DEF KeepsUp, req
  <2> QED BY <1>9, <1>17, <2>2 DEF Follows
<1>18. CASE ~(Cardinality(Used(l) \ req) >= extra \/ seats = {})
  <2>1. S \in seats /\ extra > 0 /\ Cardinality(Used(l) \ req) < extra
    <3>1. seats \in SUBSET Seats(slots)
      BY <1>5, <1>8
    <3>2. seats # {} => FirstOf(seats) \in seats
      BY <3>1, FirstIs
    <3> QED BY <1>4, <1>16, <1>18, <3>2
  <2> HIDE DEF S
  <2>2. /\ S \in Optional(slots) /\ S \notin Used(l) /\ S \notin req /\ <<S, c>> \in A
    BY <1>3, <1>5, <1>7, <1>8, <2>1
  <2>3. \A d : <<S, d>> \in M => f[c] >= f[d]
    BY <1>3, <2>2
  \* It suffices that some rival N has S for c, and else what M has.
  <2> DEFINE Serves(N) ==
               /\ Legal(A, N) /\ Beats(f, cs, Players(N), Players(M))
               /\ <<S, c>> \in N /\ Cardinality(Used(N) \ req) <= extra
               /\ \A s, d : <<s, d>> \in l => <<s, d>> \in N
               /\ \A s, d : <<s, d>> \in N => \/ <<s, d>> \in M \/ (s = S /\ d = c)
                                              \/ <<s, c>> \in M /\ <<S, d>> \in M
  <2>4. ASSUME NEW N \in SUBSET A, Serves(N) PROVE Follows(roster, slots, extra, L, r, k, m)
    <3>1. N \in SUBSET (Seats(slots) \X cs) /\ m \in SUBSET (Seats(slots) \X cs)
      BY <1>3, <1>5, <1>6, <1>13, <2>2
    <3>2. /\ \A d : d \in Players(N) <=> \E s : <<s, d>> \in N
          /\ \A d : d \in Players(m) <=> \E s : <<s, d>> \in m
          /\ Players(N) \subseteq cs
      <4> HIDE DEF m
      <4> QED BY <3>1, MembersAre
    <3>3. Beats(f, cs, Players(N), Players(L))
      BY <1>4, <1>6, <1>14, <2>4, <3>2, BeatsTwice
    <3>4. Rivals(roster, slots, extra, N, L)
      BY <1>4, <2>4, <3>3 DEF Rivals, A, f, cs, req
    <3>5. \A s, d : <<s, d>> \in m <=> <<s, d>> \in l \/ (s = S /\ d = c)
      OBVIOUS
    <3>6. r \subseteq m
      BY <1>2
    <3>7. m \subseteq N
      <4>1. ASSUME NEW x \in l PROVE x \in N
        <5>1. x = <<x[1], x[2]>>
          BY <1>13
        <5>2. <<x[1], x[2]>> \in N
          BY <2>4, <4>1, <5>1
        <5> QED BY <5>1, <5>2
      <4> QED BY <2>4, <4>1
    <3> HIDE DEF m, c
    <3>8. ASSUME NEW s, NEW d, <<s, d>> \in N, s \in req PROVE <<s, d>> \in r
      <4>1. <<s, c>> \notin M /\ s # S
        BY <1>15, <2>2, <3>8
      <4> QED BY <1>2, <2>4, <3>8, <4>1
    <3>9. \A d : d \in Players(N) => d \in Players(M) \/ d = c
      <4>1. ASSUME NEW d, d \in Players(N) PROVE d \in Players(M) \/ d = c
        <5>1. PICK s : <<s, d>> \in N
          BY <3>2, <4>1
        <5>2. <<s, d>> \in M \/ d = c \/ <<S, d>> \in M
          BY <2>4, <5>1
        <5> QED BY <1>14, <5>2
      <4> QED BY <4>1
    <3>10. c \in Players(m) /\ \A d \in Players(l) : d \in Players(m)
      BY <1>14, <3>2, <3>5
    <3>11. ASSUME NEW j \in 1..k, o[j] \in Players(N) PROVE o[j] \in Players(m)
      <4>1. CASE j = k
        BY <3>10, <4>1 DEF c
      <4>2. CASE j # k
        BY <1>2, <1>10, <3>9, <3>10, <3>11, <4>2
      <4> QED BY <4>1, <4>2
    <3>12. ASSUME NEW d \in Players(m) PROVE d \in Players(r) \/ \E j \in 1..k : d = o[j]
      <4>1. d \in Players(l) \/ d = c
        BY <1>14, <3>2, <3>5
      <4> QED BY <1>2, <1>11, <1>12, <4>1 DEF c
    <3>13. KeepsUp(roster, slots, extra, L, r, k, m, N)
      BY <3>4, <3>6, <3>7, <3>8, <3>11, <3>12 DEF KeepsUp, req
    <3> QED BY <3>13 DEF Follows
  <2>5. ASSUME S \notin Used(M), c \notin Players(M), ~(Cardinality(Used(M) \ req) < extra)
        PROVE  \E N \in SUBSET A : Serves(N)
    <3>1. PICK j : j \in Used(M) \ req /\ j \notin Used(l)
      <4>1. Used(l) \ req # Used(M) \ req
        BY <1>4, <1>16, <2>1, <2>5
      <4> QED BY <1>16, <4>1
    <3>2. PICK d : <<j, d>> \in M
      BY <1>14, <3>1
    <3>3. f[c] >= f[d]
      BY <1>3, <3>1, <3>2
    <3> HIDE DEF c
    <3>4. Replaces(f, cs, A, S, c, j, d, M)
      BY <1>4, <1>6, <2>2, <2>5, <3>2, <3>3, Replace
    <3>5. PICK N \in SUBSET A :
            /\ Legal(A, N) /\ Beats(f, cs, Players(N), Players(M))
            /\ \A s, e : <<s, e>> \in N <=> (<<s, e>> \in M /\ ~(s = j /\ e = d)) \/ (s = S /\ e = c)
      BY <3>4 DEF Replaces
    <3>6. \A s, e : <<s, e>> \in l => <<s, e>> \in N
      BY <1>2, <1>14, <3>1, <3>5
    <3>7. Cardinality(Used(N) \ req) <= extra
      <4> DEFINE U == (Used(M) \ req) \ {j}
      <4>1. N \in SUBSET (Seats(slots) \X cs)
        BY <1>6
      <4>2. \A s : s \in Used(N) <=> \E e : <<s, e>> \in N
        BY <4>1, MembersAre
      <4>3. Used(N) \ req \in SUBSET (U \union {S})
        <5>1. ASSUME NEW s \in Used(N), s \notin req, s # S PROVE s \in U
          <6>1. PICK e : <<s, e>> \in N
            BY <4>2
          <6>2. <<s, e>> \in M /\ ~(s = j /\ e = d)
            BY <3>5, <5>1, <6>1
          <6>3. s # j
            BY <1>13, <3>2, <6>2
          <6> QED BY <1>14, <5>1, <6>2, <6>3
        <5> QED BY <5>1
      <4>4. /\ IsFiniteSet(U) /\ Cardinality(U) \in Nat
            /\ Cardinality(Used(M) \ req) = Cardinality(U) + 1
        BY <1>16, <3>1, Without
      <4> HIDE DEF U
      <4>5. IsFiniteSet(U \union {S}) /\ Cardinality(U \union {S}) <= Cardinality(U) + 1
        BY <4>4, FS_AddElement
      <4>6. Cardinality(Used(N) \ req) <= Cardinality(U \union {S}) /\ IsFiniteSet(Used(N) \ req)
        BY <4>3, <4>5, FS_Subset
      <4>7. Cardinality(Used(N) \ req) \in Nat /\ Cardinality(U \union {S}) \in Nat
        BY <4>5, <4>6, FS_CardinalityType
      <4> QED BY <1>4, <1>16, <4>4, <4>5, <4>6, <4>7
    <3>8. <<S, c>> \in N /\ \A s, e : <<s, e>> \in N => <<s, e>> \in M \/ (s = S /\ e = c)
      BY <3>5
    <3>9. Serves(N)
      BY <3>5, <3>6, <3>7, <3>8
    <3> HIDE DEF Serves
    <3> QED BY <3>9
  <2>6. ASSUME S \in Used(M) \/ c \in Players(M) \/ Cardinality(Used(M) \ req) < extra
        PROVE  \E N \in SUBSET A : Serves(N)
    <3>1. ASSUME NEW s, NEW d, <<s, c>> \in M, <<S, d>> \in M PROVE <<s, d>> \in A
      <4>1. s \in Seats(slots) /\ S \in Seats(slots) /\ d \in cs /\ roster[d].pos \in Eligible(slots, S)
            /\ roster[c].pos \in Eligible(slots, s) /\ roster[c].pos \in Eligible(slots, S)
        BY <1>7, <1>13, <2>2, <3>1
      <4>2. Eligible(slots, s) = Eligible(slots, S)
        BY <2>1, <4>1, SamePositions
      <4> QED BY <1>7, <4>1, <4>2
    <3> HIDE DEF c
    <3>2. MayExchange(f, A, S, c, M)
      BY <1>4, <2>2, <2>3, <3>1 DEF MayExchange
    <3>3. Exchanges(f, cs, A, S, c, M)
      BY <1>6, <3>2, Exchange
    <3>4. PICK N \in SUBSET A : /\ Legal(A, N) /\ Exchanged(S, c, M, N)
                                /\ Beats(f, cs, Players(N), Players(M))
      BY <3>3 DEF Exchanges
    <3>5. /\ <<S, c>> \in N
          /\ \A s, d : <<s, d>> \in M /\ s # S /\ d # c => <<s, d>> \in N
          /\ \A s, d : <<s, d>> \in N => \/ <<s, d>> \in M \/ <<s, d>> = <<S, c>>
                                         \/ <<s, c>> \in M /\ <<S, d>> \in M
          /\ \A s : <<s, c>> \in M /\ S \notin Used(M) => s \notin Used(N)
      BY <3>4 DEF Exchanged
    <3>6. \A s, d : <<s, d>> \in l => <<s, d>> \in N
      <4>1. ASSUME NEW s, NEW d, <<s, d>> \in l PROVE <<s, d>> \in N
        <5>1. s # S /\ d # c
          BY <1>3, <1>14, <2>2, <4>1 DEF c
        <5> QED BY <1>2, <3>5, <4>1, <5>1
      <4> QED BY <4>1
    <3>7. Cardinality(Used(N) \ req) <= extra
      <4>1. N \in SUBSET (Seats(slots) \X cs)
        BY <1>6
      <4>2. \A s : s \in Used(N) <=> \E e : <<s, e>> \in N
        BY <4>1, MembersAre
      <4>3. ASSUME NEW s \in Used(N) PROVE s \in Used(M) \/ s = S
        <5>1. PICK e : <<s, e>> \in N
          BY <4>2
        <5>2. <<s, e>> \in M \/ s = S \/ <<s, c>> \in M
          BY <3>5, <5>1
        <5> QED BY <1>14, <5>2
      <4>4. CASE S \in Used(M)
        <5>1. Used(N) \ req \in SUBSET (Used(M) \ req)
          BY <4>3, <4>4
        <5>2. Cardinality(Used(N) \ req) <= Cardinality(Used(M) \ req) /\ IsFiniteSet(Used(N) \ req)
          BY <1>16, <5>1, FS_Subset
        <5>3. Cardinality(Used(N) \ req) \in Nat
          BY <5>2, FS_CardinalityType
        <5> QED BY <1>4, <1>16, <5>2, <5>3
      <4>5. CASE S \notin Used(M)
        <5>1. PICK U : /\ U \in SUBSET (Used(M) \ req) /\ Used(N) \ req \in SUBSET (U \union {S})
                       /\ IsFiniteSet(U) /\ Cardinality(U) \in Nat /\ Cardinality(U) + 1 <= extra
          <6>1. CASE c \in Players(M)
            <7>1. PICK s : <<s, c>> \in M
              BY <1>14, <6>1
            <7>2. s \in Used(M) \ req /\ s \notin Used(N)
              BY <1>15, <3>5, <4>5, <7>1 DEF c
            <7> DEFINE U == (Used(M) \ req) \ {s}
            <7>3. Used(N) \ req \in SUBSET (U \union {S})
              BY <4>3, <7>2
            <7>4. /\ IsFiniteSet(U) /\ Cardinality(U) \in Nat
                  /\ Cardinality(Used(M) \ req) = Cardinality(U) + 1
              BY <1>16, <7>2, Without
            <7>5. U \in SUBSET (Used(M) \ req)
              OBVIOUS
            <7> HIDE DEF U
            <7>6. Cardinality(U) + 1 <= extra
              BY <1>4, <7>4
            <7> QED BY <7>3, <7>4, <7>5, <7>6
          <6>2. CASE c \notin Players(M)
            <7> DEFINE U == Used(M) \ req
            <7>1. Used(N) \ req \in SUBSET (U \union {S})
              BY <4>3
            <7>2. IsFiniteSet(U) /\ Cardinality(U) \in Nat /\ Cardinality(U) < extra
              BY <1>16, <2>6, <4>5, <6>2
            <7> HIDE DEF U
            <7>3. Cardinality(U) + 1 <= extra
              BY <1>4, <7>2
            <7> QED BY <7>1, <7>2, <7>3 DEF U
          <6> QED BY <6>1, <6>2
        <5>2. IsFiniteSet(U \union {S}) /\ Cardinality(U \union {S}) <= Cardinality(U) + 1
          <6>1. IsFiniteSet(U) /\ Cardinality(U) \in Nat
            BY <5>1
          <6> QED BY <6>1, FS_AddElement
        <5>3. Cardinality(Used(N) \ req) <= Cardinality(U \union {S}) /\ IsFiniteSet(Used(N) \ req)
          BY <5>1, <5>2, FS_Subset
        <5>4. Cardinality(Used(N) \ req) \in Nat /\ Cardinality(U \union {S}) \in Nat
          BY <5>2, <5>3, FS_CardinalityType
        <5> QED BY <1>4, <5>1, <5>2, <5>3, <5>4
      <4> QED BY <4>4, <4>5
    <3>8. \A s, d : <<s, d>> \in N => \/ <<s, d>> \in M \/ (s = S /\ d = c)
                                      \/ <<s, c>> \in M /\ <<S, d>> \in M
      BY <3>5
    <3>9. Serves(N)
      BY <3>4, <3>5, <3>6, <3>7, <3>8
    <3> HIDE DEF Serves
    <3> QED BY <3>9
  <2>7. Follows(roster, slots, extra, L, r, k, m)
    <3> HIDE DEF Serves, m
    <3> QED BY <2>4, <2>5, <2>6
  <2> QED BY <1>9, <1>18, <2>7
<1> QED BY <1>17, <1>18
\* So the optional seats cost nothing.
LEMMA OptionalFollows ==
  ASSUME NEW roster, IsRoster(roster), NEW slots, AreSlots(slots), NEW extra, Solvable(slots, extra),
         NEW L, NEW r, StartsFrom(roster, slots, extra, L, r)
  PROVE  Rivals(roster, slots, extra, FillOptional(roster, Startable(roster), slots, extra, r), L)
<1> DEFINE cs == Rest(roster, r)
           n == Cardinality(cs)
           o == InTurn(roster, r)
<1>1. PICK M : /\ Rivals(roster, slots, extra, M, L) /\ r \subseteq M
               /\ \A s, d : <<s, d>> \in M /\ s \in Required(slots) => <<s, d>> \in r
  BY DEF StartsFrom
<1>2. r \in SUBSET Fits(roster, slots)
  BY <1>1 DEF Rivals, Legal
<1>3. PICK g : /\ OptionalSteps(roster, slots, extra, r, g)
               /\ FillOptional(roster, Startable(roster), slots, extra, r) = g[n]
  BY <1>2, OptionalStepsAre
<1> DEFINE Good == {k \in 0..n : Follows(roster, slots, extra, L, r, k, g[k])}
<1>4. n \in Nat /\ Enumerates(o, cs)
  BY InTurnIs
<1>5. 0 \in Good
  <2>1. g[0] = r
    BY <1>3 DEF OptionalSteps
  <2>2. KeepsUp(roster, slots, extra, L, r, 0, r, M)
    BY <1>1 DEF KeepsUp
  <2>3. Follows(roster, slots, extra, L, r, 0, r)
    BY <2>2 DEF Follows
  <2> QED BY <1>4, <2>1, <2>3
<1>6. ASSUME NEW k \in 1..n, k - 1 \in Good PROVE k \in Good
  <2>1. g[k] = Added(roster, slots, extra, o[k], g[k - 1])
    BY <1>3 DEF OptionalSteps
  <2>2. Follows(roster, slots, extra, L, r, k - 1, g[k - 1])
    BY <1>6
  <2> HIDE DEF Good
  <2>3. Follows(roster, slots, extra, L, r, k, Added(roster, slots, extra, o[k], g[k - 1]))
    BY <2>2, OptionalStepFollows
  <2>4. k \in 0..n
    BY <1>4
  <2> QED BY <2>1, <2>3, <2>4 DEF Good
<1>7. Follows(roster, slots, extra, L, r, n, g[n])
  <2>1. Good \in SUBSET (0..n)
    OBVIOUS
  <2> HIDE DEF Good, n
  <2>2. \A k \in 0..n : k \in Good
    BY <1>4, <1>5, <1>6, <2>1, AllSteps
  <2> QED BY <1>4, <2>2 DEF Good
<1> DEFINE l == g[n]
<1>8. PICK N : KeepsUp(roster, slots, extra, L, r, n, l, N)
  BY <1>7 DEF Follows
<1>9. /\ Rivals(roster, slots, extra, N, L) /\ Legal(Fits(roster, slots), N) /\ r \subseteq l /\ l \subseteq N
      /\ \A j \in 1..n : o[j] \in Players(N) => o[j] \in Players(l)
  BY <1>8 DEF KeepsUp, Rivals
<1>10. \A d : d \in Startable(roster) /\ d \notin Players(r) => \E j \in 1..n : d = o[j]
  <2>1. \A d : d \in Startable(roster) /\ d \notin Players(r) => d \in cs
    BY DEF Rest
  <2> HIDE DEF o, cs
  <2> QED BY <1>4, <2>1 DEF Enumerates
<1> HIDE DEF l, o, n, cs, Good
<1>11. /\ N \in SUBSET (Seats(slots) \X Startable(roster))
       /\ l \in SUBSET (Seats(slots) \X Startable(roster))
       /\ r \in SUBSET (Seats(slots) \X Startable(roster))
  BY <1>9, FitsAre DEF Legal
<1>12. /\ \A d : d \in Players(N) <=> \E s : <<s, d>> \in N
       /\ \A d : d \in Players(l) <=> \E s : <<s, d>> \in l
       /\ \A d : d \in Players(r) <=> \E s : <<s, d>> \in r
  BY <1>11, MembersAre
\* Nobody is left for the rival to use.
<1>13. ASSUME NEW x \in N PROVE x \in l
  <2>1. PICK s \in Seats(slots), d \in Startable(roster) : x = <<s, d>>
    BY <1>11
  <2>2. d \in Players(l)
    <3>1. CASE d \in Players(r)
      BY <1>9, <1>12, <3>1
    <3>2. CASE d \notin Players(r)
      BY <1>9, <1>10, <1>12, <2>1, <3>2
    <3> QED BY <3>1, <3>2
  <2>3. PICK t : <<t, d>> \in l
    BY <1>12, <2>2
  <2>4. t = s
    BY <1>9, <2>1, <2>3 DEF Legal
  <2> QED BY <2>1, <2>3, <2>4
<1>14. N = l
  BY <1>9, <1>13
<1> QED BY <1>3, <1>9, <1>14 DEF l

\* The number of optional seats to fill is a natural number.
LEMMA ExtraIs ==
  ASSUME NEW slots, AreSlots(slots), NEW starters \in Int
  PROVE  Extra(slots, starters) \in Nat
<1> DEFINE required == Cardinality(Required(slots))
           optional == Cardinality(Optional(slots))
           S == {starters - required, optional}
<1>1. required \in Nat /\ optional \in Nat
  BY SeatsAre
<1>2. Extra(slots, starters) = IF starters = Unknown \/ starters < required THEN 0 ELSE Min(S)
  BY DEF Extra
<1> HIDE DEF required, optional
<1>3. ASSUME ~(starters < required) PROVE Min(S) \in Nat
  <2>1. S \subseteq Nat
    BY <1>1, <1>3
  <2>2. \E x \in S : \A y \in S : x <= y
    <3>1. starters - required \in Nat
      BY <1>1, <1>3
    <3> QED BY <1>1, <3>1
  <2> HIDE DEF S
  <2>3. Min(S) \in S
    BY <2>2 DEF Min
  <2> QED BY <2>1, <2>3
<1> QED BY <1>2, <1>3

\* The total of l is as high as m's, if that is to be so at all or m is no shorter.
AsGoodAs(roster, l, m, exact) ==
  exact \/ Cardinality(Players(m)) >= Cardinality(Players(l)) => Total(roster, m) <= Total(roster, l)
NoneBelow(roster) == \A c \in DOMAIN roster : roster[c].points >= 0

\* What the greedy solver does not refuse is a legal lineup that no other one exceeds: of
\* all of them where nobody is below zero, otherwise of those with no fewer players.
LEMMA GreedyIsBest ==
  ASSUME NEW roster, IsRoster(roster), NEW slots, AreSlots(slots), NEW extra \in Nat,
         Greedy(roster, slots, extra) # Refused
  PROVE  /\ Greedy(roster, slots, extra) \in Lineups(roster, slots, extra)
         /\ \A m \in Lineups(roster, slots, extra) :
              AsGoodAs(roster, Greedy(roster, slots, extra), m, NoneBelow(roster))
<1> DEFINE cs == Startable(roster)
           r == FillRequired(roster, cs, slots)
           l == FillOptional(roster, cs, slots, extra, r)
           f == Points(roster)
<1>1. Solvable(slots, extra) /\ Greedy(roster, slots, extra) = l
  BY DEF Greedy, Solvable
<1>2. Valued(f, cs)
  BY RosterValued
<1> HIDE DEF r
<1>3. ASSUME NEW m \in Lineups(roster, slots, extra) PROVE Rivals(roster, slots, extra, l, m)
  <2>1. Legal(Fits(roster, slots), m) /\ Cardinality(Used(m) \ Required(slots)) <= extra
    BY LineupsAre
  <2>2. m \in SUBSET (Seats(slots) \X cs)
    BY <2>1, FitsAre DEF Legal
  <2>3. Players(m) \subseteq cs
    BY <2>2, MembersAre
  <2> HIDE DEF cs, f, l
  <2>4. Beats(f, cs, Players(m), Players(m))
    BY <1>2, <2>3, BeatsItself
  <2>5. Rivals(roster, slots, extra, m, m)
    BY <2>1, <2>3, <2>4 DEF Rivals, f, cs
  <2>6. StartsFrom(roster, slots, extra, m, r)
    BY <1>1, <2>5, RequiredReaches DEF r, cs
  <2> QED BY <1>1, <2>6, OptionalFollows DEF l, cs
<1>4. {} \in Lineups(roster, slots, extra)
  <2>1. Legal(Fits(roster, slots), {}) /\ Used({}) = {}
    BY DEF Legal, Used
  <2>2. Cardinality(Used({}) \ Required(slots)) = 0
    <3>1. Used({}) \ Required(slots) = {}
      BY <2>1
    <3> QED BY <3>1, FS_EmptySet
  <2> QED BY <2>1, <2>2, LineupsAre
<1> HIDE DEF l
<1>5. Legal(Fits(roster, slots), l) /\ Cardinality(Used(l) \ Required(slots)) <= extra
  BY <1>3, <1>4 DEF Rivals
<1>6. l \in Lineups(roster, slots, extra)
  BY <1>5, LineupsAre
<1>7. l \in SUBSET (Seats(slots) \X cs)
  BY <1>5, FitsAre DEF Legal
<1>8. Players(l) \subseteq cs
  BY <1>7, MembersAre
<1>9. ASSUME NEW m \in Lineups(roster, slots, extra) PROVE AsGoodAs(roster, l, m, NoneBelow(roster))
  <2>1. Beats(f, cs, Players(l), Players(m)) /\ Players(m) \subseteq cs
    BY <1>3 DEF Rivals
  <2>2. ASSUME NoneBelow(roster) PROVE \A c \in cs : f[c] >= 0
    BY <2>2, RosterValued DEF NoneBelow
  <2> HIDE DEF f, cs
  <2>3. Cardinality(Players(l)) \in Nat /\ Cardinality(Players(m)) \in Nat
    BY <1>2, <1>8, <2>1, SubsetsAdd
  <2>4. /\ Cardinality(Players(m)) <= Cardinality(Players(l))
        /\ Cardinality(Players(l)) = Cardinality(Players(m)) \/ (\A c \in cs : f[c] >= 0) =>
             SumFunctionOnSet(f, Players(m)) <= SumFunctionOnSet(f, Players(l))
    BY <2>1 DEF Beats
  <2>5. ASSUME NoneBelow(roster) \/ Cardinality(Players(m)) >= Cardinality(Players(l))
        PROVE  SumFunctionOnSet(f, Players(m)) <= SumFunctionOnSet(f, Players(l))
    <3>1. CASE NoneBelow(roster)
      BY <2>2, <2>4, <3>1
    <3>2. CASE Cardinality(Players(m)) >= Cardinality(Players(l))
      <4>1. Cardinality(Players(l)) = Cardinality(Players(m))
        BY <2>3, <2>4, <3>2
      <4> QED BY <2>4, <4>1
    <3> QED BY <2>5, <3>1, <3>2
  <2> QED BY <2>5 DEF AsGoodAs, Total, f
<1> QED BY <1>1, <1>6, <1>9

\* Whatever the optimiser answers is a lineup, and none is better.
LEMMA SolutionsAre ==
  ASSUME NEW roster, IsRoster(roster), NEW slots, AreSlots(slots), NEW starters \in Int,
         NEW ilp \in BOOLEAN, NEW l \in Solutions(roster, slots, starters, ilp), l # Refused
  PROVE  /\ l \in Lineups(roster, slots, Extra(slots, starters))
         /\ \A m \in Lineups(roster, slots, Extra(slots, starters)) : AsGoodAs(roster, l, m, ilp \/ NoneBelow(roster))
<1> DEFINE extra == Extra(slots, starters)
<1>1. extra \in Nat
  BY ExtraIs
<1> HIDE DEF extra
<1>2. l \in IF ilp THEN Exact(roster, slots, extra) ELSE {Greedy(roster, slots, extra)}
  BY DEF Solutions, extra
<1>3. CASE ilp
  BY <1>2, <1>3 DEF Exact, AsGoodAs, extra
<1>4. CASE ~ilp
  <2>1. l = Greedy(roster, slots, extra)
    BY <1>2, <1>4
  <2>2. /\ l \in Lineups(roster, slots, extra)
        /\ \A m \in Lineups(roster, slots, extra) : AsGoodAs(roster, l, m, NoneBelow(roster))
    BY <1>1, <2>1, GreedyIsBest
  <2> QED BY <1>4, <2>2 DEF AsGoodAs, extra
<1> QED BY <1>3, <1>4

-----------------------------------------------------------------------------
(* Depth charts and the bench.                                             *)

AreValues(v) == \E n \in Nat : v \in [1..n -> [pos : Nat, next : Int, ros : Int]]

\* The values of a roster.
LEMMA ValuesFit == ASSUME NEW r \in Rosters, NEW w PROVE AreValues(Values(r, w))
<1>1. Len(r) \in Nat /\ DOMAIN r = 1..Len(r) /\ \A i \in DOMAIN r : r[i].pos \in Nat /\ r[i].proj \in Seq(Int)
  BY RosterIs
<1>2. ASSUME NEW i \in 1..Len(r) PROVE RestOfSeason(r[i], w) \in Int
  <2> DEFINE proj == r[i].proj
             covered == Covered(r[i], w)
  <2>1. proj \in Seq(Int)
    BY <1>1
  <2>2. Len(proj) \in Nat /\ DOMAIN proj = 1..Len(proj)
    BY <2>1, LenProperties
  <2>3. covered \subseteq 1..Len(proj)
    BY <2>2 DEF Covered
  <2>4. IsFiniteSet(covered)
    <3> HIDE DEF covered, proj
    <3>1. IsFiniteSet(1..Len(proj))
      BY <2>2, FS_Interval
    <3> QED BY <2>3, <3>1, FS_Subset
  <2>5. \A x \in covered : proj[x] \in Int
    BY <2>1, <2>2, <2>3, ElementOfSeq
  <2> HIDE DEF proj, covered
  <2>6. SumFunctionOnSet(proj, covered) \in Int
    BY <2>4, <2>5, SumIs DEF Adds
  <2> QED BY <2>6 DEF RestOfSeason, NoValue, proj, covered
<1>3. \A i \in 1..Len(r) : Values(r, w)[i].next \in Int
  BY ValuesAre
<1>4. Values(r, w) = [i \in 1..Len(r) |-> Value(r[i], w)]
  BY <1>1 DEF Values
<1>5. ASSUME NEW i \in 1..Len(r) PROVE Value(r[i], w) \in [pos : Nat, next : Int, ros : Int]
  <2>1. Week(r[i], w) \in Int
    BY <1>3, <1>4 DEF Value
  <2> QED BY <1>1, <1>2, <2>1 DEF Value
<1>6. Values(r, w) \in [1..Len(r) -> [pos : Nat, next : Int, ros : Int]]
  BY <1>4, <1>5
<1> QED BY <1>1, <1>6 DEF AreValues

\* Who plays at a position and is projected.
At(v, pos) == {i \in DOMAIN v : v[i].pos = pos /\ Known(v[i].ros)}

\* The depth chart of a position: those projected there, from the highest.
Charts(v, pos, s) ==
  /\ Len(s) \in Nat /\ s \in Seq(Nat) /\ s \in [1..Len(s) -> At(v, pos)]
  /\ IsFiniteSet(At(v, pos)) /\ Len(s) = Cardinality(At(v, pos))
  /\ \A k, l \in 1..Len(s) : k < l => s[k] # s[l] /\ OrZero(v[s[k]].ros) >= OrZero(v[s[l]].ros)
  /\ \A i \in At(v, pos) : \E k \in 1..Len(s) : s[k] = i

\* A depth chart has everybody of the position once, no one before a better one.
LEMMA RankedIs ==
  ASSUME NEW v, AreValues(v), NEW pos PROVE Charts(v, pos, Ranked(v, pos))
<1> DEFINE S == At(v, pos)
           s == Ranked(v, pos)
<1>1. PICK n \in Nat : v \in [1..n -> [pos : Nat, next : Int, ros : Int]]
  BY DEF AreValues
<1>2. DOMAIN v = 1..n /\ S \in SUBSET (1..n) /\ S \in SUBSET Nat
  BY <1>1 DEF At
<1>3. IsFiniteSet(S)
  BY <1>1, <1>2, FS_Interval, FS_Subset
<1>4. \A i \in S : OrZero(v[i]["ros"]) \in Int /\ OrZero(v[i].ros) \in Int
  BY <1>1, <1>2 DEF OrZero
<1>5. s = Descending(v, S, "ros")
  BY DEF Ranked, At
<1> HIDE DEF S, s
<1>6. /\ s \in [1..Cardinality(S) -> S]
      /\ \A k, l \in 1..Cardinality(S) : k < l => Precedes(v, "ros", s[k], s[l])
      /\ \A i \in S : \E k \in 1..Cardinality(S) : s[k] = i
  <2> DEFINE d == Descending(v, S, "ros")
  <2>1. \A i \in S : OrZero(v[i]["ros"]) \in Int
    BY <1>4
  <2>2. /\ d \in [1..Cardinality(S) -> S]
        /\ \A k, l \in 1..Cardinality(S) : k < l => Precedes(v, "ros", d[k], d[l])
        /\ \A i \in S : \E k \in 1..Cardinality(S) : d[k] = i
    BY <1>2, <1>3, <2>1, DescendingIs
  <2> HIDE DEF d
  <2> QED BY <1>5, <2>2 DEF d
<1>7. Cardinality(S) \in Nat
  BY <1>3, FS_CardinalityType
<1> DEFINE m == Cardinality(S)
<1> HIDE DEF m
<1>8. m \in Nat /\ s \in [1..m -> S]
  BY <1>6, <1>7 DEF m
<1>9. s \in Seq(S) /\ Len(s) = m
  <2>1. s \in Seq(S)
    BY <1>8, SeqDef
  <2> QED BY <1>8, <2>1
<1>10. s \in Seq(Nat)
  <2>1. s \in [1..m -> Nat]
    BY <1>2, <1>8
  <2> QED BY <1>8, <2>1, SeqDef
<1>11. ASSUME NEW k \in 1..m, NEW l \in 1..m, k < l
       PROVE  s[k] # s[l] /\ OrZero(v[s[k]].ros) >= OrZero(v[s[l]].ros)
  <2>1. Precedes(v, "ros", s[k], s[l]) /\ s[k] \in S /\ s[l] \in S
    BY <1>6, <1>8, <1>11 DEF m
  <2>2. s[k] \in Nat /\ s[l] \in Nat
    BY <1>2, <2>1
  <2> QED BY <1>4, <2>1, <2>2 DEF Precedes
<1>12. \A i \in S : \E k \in 1..m : s[k] = i
  BY <1>6 DEF m
<1> QED BY <1>3, <1>8, <1>9, <1>10, <1>11, <1>12 DEF Charts, S, s, m

\* The seats of slot i that fall to a position, in twelfths.
Taking(slots, pos) == {i \in DOMAIN slots : pos \in slots[i].eligible}
Share(slots, pos) ==
  [i \in Taking(slots, pos) |-> (12 * slots[i].min) \div Cardinality(slots[i].eligible)]

\* The starters at a position are at least one, and the rounded sum of the slots' shares.
LEMMA SharesAre ==
  ASSUME NEW slots, AreSlots(slots), NEW pos
  PROVE  /\ IsFiniteSet(Taking(slots, pos)) /\ \A i \in Taking(slots, pos) : Share(slots, pos)[i] \in Int
         /\ SumFunctionOnSet(Share(slots, pos), Taking(slots, pos)) \in Int
         /\ Starters(slots, pos) =
              Max({1, RoundHalfEven(SumFunctionOnSet(Share(slots, pos), Taking(slots, pos)), 12)})
<1> DEFINE T == Taking(slots, pos)
<1>1. Len(slots) \in Nat /\ DOMAIN slots = 1..Len(slots)
  BY LenProperties DEF AreSlots
<1>2. IsFiniteSet(T)
  <2>1. T \subseteq 1..Len(slots)
    BY <1>1 DEF Taking
  <2>2. IsFiniteSet(1..Len(slots))
    BY <1>1, FS_Interval
  <2> QED BY <2>1, <2>2, FS_Subset
<1>3. ASSUME NEW i \in T PROVE Share(slots, pos)[i] \in Int
  <2>1. i \in 1..Len(slots) /\ pos \in slots[i].eligible
    BY <1>1 DEF Taking
  <2>2. slots[i].min \in Nat /\ IsFiniteSet(slots[i].eligible)
    <3>1. slots[i] \in [eligible : SUBSET Nat, min : Nat, max : Int]
      BY <2>1, ElementOfSeq DEF AreSlots
    <3> QED BY <1>1, <2>1, <3>1 DEF AreSlots
  <2>3. Cardinality(slots[i].eligible) \in Nat /\ Cardinality(slots[i].eligible) # 0
    BY <2>1, <2>2, FS_CardinalityType, FS_EmptySet
  <2> DEFINE a == 12 * slots[i].min
             b == Cardinality(slots[i].eligible)
  <2>4. a \in Int /\ b \in Nat /\ b > 0
    BY <2>2, <2>3
  <2>5. Share(slots, pos)[i] = a \div b
    BY DEF Share
  <2> HIDE DEF a, b
  <2>6. a \div b \in Int
    BY <2>4
  <2> QED BY <2>5, <2>6
<1>4. SumFunctionOnSet(Share(slots, pos), T) \in Int
  <2> DEFINE f == Share(slots, pos)
  <2>1. \A x \in T : f[x] \in Int
    BY <1>3
  <2> HIDE DEF f, T
  <2>2. Adds(f, T)
    BY <1>2, <2>1, SumIs
  <2> QED BY <2>2 DEF Adds, f
<1>5. SumFunction(Share(slots, pos)) = SumFunctionOnSet(Share(slots, pos), T)
  <2>1. DOMAIN Share(slots, pos) = T
    BY DEF Share
  <2> QED BY <2>1, Zenon DEF SumFunction
<1>6. Starters(slots, pos) = Max({1, RoundHalfEven(SumFunction(Share(slots, pos)), 12)})
  BY DEF Starters, Share, Taking
<1> QED BY <1>2, <1>3, <1>4, <1>5, <1>6

\* So they are no fewer than the seats that take nobody else.
LEMMA StartersAre ==
  ASSUME NEW slots, AreSlots(slots), NEW pos
  PROVE  /\ Starters(slots, pos) \in Nat /\ Starters(slots, pos) >= 1
         /\ \A n \in Nat : 12 * n <= SumFunctionOnSet(Share(slots, pos), Taking(slots, pos))
                             => n <= Starters(slots, pos)
<1> DEFINE sum == SumFunctionOnSet(Share(slots, pos), Taking(slots, pos))
           r == RoundHalfEven(sum, 12)
<1>1. sum \in Int /\ Starters(slots, pos) = Max({1, r})
  BY SharesAre
<1> HIDE DEF sum
<1>2. r \in Int /\ r >= sum \div 12
  BY <1>1 DEF RoundHalfEven
<1> HIDE DEF r
<1>3. Max({1, r}) = IF 1 >= r THEN 1 ELSE r
  BY <1>2, GreatestOfTwo
<1>4. ASSUME NEW n \in Nat, 12 * n <= sum PROVE n <= r
  BY <1>1, <1>2, <1>4
<1> QED BY <1>1, <1>2, <1>3, <1>4 DEF sum

\* The first on the bench comes after as many as the league starts.
LEMMA BenchIs ==
  ASSUME NEW v, AreValues(v), NEW pos, NEW slots, AreSlots(slots)
  PROVE  LET bench == Bench(v, pos, slots)
             ranked == Ranked(v, pos)
             m == Starters(slots, pos)
         IN /\ bench # <<>> => Len(ranked) > m /\ Head(bench) = ranked[m + 1]
            /\ Depth(v, pos, slots) > 0 => bench # <<>>
<1> DEFINE ranked == Ranked(v, pos)
           n == Len(ranked)
           m == Starters(slots, pos)
           first == Min({m + 1, n + 1})
           bench == Bench(v, pos, slots)
<1>1. n \in Nat /\ ranked \in Seq(Nat)
  BY RankedIs DEF Charts
<1>2. m \in Nat /\ m >= 1
  BY StartersAre
<1>3. bench = SubSeq(ranked, first, n)
  BY DEF Bench
<1> HIDE DEF ranked, n, m, bench
<1>4. first = IF m + 1 <= n + 1 THEN m + 1 ELSE n + 1
  BY <1>1, <1>2, LeastOfTwo
<1>5. CASE n <= m
  <2>1. first = n + 1
    BY <1>1, <1>2, <1>4, <1>5
  <2> HIDE DEF first
  <2>2. bench = <<>>
    BY <1>1, <1>3, <2>1, SubSeqEmpty
  <2>3. Depth(v, pos, slots) = 0
    <3> DEFINE f == [i \in DOMAIN v |-> OrZero(v[i].ros)]
    <3>1. Range(bench) = {}
      BY <2>2 DEF Range
    <3>2. Depth(v, pos, slots) = SumFunctionOnSet(f, {})
      BY <3>1 DEF Depth, bench
    <3> HIDE DEF f
    <3>3. Adds(f, {})
      BY SumIs, FS_EmptySet
    <3> QED BY <3>2, <3>3 DEF Adds
  <2> QED BY <2>2, <2>3 DEF bench
<1>6. CASE n > m
  <2>1. first = m + 1
    BY <1>1, <1>2, <1>4, <1>6
  <2> HIDE DEF first
  <2>2. m + 1 \in 1..Len(ranked) /\ n \in m + 1 .. Len(ranked)
    BY <1>1, <1>2, <1>6 DEF n
  <2>3. Head(bench) = ranked[m + 1]
    BY <1>1, <1>3, <2>1, <2>2, HeadTailOfSubSeq
  <2>4. bench # <<>>
    <3>1. \A i \in m + 1 .. n : ranked[i] \in Nat
      BY <1>1, <2>2, ElementOfSeq DEF n
    <3>2. Len(bench) = IF m + 1 <= n THEN n - (m + 1) + 1 ELSE 0
      BY <1>1, <1>2, <1>3, <2>1, <3>1, SubSeqProperties
    <3>3. Len(bench) # 0
      BY <1>1, <1>2, <1>6, <3>2
    <3> QED BY <3>3
  <2> QED BY <1>6, <2>3, <2>4 DEF bench, ranked, n, m
<1> QED BY <1>1, <1>2, <1>5, <1>6 DEF bench, ranked, n, m

-----------------------------------------------------------------------------
(* The best lineup of a season.                                            *)

\* A finite set of integers has a largest.
LEMMA MaxIs ==
  ASSUME NEW S, IsFiniteSet(S), S # {}, \A x \in S : x \in Int
  PROVE  Max(S) \in S /\ \A y \in S : y <= Max(S)
<1> DEFINE D == {x \in S \X S : x[1] > x[2]}
<1>1. \A x, y \in S : <<x, y>> \in D <=> x > y
  OBVIOUS
<1>2. Ranks(D, S)
  <2> HIDE DEF D
  <2> QED BY <1>1 DEF Ranks
<1> HIDE DEF D
<1>3. PICK x \in S : First(D, S, x)
  BY <1>2, OneIsFirst
<1>4. ASSUME NEW y \in S PROVE x >= y
  <2>1. x \in S /\ (y # x => x > y)
    BY <1>1, <1>3 DEF First
  <2> QED BY <2>1
<1>5. Max(S) \in S /\ \A y \in S : Max(S) >= y
  BY <1>3, <1>4 DEF Max
<1> QED BY <1>5

AsPlayed(v) == [i \in DOMAIN v |-> [pos |-> v[i].pos, points |-> OrZero(v[i].ros), out |-> FALSE]]
Totals(v, s) ==
  {Total(AsPlayed(v), l) : l \in Lineups(AsPlayed(v), s.slots, Extra(s.slots, s.starters))}
BestOf(v, s) == Max(Totals(v, s))

\* A roster as the best lineup of the season is sought for it.
LEMMA AsPlayedIs ==
  ASSUME NEW v, AreValues(v)
  PROVE  /\ IsRoster(AsPlayed(v)) /\ Startable(AsPlayed(v)) = DOMAIN v
         /\ DOMAIN AsPlayed(v) = DOMAIN v
         /\ \A i \in DOMAIN v : /\ AsPlayed(v)[i].pos = v[i].pos
                                /\ Points(AsPlayed(v))[i] = OrZero(v[i].ros)
<1>1. PICK n \in Nat : v \in [1..n -> [pos : Nat, next : Int, ros : Int]]
  BY DEF AreValues
<1> DEFINE Records == [pos : Nat, points : Int, out : BOOLEAN]
           r == AsPlayed(v)
<1>2. r = [i \in 1..n |-> [pos |-> v[i].pos, points |-> OrZero(v[i].ros), out |-> FALSE]]
  BY <1>1 DEF AsPlayed
<1>3. \A i \in 1..n : v[i].pos \in Nat /\ OrZero(v[i].ros) \in Int
  BY <1>1 DEF OrZero
<1>4. r \in [1..n -> Records]
  BY <1>2, <1>3
<1>5. /\ DOMAIN r = 1..n /\ DOMAIN v = 1..n
      /\ \A i \in 1..n : r[i].pos = v[i].pos /\ r[i].points = OrZero(v[i].ros) /\ ~r[i].out
  BY <1>1, <1>2
<1> HIDE DEF r, Records
<1>6. r \in Seq(Records)
  BY <1>1, <1>4, SeqDef
<1>7. IsRoster(r)
  BY <1>6 DEF IsRoster, Records
<1>8. Startable(r) = 1..n /\ \A i \in 1..n : Points(r)[i] = r[i].points
  BY <1>5 DEF Startable, Points
<1> QED BY <1>5, <1>7, <1>8 DEF r

\* There are finitely many lineups, and one at least; so one is the best.
LEMMA BestIsReached ==
  ASSUME NEW v, AreValues(v), NEW s, AreSlots(s.slots), s.starters \in Int
  PROVE  LET all == Lineups(AsPlayed(v), s.slots, Extra(s.slots, s.starters))
         IN /\ \E l \in all : BestOf(v, s) = Total(AsPlayed(v), l)
            /\ \A l \in all : Total(AsPlayed(v), l) \in Int /\ Total(AsPlayed(v), l) <= BestOf(v, s)
<1> DEFINE r == AsPlayed(v)
           extra == Extra(s.slots, s.starters)
           all == Lineups(r, s.slots, extra)
           A == Fits(r, s.slots)
           C == Startable(r)
<1>1. IsRoster(r)
  BY AsPlayedIs
<1>2. extra \in Nat
  BY ExtraIs
<1>3. Valued(Points(r), C)
  BY <1>1, RosterValued
<1> HIDE DEF r, extra
<1>4. \A l : l \in all <=> Legal(A, l) /\ Cardinality(Used(l) \ Required(s.slots)) <= extra
  BY <1>1, LineupsAre
<1>5. A \in SUBSET (Seats(s.slots) \X C)
  BY FitsAre
<1>6. IsFiniteSet(A)
  <2>1. IsFiniteSet(Seats(s.slots)) /\ IsFiniteSet(C)
    BY <1>3, SeatsAre DEF Valued
  <2> HIDE DEF A, C
  <2>2. IsFiniteSet(Seats(s.slots) \X C)
    BY <2>1, FS_Product
  <2> QED BY <1>5, <2>2, FS_Subset
<1> HIDE DEF all, A, C
<1>7. IsFiniteSet(all)
  <2>1. all \in SUBSET (SUBSET A)
    BY <1>4 DEF Legal
  <2>2. IsFiniteSet(SUBSET A)
    BY <1>6, FS_SUBSET
  <2> QED BY <2>1, <2>2, FS_Subset
<1>8. {} \in all
  <2>1. Legal(A, {}) /\ Used({}) = {}
    BY DEF Legal, Used
  <2>2. Cardinality(Used({}) \ Required(s.slots)) = 0
    <3>1. Used({}) \ Required(s.slots) = {}
      BY <2>1
    <3> QED BY <3>1, FS_EmptySet
  <2> QED BY <1>2, <1>4, <2>1, <2>2
<1>9. ASSUME NEW l \in all PROVE Total(r, l) \in Int
  <2> DEFINE I == Seats(s.slots)
  <2>1. l \in SUBSET (I \X C)
    BY <1>4, <1>5 DEF Legal
  <2> HIDE DEF I
  <2>2. Players(l) \subseteq C
    BY <2>1, MembersAre
  <2>3. Adds(Points(r), Players(l))
    BY <1>3, <2>2, SubsetsAdd
  <2> QED BY <2>3 DEF Adds, Total
<1>10. Totals(v, s) = {Total(r, l) : l \in all}
  BY DEF Totals, all, r, extra
<1>11. IsFiniteSet(Totals(v, s)) /\ Totals(v, s) # {}
  <2> DEFINE f == [l \in all |-> Total(r, l)]
  <2>1. f \in Surjection(all, Totals(v, s))
    BY <1>10 DEF Surjection
  <2> HIDE DEF f
  <2>2. IsFiniteSet(Totals(v, s))
    BY <1>7, <2>1, FS_Surjection
  <2> QED BY <1>8, <1>10, <2>2
<1>12. \A x \in Totals(v, s) : x \in Int
  BY <1>9, <1>10
<1>13. BestOf(v, s) \in Totals(v, s) /\ \A y \in Totals(v, s) : y <= BestOf(v, s)
  BY <1>11, <1>12, MaxIs DEF BestOf
<1> QED BY <1>9, <1>10, <1>13 DEF all, r, extra

-----------------------------------------------------------------------------
(* Whoever is first on the bench is no loss.                               *)

SingleSlots(slots) == \A i \in DOMAIN slots : Cardinality(slots[i].eligible) = 1
SeatsIn(slots, T) == {x \in Required(slots) : x[1] \in T}

\* Where every slot takes one position, its share of the slots that take it are their seats.
SeatsShared(slots, pos, T) ==
  /\ IsFiniteSet(SeatsIn(slots, T)) /\ Cardinality(SeatsIn(slots, T)) \in Nat
  /\ 12 * Cardinality(SeatsIn(slots, T)) = SumFunctionOnSet(Share(slots, pos), T)

\* In a league of single positions the shares of a position are twelfths of its seats.
LEMMA SeatsAreShared ==
  ASSUME NEW slots, AreSlots(slots), SingleSlots(slots), NEW pos
  PROVE  SeatsShared(slots, pos, Taking(slots, pos))
<1> DEFINE all == Taking(slots, pos)
           f == Share(slots, pos)
           Bad(n, T) == T \in SUBSET all /\ Cardinality(T) = n /\ ~SeatsShared(slots, pos, T)
           Sizes == {n \in Nat : \E T \in SUBSET all : Bad(n, T)}
<1>1. IsFiniteSet(all) /\ \A i \in all : f[i] \in Int
  BY SharesAre
<1>2. all \subseteq DOMAIN slots /\ DOMAIN slots = 1..Len(slots) /\ Len(slots) \in Nat
  BY LenProperties DEF Taking, AreSlots
<1>3. ASSUME NEW i \in all
      PROVE  slots[i].min \in Nat /\ Low(slots[i]) = slots[i].min /\ f[i] = 12 * slots[i].min
  <2>1. slots[i] \in [eligible : SUBSET Nat, min : Nat, max : Int]
    BY <1>2, ElementOfSeq DEF AreSlots
  <2>2. slots[i].min \in Nat /\ Cardinality(slots[i].eligible) = 1
    BY <1>2, <2>1 DEF SingleSlots
  <2>3. f[i] = (12 * slots[i].min) \div 1
    BY <2>2 DEF Share
  <2> HIDE DEF f
  <2> QED BY <2>2, <2>3 DEF Low, AtLeast
<1>4. \A T \in SUBSET all : IsFiniteSet(T) /\ Cardinality(T) \in Nat
  BY <1>1, SubsetSizes
<1> HIDE DEF all, f
<1>5. SUFFICES ASSUME ~SeatsShared(slots, pos, all) PROVE FALSE
  BY DEF all
<1>6. Cardinality(all) \in Sizes
  BY <1>4, <1>5
<1>7. PICK n \in Sizes : \A m \in Nat : m < n => m \notin Sizes
  <2>1. Sizes \in SUBSET Nat
    OBVIOUS
  <2> HIDE DEF Sizes
  <2> QED BY <1>6, <2>1, LeastSize
<1>8. PICK T \in SUBSET all : Bad(n, T)
  BY <1>7
<1>9. IsFiniteSet(T) /\ Cardinality(T) = n
  BY <1>4, <1>8
<1>10. T # {}
  <2>1. ASSUME T = {} PROVE SeatsShared(slots, pos, T)
    <3>1. SeatsIn(slots, T) = {}
      BY <2>1 DEF SeatsIn
    <3>2. IsFiniteSet(SeatsIn(slots, T)) /\ Cardinality(SeatsIn(slots, T)) = 0
      BY <3>1, FS_EmptySet
    <3>3. Adds(f, {})
      BY FS_EmptySet, SumIs
    <3>4. SumFunctionOnSet(f, T) = 0
      BY <2>1, <3>3 DEF Adds
    <3> QED BY <3>2, <3>4 DEF SeatsShared, f
  <2> QED BY <1>8, <2>1
<1>11. PICK i \in T : TRUE
  BY <1>10
<1> DEFINE U == T \ {i}
           S == {i} \X (1..Low(slots[i]))
           V == SeatsIn(slots, U)
<1>12. Cardinality(U) \in Nat /\ Cardinality(U) < n
  <2>1. Cardinality(T) \in Nat /\ Cardinality(U) \in Nat /\ Cardinality(T) = Cardinality(U) + 1
    BY <1>9, <1>11, Without
  <2> QED BY <1>9, <2>1
<1>13. SeatsShared(slots, pos, U)
  BY <1>7, <1>12
<1>14. /\ \A x : x \in Required(slots) <=> \E j \in DOMAIN slots : x \in {j} \X (1..Low(slots[j]))
       /\ \A j : \A x \in {j} \X (1..Low(slots[j])) : x[1] = j
  BY DEF Required
<1>15. SeatsIn(slots, T) = V \union S /\ V \intersect S = {}
  <2>1. ASSUME NEW x PROVE x \in SeatsIn(slots, T) <=> x \in V \/ x \in S
    <3>1. i \in DOMAIN slots
      BY <1>2, <1>8, <1>11
    <3>2. x \in S => x \in Required(slots) /\ x[1] = i
      BY <1>14, <3>1
    <3>3. x \in Required(slots) /\ x[1] = i => x \in S
      BY <1>14
    <3> QED BY <1>11, <3>2, <3>3 DEF SeatsIn
  <2>2. \A x \in V : x[1] # i
    BY DEF SeatsIn
  <2> QED BY <1>14, <2>1, <2>2
<1>16. i \in all /\ slots[i].min \in Nat /\ Low(slots[i]) = slots[i].min /\ f[i] = 12 * slots[i].min
  BY <1>3, <1>8, <1>11
<1>17. IsFiniteSet(S) /\ Cardinality(S) = slots[i].min
  <2> DEFINE N == 1..slots[i].min
  <2>1. IsFiniteSet(N) /\ Cardinality(N) = slots[i].min
    <3> DEFINE m == slots[i].min
    <3>1. m \in Nat
      BY <1>16
    <3> HIDE DEF m
    <3>2. IsFiniteSet(1..m) /\ Cardinality(1..m) = IF 1 > m THEN 0 ELSE m - 1 + 1
      BY <3>1, FS_Interval
    <3> QED BY <3>1, <3>2 DEF m
  <2>2. IsFiniteSet({i}) /\ Cardinality({i}) = 1
    BY FS_Singleton
  <2>3. S = {i} \X N
    BY <1>16
  <2> HIDE DEF N, S
  <2>4. IsFiniteSet({i} \X N) /\ Cardinality({i} \X N) = Cardinality({i}) * Cardinality(N)
    BY <2>1, <2>2, FS_Product
  <2> QED BY <1>16, <2>1, <2>2, <2>3, <2>4
<1> HIDE DEF S, V
<1>18. IsFiniteSet(V) /\ Cardinality(V) \in Nat /\ 12 * Cardinality(V) = SumFunctionOnSet(f, U)
  BY <1>13 DEF SeatsShared, V, f
<1>19. IsFiniteSet(V \union S) /\ Cardinality(V \union S) = Cardinality(V) + Cardinality(S)
  <2>1. /\ IsFiniteSet(V \union S)
        /\ Cardinality(V \union S) = Cardinality(V) + Cardinality(S) - Cardinality(V \intersect S)
    BY <1>17, <1>18, FS_Union
  <2>2. Cardinality(V \intersect S) = 0
    BY <1>15, FS_EmptySet
  <2> QED BY <1>16, <1>17, <1>18, <2>1, <2>2
<1>20. SumFunctionOnSet(f, T) = f[i] + SumFunctionOnSet(f, U)
  <2>1. \A x \in T : f[x] \in Int
    BY <1>1, <1>8
  <2>2. Adds(f, T)
    BY <1>9, <2>1, SumIs
  <2> QED BY <1>11, <2>2 DEF Adds
<1>21. SeatsShared(slots, pos, T)
  <2> HIDE DEF U
  <2>1. Cardinality(SeatsIn(slots, T)) = Cardinality(V) + slots[i].min /\ IsFiniteSet(SeatsIn(slots, T))
    BY <1>15, <1>17, <1>19
  <2>2. 12 * (Cardinality(V) + slots[i].min) = SumFunctionOnSet(f, T)
    BY <1>16, <1>18, <1>20
  <2>3. Cardinality(V) + slots[i].min \in Nat
    BY <1>16, <1>18
  <2> QED BY <2>1, <2>2, <2>3 DEF SeatsShared, f
<1> QED BY <1>8, <1>21

\* There are no more required seats of a position than starters.
LEMMA SeatsForStarters ==
  ASSUME NEW slots, AreSlots(slots), SingleSlots(slots), NEW pos
  PROVE  LET seats == {x \in Required(slots) : pos \in Eligible(slots, x)}
         IN IsFiniteSet(seats) /\ Cardinality(seats) \in Nat /\ Cardinality(seats) <= Starters(slots, pos)
<1> DEFINE seats == {x \in Required(slots) : pos \in Eligible(slots, x)}
<1>1. seats = SeatsIn(slots, Taking(slots, pos))
  <2>1. \A x \in Required(slots) : x[1] \in DOMAIN slots
    <3>1. Len(slots) \in Nat /\ DOMAIN slots = 1..Len(slots)
      BY LenProperties DEF AreSlots
    <3>2. Required(slots) \subseteq (1..Len(slots)) \X Nat
      BY SeatsAre
    <3> QED BY <3>1, <3>2
  <2> QED BY <2>1 DEF SeatsIn, Taking, Eligible
<1> HIDE DEF seats
<1>2. /\ IsFiniteSet(seats) /\ Cardinality(seats) \in Nat
      /\ 12 * Cardinality(seats) <= SumFunctionOnSet(Share(slots, pos), Taking(slots, pos))
  <2>1. SeatsShared(slots, pos, Taking(slots, pos))
    BY SeatsAreShared
  <2> QED BY <1>1, <2>1 DEF SeatsShared
<1> QED BY <1>2, StartersAre DEF seats

\* A lineup of a season needs nobody who is behind the starters of his position: one
\* of them is free for the seat.
LEMMA SparedInLineups ==
  ASSUME NEW v, AreValues(v), NEW slots, AreSlots(slots), SingleSlots(slots), NEW pos,
         Len(Ranked(v, pos)) > Starters(slots, pos),
         NEW L \in Lineups(AsPlayed(v), slots, 0)
  PROVE  \E N \in Lineups(AsPlayed(v), slots, 0) :
           /\ Ranked(v, pos)[Starters(slots, pos) + 1] \notin Players(N)
           /\ Total(AsPlayed(v), L) <= Total(AsPlayed(v), N)
<1> DEFINE r == AsPlayed(v)
           ranked == Ranked(v, pos)
           m == Starters(slots, pos)
           mine == ranked[m + 1]
           seats == {x \in Required(slots) : pos \in Eligible(slots, x)}
           A == Fits(r, slots)
           I == Seats(slots)
           C == Startable(r)
           f == Points(r)
<1>1. /\ IsRoster(r) /\ C = DOMAIN v
      /\ \A i \in DOMAIN v : r[i].pos = v[i].pos /\ f[i] = OrZero(v[i].ros)
  BY AsPlayedIs
<1>2. m \in Nat /\ m >= 1
  BY StartersAre
<1>3. IsFiniteSet(seats) /\ Cardinality(seats) \in Nat /\ Cardinality(seats) <= m
  BY SeatsForStarters
<1>4. /\ Len(ranked) \in Nat /\ m + 1 \in 1..Len(ranked) /\ 1..m + 1 \subseteq 1..Len(ranked)
      /\ \A k \in 1..m + 1 : ranked[k] \in DOMAIN v /\ v[ranked[k]].pos = pos
      /\ \A k \in 1..m + 1 : k # m + 1 =>
           ranked[k] # mine /\ OrZero(v[ranked[k]].ros) >= OrZero(v[mine].ros)
      /\ \A k, l \in 1..m + 1 : k # l => ranked[k] # ranked[l]
  <2> DEFINE n == Len(ranked)
  <2>1. /\ n \in Nat /\ ranked \in [1..n -> At(v, pos)]
        /\ \A k, l \in 1..n : k < l => ranked[k] # ranked[l] /\ OrZero(v[ranked[k]].ros) >= OrZero(v[ranked[l]].ros)
    BY RankedIs DEF Charts
  <2>2. n > m
    OBVIOUS
  <2> HIDE DEF n, m, ranked
  <2>3. m + 1 \in 1..n /\ 1..m + 1 \subseteq 1..n
    BY <1>2, <2>1, <2>2
  <2>4. \A k \in 1..m + 1 : ranked[k] \in DOMAIN v /\ v[ranked[k]].pos = pos
    BY <2>1, <2>3 DEF At
  <2>5. ASSUME NEW k \in 1..m + 1, k # m + 1
        PROVE  ranked[k] # mine /\ OrZero(v[ranked[k]].ros) >= OrZero(v[mine].ros)
    <3>1. k < m + 1 /\ k \in 1..n
      BY <1>2, <2>3, <2>5
    <3> QED BY <2>1, <2>3, <3>1
  <2>6. ASSUME NEW k \in 1..m + 1, NEW l \in 1..m + 1, k # l PROVE ranked[k] # ranked[l]
    <3>1. k < l \/ l < k
      BY <1>2, <2>6
    <3> QED BY <2>1, <2>3, <3>1
  <2> QED BY <2>1, <2>3, <2>4, <2>5, <2>6 DEF n
<1>5. Legal(A, L) /\ Cardinality(Used(L) \ Required(slots)) <= 0
  BY <1>1, LineupsAre
<1>6. A \in SUBSET (I \X C) /\ \A s, c : <<s, c>> \in A <=> s \in I /\ c \in C /\ r[c].pos \in Eligible(slots, s)
  BY FitsAre
<1>7. Valued(f, C)
  BY <1>1, RosterValued
<1> HIDE DEF r, ranked, m, A, I, C, f
<1>8. L \in SUBSET (I \X C)
  BY <1>5, <1>6 DEF Legal
<1>9. /\ \A c : c \in Players(L) <=> \E s : <<s, c>> \in L
      /\ \A s : s \in Used(L) <=> \E c : <<s, c>> \in L
      /\ Players(L) \subseteq C /\ Used(L) \subseteq I
  BY <1>8, MembersAre
<1>10. \A s, c : <<s, c>> \in L => s \in Required(slots) /\ <<s, c>> \in A
  <2>1. IsFiniteSet(Used(L))
    <3>1. IsFiniteSet(I)
      BY SeatsAre DEF I
    <3> QED BY <1>9, <3>1, FS_Subset
  <2>2. IsFiniteSet(Used(L) \ Required(slots))
    BY <2>1, FS_Difference
  <2>3. Cardinality(Used(L) \ Required(slots)) = 0
    BY <1>5, <2>2, FS_CardinalityType
  <2>4. Used(L) \ Required(slots) = {}
    BY <2>2, <2>3, FS_EmptySet
  <2> QED BY <1>5, <1>9, <2>4 DEF Legal
<1>11. CASE mine \notin Players(L)
  <2>1. Total(r, L) \in Int
    <3>1. Adds(f, Players(L))
      BY <1>7, <1>9, SubsetsAdd
    <3> QED BY <3>1 DEF Adds, Total, f
  <2>2. Total(r, L) <= Total(r, L)
    BY <2>1
  <2> QED BY <1>11, <2>2 DEF r, ranked, m
<1>12. CASE mine \in Players(L)
  <2>1. PICK j : <<j, mine>> \in L
    BY <1>9, <1>12
  <2>2. \E k \in 1..m + 1 : ranked[k] \notin Players(L)
    <3>1. SUFFICES ASSUME \A k \in 1..m + 1 : ranked[k] \in Players(L) PROVE FALSE
      OBVIOUS
    <3> DEFINE seat(k) == CHOOSE s : <<s, ranked[k]>> \in L
               g == [k \in 1..m + 1 |-> seat(k)]
    <3>2. \A k \in 1..m + 1 : <<seat(k), ranked[k]>> \in L
      BY <1>9, <3>1
    <3> HIDE DEF seat
    <3>3. ASSUME NEW k \in 1..m + 1 PROVE seat(k) \in seats
      <4>1. <<seat(k), ranked[k]>> \in A /\ seat(k) \in Required(slots)
        BY <1>10, <3>2
      <4>2. r[ranked[k]].pos = pos
        BY <1>1, <1>4
      <4> QED BY <1>6, <4>1, <4>2
    <3> HIDE DEF seats
    <3>4. g \in [1..m + 1 -> seats]
      BY <3>3
    <3>5. \A k \in 1..m + 1 : g[k] = seat(k)
      OBVIOUS
    <3> DEFINE K == 1..m + 1
    <3>6. IsFiniteSet(K) /\ Cardinality(K) = m + 1
      <4> DEFINE M == m + 1
      <4>1. M \in Int /\ M >= 1
        BY <1>2
      <4> HIDE DEF M
      <4>2. IsFiniteSet(1..M) /\ Cardinality(1..M) = IF 1 > M THEN 0 ELSE M - 1 + 1
        BY <4>1, FS_Interval
      <4> QED BY <4>1, <4>2 DEF M
    <3>7. Cardinality(seats) < Cardinality(K)
      BY <1>2, <1>3, <3>6
    <3> HIDE DEF g, K
    <3>8. g \in [K -> seats]
      BY <3>4 DEF K
    <3>9. PICK x, y \in K : x # y /\ g[x] = g[y]
      BY <1>3, <3>6, <3>7, <3>8, FS_PigeonHole
    <3>10. <<seat(x), ranked[x]>> \in L /\ <<seat(y), ranked[y]>> \in L /\ seat(x) = seat(y)
      BY <3>2, <3>5, <3>9 DEF K
    <3>11. ranked[x] = ranked[y]
      BY <1>5, <3>10 DEF Legal
    <3> QED BY <1>4, <3>9, <3>11 DEF K
  <2>3. PICK k \in 1..m + 1 : ranked[k] \notin Players(L)
    BY <2>2
  <2> DEFINE c == ranked[k]
  <2>4. k # m + 1
    BY <1>12, <2>3
  <2>5. /\ c \in C /\ mine \in C /\ f[c] >= f[mine] /\ r[c].pos = pos /\ r[mine].pos = pos
    <3>1. m + 1 \in 1..m + 1
      BY <1>2
    <3>2. mine \in DOMAIN v /\ v[mine].pos = pos /\ c \in DOMAIN v /\ v[c].pos = pos
      BY <1>4, <3>1
    <3>3. OrZero(v[c].ros) >= OrZero(v[mine].ros)
      BY <1>4, <2>4
    <3> HIDE DEF mine, c
    <3> QED BY <1>1, <3>2, <3>3
  <2>6. <<j, c>> \in A
    <3>1. <<j, mine>> \in A /\ j \in I /\ pos \in Eligible(slots, j)
      BY <1>6, <1>10, <2>1, <2>5
    <3> QED BY <1>6, <2>5, <3>1
  <2> HIDE DEF c, mine
  <2>7. c \notin Players(L)
    BY <2>3 DEF c
  <2>8. Replaces(f, C, A, j, c, j, mine, L)
    BY <1>5, <1>6, <1>7, <2>1, <2>5, <2>6, <2>7, Replace
  <2>9. PICK N \in SUBSET A :
          /\ Legal(A, N) /\ SumFunctionOnSet(f, Players(L)) <= SumFunctionOnSet(f, Players(N))
          /\ \A s, e : <<s, e>> \in N <=> (<<s, e>> \in L /\ ~(s = j /\ e = mine)) \/ (s = j /\ e = c)
    BY <2>8 DEF Replaces
  <2>10. N \in SUBSET (I \X C)
    BY <1>6, <2>9
  <2>11. /\ \A e : e \in Players(N) <=> \E s : <<s, e>> \in N
         /\ \A s : s \in Used(N) <=> \E e : <<s, e>> \in N
    BY <2>10, MembersAre
  <2>12. mine \notin Players(N)
    <3>1. ASSUME NEW s, <<s, mine>> \in N PROVE FALSE
      <4>1. <<s, mine>> \in L /\ s # j
        BY <2>3, <2>7, <2>9, <3>1, <1>12
      <4> QED BY <1>5, <2>1, <4>1 DEF Legal
    <3> QED BY <2>11, <3>1
  <2>13. Cardinality(Used(N) \ Required(slots)) <= 0
    <3>1. ASSUME NEW s \in Used(N) PROVE s \in Required(slots)
      <4>1. PICK e : <<s, e>> \in N
        BY <2>11, <3>1
      <4> QED BY <1>10, <2>1, <2>9, <4>1
    <3>2. Used(N) \ Required(slots) = {}
      BY <3>1
    <3>3. Cardinality(Used(N) \ Required(slots)) = 0
      BY <3>2, FS_EmptySet
    <3> QED BY <3>3
  <2>14. N \in Lineups(r, slots, 0)
    BY <1>1, <2>9, <2>13, LineupsAre DEF A
  <2>15. Total(r, L) <= Total(r, N)
    BY <2>9 DEF Total, f
  <2> QED BY <2>12, <2>14, <2>15 DEF r, mine, ranked, m
<1> QED BY <1>11, <1>12

\* A sum is of the values.
LEMMA SameSum ==
  ASSUME NEW S, IsFiniteSet(S), NEW f, NEW g, \A x \in S : g[x] = f[x] /\ f[x] \in Int
  PROVE  SumFunctionOnSet(g, S) = SumFunctionOnSet(f, S)
<1> DEFINE Bad(n, T) == /\ T \in SUBSET S /\ Cardinality(T) = n
                        /\ SumFunctionOnSet(g, T) # SumFunctionOnSet(f, T)
           Sizes == {n \in Nat : \E T \in SUBSET S : Bad(n, T)}
<1>1. \A T \in SUBSET S : IsFiniteSet(T) /\ Cardinality(T) \in Nat
  BY SubsetSizes
<1>2. SUFFICES ASSUME SumFunctionOnSet(g, S) # SumFunctionOnSet(f, S) PROVE FALSE
  OBVIOUS
<1>3. Cardinality(S) \in Sizes
  BY <1>1, <1>2
<1>4. PICK n \in Sizes : \A m \in Nat : m < n => m \notin Sizes
  <2>1. Sizes \in SUBSET Nat
    OBVIOUS
  <2> HIDE DEF Sizes
  <2> QED BY <1>3, <2>1, LeastSize
<1>5. PICK T \in SUBSET S : Bad(n, T)
  BY <1>4
<1>6. IsFiniteSet(T) /\ \A x \in T : f[x] \in Int /\ g[x] \in Int /\ g[x] = f[x]
  BY <1>1, <1>5
<1>7. Adds(f, T) /\ Adds(g, T)
  BY <1>6, SumIs
<1>8. PICK x \in T : TRUE
  BY <1>5, <1>7 DEF Adds
<1>9. Cardinality(T \ {x}) \in Nat /\ Cardinality(T \ {x}) < n
  <2>1. /\ Cardinality(T) \in Nat /\ Cardinality(T \ {x}) \in Nat
        /\ Cardinality(T) = Cardinality(T \ {x}) + 1
    BY <1>6, <1>8, Without
  <2> QED BY <1>5, <2>1
<1>10. SumFunctionOnSet(g, T \ {x}) = SumFunctionOnSet(f, T \ {x})
  BY <1>4, <1>5, <1>9
<1> QED BY <1>5, <1>6, <1>7, <1>8, <1>10 DEF Adds

\* Whoever takes his place, the best lineup is as good.
LEMMA BenchCostsNothing ==
  ASSUME NEW v, AreValues(v), NEW s, AreSlots(s.slots), s.starters \in Int,
         SingleSlots(s.slots), Extra(s.slots, s.starters) = 0,
         NEW pos, Bench(v, pos, s.slots) # <<>>, NEW x \in [pos : Nat, next : Int, ros : Int]
  PROVE  BestOf([v EXCEPT ![Head(Bench(v, pos, s.slots))] = x], s) >= BestOf(v, s)
<1> DEFINE mine == Head(Bench(v, pos, s.slots))
           w == [v EXCEPT ![mine] = x]
           all(u) == Lineups(AsPlayed(u), s.slots, 0)
<1>1. Len(Ranked(v, pos)) > Starters(s.slots, pos) /\ mine = Ranked(v, pos)[Starters(s.slots, pos) + 1]
  BY BenchIs
<1> HIDE DEF mine
<1>2. AreValues(w) /\ DOMAIN w = DOMAIN v /\ \A i \in DOMAIN v : i # mine => w[i] = v[i]
  <2>1. PICK n \in Nat : v \in [1..n -> [pos : Nat, next : Int, ros : Int]]
    BY DEF AreValues
  <2>2. w \in [1..n -> [pos : Nat, next : Int, ros : Int]]
    BY <2>1
  <2> QED BY <2>1, <2>2 DEF AreValues
<1> HIDE DEF w
<1>3. /\ \E l \in all(v) : BestOf(v, s) = Total(AsPlayed(v), l)
      /\ \A l \in all(v) : Total(AsPlayed(v), l) \in Int
      /\ \A l \in all(w) : Total(AsPlayed(w), l) \in Int /\ Total(AsPlayed(w), l) <= BestOf(w, s)
  <2>1. /\ \E l \in Lineups(AsPlayed(v), s.slots, Extra(s.slots, s.starters)) :
             BestOf(v, s) = Total(AsPlayed(v), l)
        /\ \A l \in Lineups(AsPlayed(v), s.slots, Extra(s.slots, s.starters)) :
             Total(AsPlayed(v), l) \in Int
    BY BestIsReached
  <2>2. \A l \in Lineups(AsPlayed(w), s.slots, Extra(s.slots, s.starters)) :
             Total(AsPlayed(w), l) \in Int /\ Total(AsPlayed(w), l) <= BestOf(w, s)
    BY <1>2, BestIsReached
  <2> QED BY <2>1, <2>2
<1>4. BestOf(w, s) \in Int
  <2>1. PICK l \in Lineups(AsPlayed(w), s.slots, Extra(s.slots, s.starters)) :
          BestOf(w, s) = Total(AsPlayed(w), l)
    BY <1>2, BestIsReached
  <2> QED BY <1>3, <2>1
<1>5. PICK L \in all(v) : BestOf(v, s) = Total(AsPlayed(v), L)
  BY <1>3
<1>6. PICK N \in all(v) : mine \notin Players(N) /\ Total(AsPlayed(v), L) <= Total(AsPlayed(v), N)
  BY <1>1, <1>5, SparedInLineups
<1> DEFINE r == AsPlayed(v)
           q == AsPlayed(w)
           A == Fits(r, s.slots)
           B == Fits(q, s.slots)
           I == Seats(s.slots)
           C == DOMAIN v
<1>7. /\ IsRoster(r) /\ Startable(r) = C /\ IsRoster(q) /\ Startable(q) = C
      /\ \A i \in C : /\ r[i].pos = v[i].pos /\ Points(r)[i] = OrZero(v[i].ros)
                      /\ q[i].pos = w[i].pos /\ Points(q)[i] = OrZero(w[i].ros)
  BY <1>2, AsPlayedIs
<1>8. Legal(A, N) /\ Cardinality(Used(N) \ Required(s.slots)) <= 0
  BY <1>7, LineupsAre
<1>9. /\ A \in SUBSET (I \X C)
      /\ \A j, c : <<j, c>> \in A <=> j \in I /\ c \in C /\ r[c].pos \in Eligible(s.slots, j)
      /\ \A j, c : <<j, c>> \in B <=> j \in I /\ c \in C /\ q[c].pos \in Eligible(s.slots, j)
  BY <1>7, FitsAre
<1> HIDE DEF A, B, I, C, r, q
<1>10. N \in SUBSET (I \X C)
  BY <1>8, <1>9 DEF Legal
<1>11. (\A c : c \in Players(N) <=> \E j : <<j, c>> \in N) /\ Players(N) \subseteq C
  BY <1>10, MembersAre
<1>12. \A c \in Players(N) : c \in C /\ w[c] = v[c]
  BY <1>2, <1>6, <1>11 DEF C
<1>13. Legal(B, N)
  <2>1. ASSUME NEW p \in N PROVE p \in B
    <3>1. p = <<p[1], p[2]>> /\ p \in A
      BY <1>8, <1>10 DEF Legal
    <3>2. <<p[1], p[2]>> \in N /\ <<p[1], p[2]>> \in A
      BY <2>1, <3>1
    <3>3. p[2] \in C /\ w[p[2]] = v[p[2]]
      BY <1>11, <1>12, <3>2
    <3> QED BY <1>7, <1>9, <3>1, <3>2, <3>3
  <2> QED BY <1>8, <2>1 DEF Legal
<1>14. N \in all(w)
  BY <1>7, <1>8, <1>13, LineupsAre DEF B, q
<1>15. Total(q, N) = Total(r, N)
  <2>1. IsFiniteSet(Players(N)) /\ \A c \in Players(N) : Points(q)[c] = Points(r)[c] /\ Points(r)[c] \in Int
    <3>1. Valued(Points(r), C)
      BY <1>7, RosterValued
    <3> QED BY <1>7, <1>11, <1>12, <3>1, SubsetsAdd DEF Valued
  <2> QED BY <2>1, SameSum DEF Total
<1>16. Total(q, N) <= BestOf(w, s) /\ Total(q, N) \in Int
  BY <1>3, <1>14 DEF q
<1> QED BY <1>3, <1>4, <1>5, <1>6, <1>15, <1>16 DEF r, w, mine

-----------------------------------------------------------------------------
(* The trades proposed.                                                    *)

\* The depth at a position is a number.
LEMMA DepthIs ==
  ASSUME NEW v, AreValues(v), NEW pos, NEW slots, AreSlots(slots)
  PROVE  Depth(v, pos, slots) \in Int
<1> DEFINE ranked == Ranked(v, pos)
           n == Len(ranked)
           m == Starters(slots, pos)
           first == Min({m + 1, n + 1})
           bench == Bench(v, pos, slots)
           f == [i \in DOMAIN v |-> OrZero(v[i].ros)]
<1>1. n \in Nat /\ ranked \in [1..n -> At(v, pos)]
  BY RankedIs DEF Charts
<1>2. m \in Nat /\ m >= 1
  BY StartersAre
<1>3. bench = SubSeq(ranked, first, n)
  BY DEF Bench
<1>4. PICK N \in Nat : v \in [1..N -> [pos : Nat, next : Int, ros : Int]]
  BY DEF AreValues
<1>5. DOMAIN v = 1..N /\ \A i \in 1..N : f[i] \in Int
  BY <1>4 DEF OrZero
<1>6. IsFiniteSet(DOMAIN v)
  BY <1>4, <1>5, FS_Interval
<1>7. Depth(v, pos, slots) = SumFunctionOnSet(f, Range(bench))
  BY DEF Depth
<1> HIDE DEF ranked, n, m, bench, f
<1>8. first \in Int /\ first >= 1
  BY <1>1, <1>2, LeastOfTwo
<1> HIDE DEF first
<1>9. \A i \in first .. n : ranked[i] \in DOMAIN v
  BY <1>1, <1>8 DEF At
<1>10. bench \in Seq(DOMAIN v)
  <2> DEFINE D == DOMAIN v
  <2>1. \A i \in first .. n : ranked[i] \in D
    BY <1>9
  <2> HIDE DEF D
  <2>2. bench \in Seq(D)
    BY <1>1, <1>3, <1>8, <2>1, SubSeqProperties
  <2> QED BY <2>2 DEF D
<1>11. Range(bench) \subseteq DOMAIN v
  <2>1. DOMAIN bench = 1..Len(bench) /\ \A i \in 1..Len(bench) : bench[i] \in DOMAIN v
    BY <1>10, LenProperties, ElementOfSeq
  <2> QED BY <2>1 DEF Range
<1>12. IsFiniteSet(Range(bench)) /\ \A i \in Range(bench) : f[i] \in Int
  BY <1>5, <1>6, <1>11, FS_Subset
<1>13. Adds(f, Range(bench))
  BY <1>12, SumIs
<1> QED BY <1>7, <1>13 DEF Adds

\* One position at most is the best to give from, and there is somebody on its bench.
LEMMA BestSurplusIs ==
  ASSUME NEW have, AreValues(have), NEW need, AreValues(need), NEW slots, AreSlots(slots),
         NEW p \in BestSurplus(have, need, slots)
  PROVE  Bench(have, p, slots) # <<>> /\ \A q \in BestSurplus(have, need, slots) : q = p
<1> DEFINE margin(q) == Depth(have, q, slots) - Depth(need, q, slots)
<1>1. ASSUME NEW q \in BestSurplus(have, need, slots)
      PROVE  /\ q \in Nat /\ Depth(have, q, slots) > 0 /\ margin(q) \in Int
             /\ \A o \in BestSurplus(have, need, slots) :
                  o # q => margin(q) > margin(o) \/ (margin(q) = margin(o) /\ q > o)
  <2>1. q \in {have[i].pos : i \in DOMAIN have} /\ Depth(have, q, slots) > 0
    BY DEF BestSurplus
  <2>2. q \in Nat
    <3>1. PICK n \in Nat : have \in [1..n -> [pos : Nat, next : Int, ros : Int]]
      BY DEF AreValues
    <3> QED BY <2>1, <3>1
  <2>3. margin(q) \in Int
    BY DepthIs
  <2>4. \A o \in BestSurplus(have, need, slots) :
          o # q => margin(q) > margin(o) \/ (margin(q) = margin(o) /\ q > o)
    BY DEF BestSurplus
  <2> QED BY <2>1, <2>2, <2>3, <2>4
<1> HIDE DEF margin
<1>2. ASSUME NEW q \in BestSurplus(have, need, slots) PROVE q = p
  <2>1. /\ q \in Nat /\ p \in Nat /\ margin(q) \in Int /\ margin(p) \in Int
        /\ p # q => margin(q) > margin(p) \/ (margin(q) = margin(p) /\ q > p)
        /\ q # p => margin(p) > margin(q) \/ (margin(p) = margin(q) /\ p > q)
    BY <1>1
  <2> QED BY <2>1
<1>3. Bench(have, p, slots) # <<>>
  BY <1>1, BenchIs
<1> QED BY <1>2, <1>3

\* The first on the bench is one of the roster.
LEMMA BenchPlayerIs ==
  ASSUME NEW v, AreValues(v), NEW pos, NEW slots, AreSlots(slots), Bench(v, pos, slots) # <<>>
  PROVE  LET i == Head(Bench(v, pos, slots))
         IN i \in DOMAIN v /\ v[i] \in [pos : Nat, next : Int, ros : Int]
<1> DEFINE i == Head(Bench(v, pos, slots))
<1>1. Len(Ranked(v, pos)) > Starters(slots, pos) /\ i = Ranked(v, pos)[Starters(slots, pos) + 1]
  BY BenchIs
<1>2. Len(Ranked(v, pos)) \in Nat /\ Ranked(v, pos) \in [1..Len(Ranked(v, pos)) -> At(v, pos)]
  BY RankedIs DEF Charts
<1>3. Starters(slots, pos) \in Nat
  BY StartersAre
<1>4. i \in DOMAIN v
  <2>1. Starters(slots, pos) + 1 \in 1..Len(Ranked(v, pos))
    BY <1>1, <1>2, <1>3
  <2>2. i \in At(v, pos)
    BY <1>1, <1>2, <2>1
  <2> QED BY <2>2 DEF At
<1> HIDE DEF i
<1>5. PICK n \in Nat : v \in [1..n -> [pos : Nat, next : Int, ros : Int]]
  BY DEF AreValues
<1> QED BY <1>4, <1>5 DEF i

\* What a swap is.
IsSwap(d, f, ours, theirs, slots) ==
  \E give, get :
    /\ Bench(ours, give, slots) # <<>> /\ Bench(theirs, get, slots) # <<>>
    /\ d.with = f /\ d.gives = Head(Bench(ours, give, slots))
    /\ d.receives = Head(Bench(theirs, get, slots)) /\ d.gain \in Int

\* A swap is of the first on the benches of two sides, and there is one with a franchise
\* at most.
LEMMA SwapIs ==
  ASSUME NEW ours, AreValues(ours), NEW theirs, AreValues(theirs), NEW slots, AreSlots(slots),
         NEW f, NEW limits, NEW d \in Swap(f, ours, theirs, slots, limits)
  PROVE  /\ IsSwap(d, f, ours, theirs, slots)
         /\ \A e \in Swap(f, ours, theirs, slots, limits) : e = d
<1> DEFINE P == BestSurplus(ours, theirs, slots)
           Q == BestSurplus(theirs, ours, slots)
           D(p, q) == Deal(f, ours, theirs, p, q, slots)
<1>1. \A e \in Swap(f, ours, theirs, slots, limits) : \E p \in P, q \in Q : e = D(p, q)
  BY DEF Swap
<1>2. PICK p \in P, q \in Q : d = D(p, q)
  BY <1>1
<1>3. /\ Bench(ours, p, slots) # <<>> /\ \A o \in P : o = p
      /\ Bench(theirs, q, slots) # <<>> /\ \A o \in Q : o = q
  BY BestSurplusIs
<1>4. \A e \in Swap(f, ours, theirs, slots, limits) : e = d
  <2> HIDE DEF P, Q, D
  <2> QED BY <1>1, <1>2, <1>3
<1> DEFINE mine == Head(Bench(ours, p, slots))
           yours == Head(Bench(theirs, q, slots))
           gain == StartingGain(ours, slots, q, theirs[yours].ros, p, ours[mine].ros)
<1>5. d = [with |-> f, gives |-> mine, receives |-> yours, gain |-> gain,
           theirs |-> StartingGain(theirs, slots, p, ours[mine].ros, q, theirs[yours].ros)]
  BY <1>2 DEF Deal
<1>6. gain \in Int
  <2>1. ours[mine] \in [pos : Nat, next : Int, ros : Int] /\ theirs[yours] \in [pos : Nat, next : Int, ros : Int]
    BY <1>3, BenchPlayerIs
  <2>2. ours[mine].ros \in Int /\ theirs[yours].ros \in Int
    BY <2>1
  <2> HIDE DEF mine, yours
  <2> QED BY <2>2 DEF StartingGain
<1> HIDE DEF mine, yours, gain
<1>7. d.with = f /\ d.gives = mine /\ d.receives = yours /\ d.gain = gain
  BY <1>5
<1>8. IsSwap(d, f, ours, theirs, slots)
  BY <1>3, <1>6, <1>7 DEF IsSwap, mine, yours
<1> QED BY <1>4, <1>8

\* What is proposed to a franchise is the swap with it.
LEMMA ProposedAre ==
  ASSUME NEW s, AreSlots(s.slots), NEW late, NEW ours, AreValues(ours), NEW n \in Nat, NEW others,
         DOMAIN others = 1..n, \A f \in 1..n : AreValues(others[f]),
         NEW limits, limits.proposals \in Nat
  PROVE  LET ideas == Trades(s, late, ours, others, limits).ideas
         IN \A k \in DOMAIN ideas :
              \E f \in 1..n : IsSwap(ideas[k], f, ours, others[f], s.slots)
<1> DEFINE Swaps(f) == Swap(f, ours, others[f], s.slots, limits)
           deals == UNION {Swaps(f) : f \in 1..n}
           best == InOrder(deals, LAMBDA d, e : d.gain > e.gain \/ (d.gain = e.gain /\ d.with < e.with))
           ideas == Trades(s, late, ours, others, limits).ideas
           m == Min({limits.proposals, Len(best)})
           Over(d, e) == d.gain > e.gain \/ (d.gain = e.gain /\ d.with < e.with)
           D == {x \in deals \X deals : Over(x[1], x[2])}
           Of(t) == \A k, l \in DOMAIN t : k < l => Over(t[k], t[l])
<1>1. ideas = <<>> \/ ideas = SubSeq(best, 1, m)
  BY DEF Trades
<1>2. \A d \in deals : \E f \in 1..n : d \in Swaps(f)
  OBVIOUS
<1>3. \A f \in 1..n : \A d \in Swaps(f) : /\ IsSwap(d, f, ours, others[f], s.slots)
                                          /\ \A e \in Swaps(f) : e = d
  BY SwapIs
<1> HIDE DEF Swaps, deals
<1>4. ASSUME NEW d \in deals PROVE d.with \in 1..n /\ d.gain \in Int
  BY <1>2, <1>3 DEF IsSwap
<1>5. ASSUME NEW d \in deals, NEW e \in deals, d.with = e.with PROVE d = e
  <2>1. PICK f \in 1..n : d \in Swaps(f)
    BY <1>2
  <2>2. PICK g \in 1..n : e \in Swaps(g)
    BY <1>2
  <2>3. f = g
    BY <1>3, <1>5, <2>1, <2>2 DEF IsSwap
  <2> QED BY <1>3, <2>1, <2>2, <2>3
<1>6. IsFiniteSet(deals)
  <2> DEFINE w == [d \in deals |-> d.with]
  <2>1. w \in Injection(deals, 1..n)
    BY <1>4, <1>5 DEF Injection, IsInjective
  <2>2. IsFiniteSet(1..n)
    BY FS_Interval
  <2> HIDE DEF w
  <2> QED BY <2>1, <2>2, FS_Injection
<1>7. \A d, e \in deals : <<d, e>> \in D <=> Over(d, e)
  OBVIOUS
<1>8. Ranks(D, deals)
  <2>1. ASSUME NEW d \in deals, NEW e \in deals, d # e PROVE Over(d, e) \/ Over(e, d)
    <3>1. d.with # e.with
      BY <1>5, <2>1
    <3> QED BY <1>4, <3>1
  <2>2. ASSUME NEW d \in deals, NEW e \in deals, NEW x \in deals, Over(d, e), Over(e, x)
        PROVE  Over(d, x)
    BY <1>4, <2>2
  <2>3. ASSUME NEW d \in deals PROVE ~Over(d, d)
    BY <1>4
  <2> HIDE DEF D, Over
  <2> QED BY <1>7, <2>1, <2>2, <2>3 DEF Ranks
<1> HIDE DEF D
<1>9. ASSUME NEW t \in [1..Cardinality(deals) -> deals] PROVE Of(t) <=> Sorted(D, deals, t)
  <2> HIDE DEF Over
  <2> QED BY <1>7 DEF Sorted
<1>10. \E t \in [1..Cardinality(deals) -> deals] : Of(t)
  <2> HIDE DEF Of
  <2> QED BY <1>6, <1>8, <1>9, OneOrder
<1>11. best = CHOOSE t \in [1..Cardinality(deals) -> deals] : Of(t)
  BY DEF InOrder
<1> HIDE DEF best, Of, Over
<1>12. best \in [1..Cardinality(deals) -> deals]
  BY <1>10, <1>11
<1>13. Cardinality(deals) \in Nat
  BY <1>6, FS_CardinalityType
<1>14. best \in Seq(deals)
  BY <1>12, <1>13, SeqDef
<1>15. Len(best) \in Nat /\ \A k \in 1..Len(best) : best[k] \in deals
  BY <1>14, LenProperties, ElementOfSeq
<1>16. m = IF limits.proposals <= Len(best) THEN limits.proposals ELSE Len(best)
  BY <1>15, LeastOfTwo
<1>17. m \in Nat /\ m <= Len(best)
  BY <1>15, <1>16
<1> HIDE DEF m
<1>18. SubSeq(best, 1, m) \in Seq(deals)
  BY <1>15, <1>17, SubSeqProperties
<1> HIDE DEF ideas
<1>19. ideas \in Seq(deals)
  BY <1>1, <1>18, EmptySeq
<1>20. ASSUME NEW k \in DOMAIN ideas PROVE \E f \in 1..n : IsSwap(ideas[k], f, ours, others[f], s.slots)
  <2>1. ideas[k] \in deals
    BY <1>19, LenProperties, ElementOfSeq
  <2> QED BY <1>2, <1>3, <2>1
<1> QED BY <1>20 DEF ideas

\* The swap leaves neither side with a worse lineup.
Sparing(d, ours, theirs, s) ==
  /\ BestOf([ours EXCEPT ![d.gives] = theirs[d.receives]], s) >= BestOf(ours, s)
  /\ BestOf([theirs EXCEPT ![d.receives] = ours[d.gives]], s) >= BestOf(theirs, s)

\* So it costs neither side any of its best lineup.
LEMMA SwapSpares ==
  ASSUME NEW ours, AreValues(ours), NEW theirs, AreValues(theirs),
         NEW s, AreSlots(s.slots), s.starters \in Int, SingleSlots(s.slots),
         Extra(s.slots, s.starters) = 0, NEW f, NEW d, IsSwap(d, f, ours, theirs, s.slots)
  PROVE  Sparing(d, ours, theirs, s)
<1>1. PICK give, get :
        /\ Bench(ours, give, s.slots) # <<>> /\ Bench(theirs, get, s.slots) # <<>>
        /\ d.gives = Head(Bench(ours, give, s.slots))
        /\ d.receives = Head(Bench(theirs, get, s.slots))
  BY DEF IsSwap
<1>2. /\ ours[d.gives] \in [pos : Nat, next : Int, ros : Int]
      /\ theirs[d.receives] \in [pos : Nat, next : Int, ros : Int]
  BY <1>1, BenchPlayerIs
<1>3. BestOf([ours EXCEPT ![d.gives] = theirs[d.receives]], s) >= BestOf(ours, s)
  BY <1>1, <1>2, BenchCostsNothing
<1>4. BestOf([theirs EXCEPT ![d.receives] = ours[d.gives]], s) >= BestOf(theirs, s)
  BY <1>1, <1>2, BenchCostsNothing
<1> QED BY <1>3, <1>4 DEF Sparing

-----------------------------------------------------------------------------
(* The analyses.                                                           *)

Answers ==
  {"none", "blocked", "unready", "same", "nothing", "made", "accept", "reject", "counter"}

IsAnalysis(a) ==
  /\ a.at \in {"idle", "settings", "work", "done"}
  /\ a.at # "done" => a.answer = "none"
  /\ a.answer \in Answers /\ (a.made # <<>> <=> a.answer \in {"made", "accept", "reject"})
  /\ IsLeague(a.settings)
  /\ a = [at |-> a.at, kind |-> a.kind, settings |-> a.settings, lost |-> a.lost,
          submitted |-> a.submitted, answer |-> a.answer, made |-> a.made]

Facts ==
  /\ IsLeague(league) /\ \A l \in world.site : IsLeague(l)
  /\ world.roster \in Rosters /\ world.free \in Rosters

Sound == NoSwapIsMissed /\ BidsFitTheBudget /\ AdviceHasItsFacts

AnalysisInv == Facts /\ IsAnalysis(analysis) /\ Sound

\* What says nothing is sound.
LEMMA SilenceIsSound ==
  ASSUME analysis'.answer \notin {"same", "made", "nothing"} PROVE Sound'
BY DEF Sound, NoSwapIsMissed, BidsFitTheBudget, AdviceHasItsFacts, Made

\* Sound is about the world and the analysis alone.
LEMMA SettledStaysSound ==
  ASSUME Sound, UNCHANGED <<world, analysis>> PROVE Sound'
<1>1. NoSwapIsMissed'
  BY DEF Sound, NoSwapIsMissed, Ours
<1>2. BidsFitTheBudget'
  BY DEF Sound, BidsFitTheBudget, Made
<1>3. AdviceHasItsFacts'
  BY DEF Sound, AdviceHasItsFacts, Made, Slots
<1> QED BY <1>1, <1>2, <1>3 DEF Sound

LEMMA NoSettingsAre == IsLeague(NoSettings)
<1>1. /\ NoSettings.slots = <<>> /\ NoSettings.waiver = "unknown"
      /\ {NoSettings.budget, NoSettings.starters} \subseteq Int
      /\ {NoSettings.deadline, NoSettings.stored} \subseteq BOOLEAN
  BY DEF NoSettings, NoValue, Unknown
<1>2. <<>> \in Seq([eligible : SUBSET Nat, min : Nat, max : Int]) /\ DOMAIN <<>> = {}
  OBVIOUS
<1> QED BY <1>1, <1>2 DEF IsLeague

LEMMA IdleIs == IsAnalysis(Idle) /\ Idle.answer = "none" /\ Idle.kind = "none"
<1>1. IsLeague(NoSettings)
  BY NoSettingsAre
<1> HIDE DEF NoSettings
<1> QED BY <1>1 DEF IsAnalysis, Idle, Answers

LEMMA AnalysisInit == Init => AnalysisInv
<1> SUFFICES ASSUME Init PROVE AnalysisInv
  OBVIOUS
<1>1. PICK group \in Cases : \E c \in group : world = c.world /\ league = c.league
  BY DEF Init
<1>2. PICK c \in group : world = c.world /\ league = c.league
  BY <1>1
<1>3. /\ IsLeague(c.league) /\ \A l \in c.world.site : IsLeague(l)
      /\ {c.world.roster, c.world.free} \subseteq Rosters
  BY AnalysesAssumption
<1>4. analysis = Idle
  BY DEF Init
<1>5. Facts
  BY <1>2, <1>3 DEF Facts
<1>6. Sound
  <2>1. analysis.answer = "none"
    BY <1>4, IdleIs
  <2> QED BY <2>1 DEF Sound, NoSwapIsMissed, BidsFitTheBudget,
                      AdviceHasItsFacts, Made
<1> QED BY <1>4, <1>5, <1>6, IdleIs DEF AnalysisInv

LEMMA SyncKeepsAnalyses == ASSUME AnalysisInv, Sync \/ UNCHANGED vars PROVE AnalysisInv'
<1>1. UNCHANGED <<world, analysis>>
  BY DEF Sync, StoreSettings, SetGate, AbortSync, vars
<1>2. IsLeague(league)'
  <2>1. league' = league \/ league' \in world.site
    BY DEF Sync, StoreSettings, SetGate, AbortSync, vars
  <2> QED BY <2>1 DEF AnalysisInv, Facts, IsLeague
<1>3. Facts'
  BY <1>1, <1>2 DEF AnalysisInv, Facts
<1> QED BY <1>1, <1>3, SettledStaysSound DEF AnalysisInv

\* A step of the analysis that stores nothing new about the world.
LEMMA FactsStay == ASSUME AnalysisInv, UNCHANGED <<world, league>> PROVE Facts'
BY DEF AnalysisInv, Facts

Replied(a, answer, made) == [a EXCEPT !.at = "done", !.answer = answer, !.made = made]

LEMMA RepliedIs ==
  ASSUME NEW a, IsAnalysis(a), NEW answer \in Answers, NEW made, NEW b,
         made # <<>> <=> answer \in {"made", "accept", "reject"}, b = Replied(a, answer, made)
  PROVE  /\ IsAnalysis(b) /\ b.kind = a.kind /\ b.settings = a.settings
         /\ b.answer = answer /\ b.made = made
<1>1. a = [at |-> a.at, kind |-> a.kind, settings |-> a.settings, lost |-> a.lost,
           submitted |-> a.submitted, answer |-> a.answer, made |-> a.made]
  BY DEF IsAnalysis
<1>2. IsLeague(a.settings)
  BY DEF IsAnalysis
<1>3. b = [at |-> "done", kind |-> a.kind, settings |-> a.settings, lost |-> a.lost,
           submitted |-> a.submitted, answer |-> answer, made |-> made]
  BY <1>1 DEF Replied
<1> QED BY <1>2, <1>3 DEF IsAnalysis

LEMMA ReadGateKeeps == ASSUME AnalysisInv, NEW kind \in Kinds, ReadGate(kind) PROVE AnalysisInv'
<1>1. /\ analysis' = IF kind \in gates
                     THEN [Idle EXCEPT !.at = "done", !.kind = kind, !.answer = "blocked"]
                     ELSE [Idle EXCEPT !.at = "settings", !.kind = kind]
      /\ UNCHANGED <<world, league>>
  BY DEF ReadGate, syncing
<1>2. IsLeague(NoSettings)
  BY NoSettingsAre
<1> HIDE DEF NoSettings
<1>3. IsAnalysis(analysis') /\ analysis'.answer \in {"blocked", "none"}
  BY <1>1, <1>2 DEF Idle, IsAnalysis, Answers
<1> QED BY <1>1, <1>3, SilenceIsSound, FactsStay DEF AnalysisInv

LEMMA ReadSettingsKeeps == ASSUME AnalysisInv, ReadSettings PROVE AnalysisInv'
<1> DEFINE b == analysis'
<1>1. analysis.at = "settings" /\ UNCHANGED <<world, league>>
  BY DEF ReadSettings, syncing
<1>2. \/ b = [analysis EXCEPT !.at = "work", !.settings = league]
      \/ b = Replied(analysis, "unready", <<>>)
  BY DEF ReadSettings, Answered, Replied
<1>3. IsAnalysis(analysis) /\ IsLeague(league)
  BY DEF AnalysisInv, Facts
<1>4. CASE b = [analysis EXCEPT !.at = "work", !.settings = league]
  <2>1. b = [at |-> "work", kind |-> analysis.kind, settings |-> league, lost |-> analysis.lost,
             submitted |-> analysis.submitted, answer |-> analysis.answer, made |-> analysis.made]
    BY <1>3, <1>4 DEF IsAnalysis
  <2> HIDE DEF b
  <2>2. analysis.answer = "none"
    BY <1>1, <1>3 DEF IsAnalysis
  <2>3. IsAnalysis(b) /\ b.answer = "none"
    BY <1>3, <2>1, <2>2 DEF IsAnalysis
  <2> QED BY <1>1, <2>3, SilenceIsSound, FactsStay DEF AnalysisInv, b
<1>5. CASE b = Replied(analysis, "unready", <<>>)
  <2>1. IsAnalysis(b) /\ b.answer = "unready"
    BY <1>3, <1>5, RepliedIs DEF Answers
  <2> QED BY <1>1, <2>1, SilenceIsSound, FactsStay DEF AnalysisInv
<1> QED BY <1>2, <1>4, <1>5

LEMMA ReturnKeeps == ASSUME AnalysisInv, Return PROVE AnalysisInv'
<1>1. analysis' = Idle /\ UNCHANGED <<world, league>>
  BY DEF Return, syncing
<1>2. IsAnalysis(analysis') /\ analysis'.answer = "none"
  BY <1>1, IdleIs
<1> QED BY <1>1, <1>2, SilenceIsSound, FactsStay DEF AnalysisInv

LEMMA AnalyseOfferKeeps == ASSUME AnalysisInv, AnalyseOffer PROVE AnalysisInv'
<1> DEFINE reply == Verdict(Ours, Offer, analysis.settings.slots, Limits)
           made == IF reply = "counter" THEN <<>> ELSE << reply >>
<1>1. /\ analysis' = Replied(analysis, reply, made)
      /\ UNCHANGED <<world, league>>
  BY DEF AnalyseOffer, Answered, Replied, syncing
<1>2. reply \in {"accept", "reject", "counter"}
  BY DEF Verdict
<1> HIDE DEF reply
<1>3. reply \in Answers /\ (made # <<>> <=> reply \in {"made", "accept", "reject"})
  BY <1>2 DEF Answers
<1> HIDE DEF made
<1>4. IsAnalysis(analysis)
  BY DEF AnalysisInv
<1>5. IsAnalysis(analysis') /\ analysis'.answer = reply
  BY <1>1, <1>3, <1>4, RepliedIs
<1> QED BY <1>1, <1>2, <1>5, SilenceIsSound, FactsStay DEF AnalysisInv

\* What a proposal answers.
LEMMA ProposeIs ==
  ASSUME AnalysisInv, NEW result, Propose({result}),
         result.blocks # {} => result.ideas = <<>>
  PROVE  /\ Facts' /\ UNCHANGED world
         /\ IsAnalysis(analysis)' /\ analysis'.kind = analysis.kind
         /\ analysis'.settings = analysis.settings /\ analysis'.made = result.ideas
         /\ analysis'.answer \in {"made", "nothing"} => result.blocks = {}
         /\ analysis'.answer = "made" => result.ideas # <<>>
<1> DEFINE answer == IF result.blocks # {} THEN "blocked"
                     ELSE IF result.ideas = <<>> THEN "nothing" ELSE "made"
<1>1. analysis' = Replied(analysis, answer, result.ideas) /\ UNCHANGED <<world, league>>
  BY DEF Propose, Answered, Replied, syncing
<1>2. /\ answer \in {"made", "nothing"} => result.blocks = {}
      /\ answer = "made" => result.ideas # <<>>
      /\ result.ideas # <<>> => answer = "made"
      /\ answer \in {"blocked", "nothing", "made"}
  OBVIOUS
<1> HIDE DEF answer
<1>3. /\ IsAnalysis(analysis) /\ answer \in Answers
      /\ result.ideas # <<>> <=> answer \in {"made", "accept", "reject"}
  BY <1>2 DEF AnalysisInv, Answers
<1>4. /\ IsAnalysis(analysis') /\ analysis'.kind = analysis.kind
      /\ analysis'.settings = analysis.settings /\ analysis'.made = result.ideas
      /\ analysis'.answer = answer
  <2> DEFINE ideas == result.ideas
  <2>1. analysis' = Replied(analysis, answer, ideas)
    BY <1>1
  <2>2. ideas # <<>> <=> answer \in {"made", "accept", "reject"}
    BY <1>3
  <2> HIDE DEF ideas
  <2>3. /\ IsAnalysis(analysis') /\ analysis'.kind = analysis.kind
        /\ analysis'.settings = analysis.settings /\ analysis'.made = ideas
        /\ analysis'.answer = answer
    BY <1>3, <2>1, <2>2, RepliedIs
  <2> QED BY <2>3 DEF ideas
<1>5. Facts'
  BY <1>1, FactsStay
<1> QED BY <1>1, <1>2, <1>4, <1>5

LEMMA AnalyseTradesKeeps ==
  ASSUME AnalysisInv, NEW late \in BOOLEAN, AnalyseTrades(late) PROVE AnalysisInv'
<1> DEFINE others == [f \in DOMAIN world.others |-> Values(world.others[f], world.week)]
           result == Trades(analysis.settings, late, Ours, others, Limits)
<1>1. analysis.kind = "trades" /\ Propose({result})
  BY DEF AnalyseTrades
<1>2. /\ ~analysis.settings.deadline => result.blocks # {}
      /\ result.blocks # {} => result.ideas = <<>>
  <2> DEFINE none == [ideas |-> <<>>, blocks |-> {}]
  <2>1. /\ [none EXCEPT !.blocks = {"deadline"}].blocks # {}
        /\ [none EXCEPT !.blocks = {"deadline"}].ideas = <<>>
        /\ none.blocks = {} /\ \A x : [none EXCEPT !.ideas = x].blocks = {}
    OBVIOUS
  <2>2. ~analysis.settings.deadline => Window(analysis.settings, late) = "unknown"
    BY DEF Window
  <2>3. ~analysis.settings.deadline =>
          result = [none EXCEPT !.blocks = {"deadline"}]
    BY <2>2, Zenon DEF Trades
  <2>4. \/ result = [none EXCEPT !.blocks = {"deadline"}]
        \/ result = none
        \/ \E x : result = [none EXCEPT !.ideas = x]
    BY Zenon DEF Trades
  <2> HIDE DEF result, none
  <2> QED BY <2>1, <2>3, <2>4
<1> HIDE DEF result
<1>3. /\ Facts' /\ IsAnalysis(analysis)' /\ analysis'.kind = "trades"
      /\ analysis'.settings = analysis.settings
      /\ analysis'.answer \in {"made", "nothing"} => result.blocks = {}
  BY <1>1, <1>2, ProposeIs
<1>4. Sound'
  BY <1>2, <1>3 DEF Sound, NoSwapIsMissed, BidsFitTheBudget,
                    AdviceHasItsFacts, Made, Slots
<1> QED BY <1>3, <1>4 DEF AnalysisInv

LEMMA AnalyseLineupKeeps ==
  ASSUME AnalysisInv, NEW lost \in SUBSET Feeds, NEW submitted \in {{}, world.submitted},
         NEW ilp \in BOOLEAN, AnalyseLineup(lost, submitted, ilp)
  PROVE  AnalysisInv'
<1> DEFINE slots == analysis.settings.slots
           all == Solutions(AsSeen(lost), slots, analysis.settings.starters, ilp)
<1>1. analysis.at = "work" /\ analysis.kind = "lineup" /\ UNCHANGED <<world, league>>
  BY DEF AnalyseLineup, syncing
<1>2. PICK lineup \in all :
        analysis' = [analysis EXCEPT !.at = "done", !.lost = lost, !.submitted = submitted,
          !.answer = IF lineup = Refused THEN "blocked"
                     ELSE IF Matches(lineup, submitted, lost) THEN "same" ELSE "made",
          !.made = IF lineup = Refused \/ Matches(lineup, submitted, lost) THEN <<>>
                   ELSE <<[lineup |-> lineup, solver |-> IF ilp THEN "ilp" ELSE "greedy",
                           urgent |-> Shouted(submitted, lost) # {}]>>]
  BY DEF AnalyseLineup
<1>3. slots = <<>> => lineup = Refused
  <2>1. slots = <<>> => all = {Refused}
    BY DEF Solutions
  <2> HIDE DEF all
  <2> QED BY <2>1
<1> DEFINE answer == IF lineup = Refused THEN "blocked"
                     ELSE IF Matches(lineup, submitted, lost) THEN "same" ELSE "made"
           urgent == Shouted(submitted, lost) # {}
           solver == IF ilp THEN "ilp" ELSE "greedy"
           made == IF lineup = Refused \/ Matches(lineup, submitted, lost) THEN <<>>
                   ELSE <<[lineup |-> lineup, solver |-> solver, urgent |-> urgent]>>
<1> HIDE DEF all
<1>4. answer = "made" => slots # <<>>
  BY <1>3
<1>5. answer \in {"blocked", "same", "made"} /\ (made # <<>> <=> answer = "made")
  OBVIOUS
<1>6. IsAnalysis(analysis)
  BY DEF AnalysisInv
<1>7. analysis' = [at |-> "done", kind |-> analysis.kind, settings |-> analysis.settings,
                   lost |-> lost, submitted |-> submitted, answer |-> answer, made |-> made]
  <2>1. analysis = [at |-> analysis.at, kind |-> analysis.kind, settings |-> analysis.settings,
                    lost |-> analysis.lost, submitted |-> analysis.submitted,
                    answer |-> analysis.answer, made |-> analysis.made]
    BY <1>6 DEF IsAnalysis
  <2>2. analysis' = [analysis EXCEPT !.at = "done", !.lost = lost, !.submitted = submitted,
                                     !.answer = answer, !.made = made]
    BY <1>2
  <2> HIDE DEF answer, made
  <2> QED BY <2>1, <2>2
<1> HIDE DEF answer, made
<1>8. IsAnalysis(analysis)'
  BY <1>5, <1>6, <1>7 DEF IsAnalysis, Answers
<1>9. AdviceHasItsFacts'
  BY <1>1, <1>4, <1>7 DEF AdviceHasItsFacts, Made, Slots
<1>10. NoSwapIsMissed' /\ BidsFitTheBudget'
  BY <1>1, <1>7 DEF NoSwapIsMissed, BidsFitTheBudget, Made
<1> QED BY <1>1, <1>8, <1>9, <1>10, FactsStay DEF AnalysisInv, Sound

\* NoSwapIsMissed and BidsFitTheBudget, part by part, as facts about a list of ideas.
Wanted(ours, free) ==
  {i \in DOMAIN free : /\ Known(free[i].next) /\ free[i].next >= Limits.floor
     /\ \E d \in DOMAIN ours : /\ ours[d].pos = free[i].pos /\ Known(ours[d].next)
                               /\ free[i].next - ours[d].next >= Limits.delta}

MissesNone(ours, free, ideas) ==
  \A i \in Wanted(ours, free) \ {ideas[k].add : k \in DOMAIN ideas} :
    /\ Len(ideas) >= Limits.most
    /\ \A k \in DOMAIN ideas : OrZero(free[ideas[k].add].next) >= free[i].next

Pays(add, drop) ==
  /\ add.pos = drop.pos /\ Known(drop.next)
  /\ \/ Known(add.next) /\ add.next - drop.next >= Limits.delta
     \/ Known(add.ros) /\ Known(drop.ros) /\ add.ros - drop.ros >= Limits.season

AllPay(ours, free, ideas) ==
  \A k \in DOMAIN ideas : Pays(free[ideas[k].add], ours[ideas[k].drop])

Affordable(s, ideas) ==
  \A j, k \in DOMAIN ideas :
    IF s.waiver # "bbid" THEN ideas[k].bid = NoValue
    ELSE /\ 0 <= ideas[k].bid /\ ideas[k].bid <= Max({s.budget, 0})
         /\ ideas[k].bid = 0 => s.budget <= 0
         /\ s.budget > 100 /\ Limits.percent < 100 => ideas[k].bid < s.budget
         /\ j < k => ideas[j].bid >= ideas[k].bid

\* What a waiver analysis claims misses no swap and bids within the budget.
LEMMA ClaimsAreSound ==
  ASSUME NEW s, IsLeague(s), NEW r \in Rosters, NEW f \in Rosters, NEW w,
         s.waiver \in {"fcfs", "bbid"}, NEW claims, NEW ideas,
         claims = Claims(Values(r, w), Values(f, w), Limits),
         s.waiver = "bbid" /\ claims # <<>> => Known(s.budget),
         ideas = [k \in DOMAIN claims |->
                   [add |-> claims[k].add, drop |-> claims[k].drop,
                    bid |-> IF s.waiver # "bbid" THEN NoValue
                            ELSE Bid(s.budget, k - 1, Len(claims), Limits.percent)]]
  PROVE  /\ MissesNone(Values(r, w), Values(f, w), ideas)
         /\ AllPay(Values(r, w), Values(f, w), ideas)
         /\ Affordable(s, ideas)
<1> DEFINE ours == Values(r, w)
           free == Values(f, w)
           n == Len(claims)
           worthy == Worthy(ours, free, Limits)
<1>1. /\ Limits.floor \in Int /\ Limits.delta \in Int /\ NoValue < Limits.delta
      /\ Limits.most \in Nat /\ Limits.percent \in Nat
  BY AnalysesAssumption
<1>2. n \in Nat /\ DOMAIN claims = 1..n
  <2>1. Len(claims) \in Nat /\ DOMAIN claims = 1..Len(claims)
    BY <1>1, ClaimsAre
  <2> QED BY <2>1
<1>3. /\ \A k \in DOMAIN claims : /\ claims[k].add \in worthy
                                  /\ claims[k].drop = Replaced(ours, free[claims[k].add])
      /\ \A i \in worthy \ {claims[k].add : k \in DOMAIN claims} :
           /\ Len(claims) >= Limits.most
           /\ \A k \in DOMAIN claims : OrZero(free[claims[k].add].next) >= OrZero(free[i].next)
  BY <1>1, BestAreClaimed
<1>4. Wanted(ours, free) \subseteq worthy
  <2> SUFFICES ASSUME NEW i \in Wanted(ours, free) PROVE i \in worthy
    OBVIOUS
  <2>1. PICK d \in DOMAIN ours : /\ ours[d].pos = free[i].pos /\ Known(ours[d].next)
                                 /\ free[i].next - ours[d].next >= Limits.delta
    BY DEF Wanted
  <2>2. i \in DOMAIN free /\ Known(free[i].next) /\ free[i].next >= Limits.floor
    BY DEF Wanted
  <2> QED BY <1>1, <2>1, <2>2, WantedIsWorthy
<1>5. \A i \in worthy : Pays(free[i], ours[Replaced(ours, free[i])])
  BY WorthySwaps DEF Pays
<1> DEFINE bid(k) == Bid(s.budget, k - 1, n, Limits.percent)
<1>6. DOMAIN ideas = 1..n /\ Len(ideas) = n
  BY <1>2
<1>7. \A k \in 1..n : /\ ideas[k].add = claims[k].add /\ ideas[k].drop = claims[k].drop
                      /\ ideas[k].bid = IF s.waiver # "bbid" THEN NoValue ELSE bid(k)
  BY <1>2
<1> HIDE DEF bid, n, worthy, ours, free
<1>8. {ideas[k].add : k \in DOMAIN ideas} = {claims[k].add : k \in DOMAIN claims}
  BY <1>2, <1>6, <1>7
<1>9. ASSUME NEW i \in Wanted(ours, free) \ {ideas[k].add : k \in DOMAIN ideas}
      PROVE  /\ Len(ideas) >= Limits.most
             /\ \A k \in DOMAIN ideas : OrZero(free[ideas[k].add].next) >= free[i].next
  <2>1. /\ Len(claims) >= Limits.most
        /\ \A k \in DOMAIN claims : OrZero(free[claims[k].add].next) >= OrZero(free[i].next)
    BY <1>3, <1>4, <1>8
  <2>2. OrZero(free[i].next) = free[i].next
    BY DEF Wanted, OrZero
  <2> QED BY <1>2, <1>6, <1>7, <2>1, <2>2 DEF n
<1>10. ASSUME NEW k \in DOMAIN ideas PROVE Pays(free[ideas[k].add], ours[ideas[k].drop])
  <2>1. ideas[k].add \in worthy /\ ideas[k].drop = Replaced(ours, free[ideas[k].add])
    BY <1>2, <1>3, <1>6, <1>7
  <2> QED BY <1>5, <2>1
<1>11. ASSUME NEW j \in DOMAIN ideas, NEW k \in DOMAIN ideas, s.waiver = "bbid"
       PROVE  /\ 0 <= ideas[k].bid /\ ideas[k].bid <= Max({s.budget, 0})
              /\ ideas[k].bid = 0 => s.budget <= 0
              /\ s.budget > 100 /\ Limits.percent < 100 => ideas[k].bid < s.budget
              /\ j < k => ideas[j].bid >= ideas[k].bid
  <2>1. claims # <<>>
    BY <1>2, <1>6, <1>11
  <2>2. Known(s.budget) /\ s.budget \in Int
    BY <1>11, <2>1 DEF IsLeague
  <2>3. j \in 1..n /\ k \in 1..n
    BY <1>6
  <2>4. /\ 0 <= bid(k) /\ bid(k) <= Max({s.budget, 0})
        /\ bid(k) = 0 => s.budget <= 0
        /\ s.budget > 100 /\ Limits.percent < 100 => bid(k) < s.budget
        /\ j < k => bid(j) >= bid(k)
    BY <1>1, <1>2, <2>2, <2>3, BidsAreRight DEF bid
  <2> QED BY <1>7, <1>11, <2>3, <2>4
<1>12. ASSUME NEW k \in DOMAIN ideas, s.waiver # "bbid" PROVE ideas[k].bid = NoValue
  BY <1>6, <1>7, <1>12
<1>13. MissesNone(ours, free, ideas) /\ AllPay(ours, free, ideas)
  BY <1>9, <1>10 DEF MissesNone, AllPay
<1>14. Affordable(s, ideas)
  BY <1>11, <1>12 DEF Affordable
<1> QED BY <1>13, <1>14 DEF ours, free

LEMMA AnalyseWaiversKeeps == ASSUME AnalysisInv, AnalyseWaivers PROVE AnalysisInv'
<1> DEFINE s == analysis.settings
           f == world.free
           w == world.week
           claims == Claims(Ours, Values(f, w), Limits)
           result == Waivers(s, Ours, Values(f, w), Limits)
           ideas == [k \in DOMAIN claims |->
                      [add |-> claims[k].add, drop |-> claims[k].drop,
                       bid |-> IF s.waiver # "bbid" THEN NoValue
                               ELSE Bid(s.budget, k - 1, Len(claims), Limits.percent)]]
<1>1. analysis.kind = "waivers" /\ Propose({result})
  BY DEF AnalyseWaivers
<1>2. /\ IsLeague(s) /\ world.roster \in Rosters /\ f \in Rosters /\ Limits.most \in Nat
      /\ Ours = Values(world.roster, w)
  BY AnalysesAssumption DEF AnalysisInv, Facts, IsAnalysis, Ours
<1>3. IF result.blocks # {} THEN result.ideas = <<>>
      ELSE \/ s.waiver = "none" /\ result.ideas = <<>>
           \/ /\ s.waiver \in {"fcfs", "bbid"}
              /\ s.waiver = "bbid" /\ claims # <<>> => Known(s.budget)
              /\ result.ideas = ideas
  BY <1>2, WaiversAre
<1> HIDE DEF result
<1>4. /\ Facts' /\ UNCHANGED world
      /\ IsAnalysis(analysis)' /\ analysis'.kind = "waivers"
      /\ analysis'.settings = s /\ analysis'.made = result.ideas
      /\ analysis'.answer \in {"made", "nothing"} => result.blocks = {}
      /\ analysis'.answer = "made" => result.ideas # <<>>
  BY <1>1, <1>3, ProposeIs
<1>5. CASE analysis'.answer \notin {"made", "nothing"}
  BY <1>4, <1>5 DEF AnalysisInv, Sound, NoSwapIsMissed, BidsFitTheBudget, AdviceHasItsFacts, Made
<1>6. CASE analysis'.answer \in {"made", "nothing"} /\ s.waiver = "none"
  <2>1. result.ideas = <<>> /\ analysis'.answer = "nothing"
    BY <1>3, <1>4, <1>6
  <2> QED BY <1>4, <1>6, <2>1
       DEF AnalysisInv, Sound, NoSwapIsMissed, BidsFitTheBudget, AdviceHasItsFacts, Made
<1>7. CASE analysis'.answer \in {"made", "nothing"} /\ s.waiver # "none"
  <2>1. /\ s.waiver \in {"fcfs", "bbid"}
        /\ s.waiver = "bbid" /\ claims # <<>> => Known(s.budget)
        /\ analysis'.made = ideas
    BY <1>3, <1>4, <1>7
  <2>2. AdviceHasItsFacts'
    <3>1. analysis'.answer = "made" => claims # <<>>
      <4>1. claims = <<>> => ideas = <<>>
        OBVIOUS
      <4> QED BY <1>4, <2>1, <4>1
    <3> HIDE DEF claims, ideas
    <3> QED BY <1>4, <2>1, <3>1 DEF AdviceHasItsFacts, Made
  <2>3. /\ MissesNone(Ours, Values(f, w), ideas) /\ AllPay(Ours, Values(f, w), ideas)
        /\ Affordable(s, ideas)
    <3>1. claims = Claims(Values(world.roster, w), Values(f, w), Limits)
      BY <1>2
    <3>2. ideas = [k \in DOMAIN claims |->
                    [add |-> claims[k].add, drop |-> claims[k].drop,
                     bid |-> IF s.waiver # "bbid" THEN NoValue
                             ELSE Bid(s.budget, k - 1, Len(claims), Limits.percent)]]
      OBVIOUS
    <3> HIDE DEF claims, ideas
    <3> QED BY <1>2, <2>1, <3>1, <3>2, ClaimsAreSound
  <2> HIDE DEF claims, ideas
  <2>4. NoSwapIsMissed'
    <3>1. Ours' = Ours /\ Values(world.free, world.week)' = Values(f, w)
      BY <1>4 DEF Ours
    <3>2. NoSwapIsMissed' <=>
            (/\ analysis'.kind = "waivers" /\ analysis'.answer \in {"made", "nothing"}
             /\ analysis'.settings.waiver # "none"
             => /\ MissesNone(Ours', Values(world.free, world.week)', analysis'.made)
                /\ AllPay(Ours', Values(world.free, world.week)', analysis'.made))
      BY Zenon DEF NoSwapIsMissed, MissesNone, Wanted, AllPay, Pays
    <3> QED BY <2>1, <2>3, <3>1, <3>2
  <2>5. BidsFitTheBudget'
    BY <1>4, <2>1, <2>3 DEF BidsFitTheBudget, Affordable
  <2> QED BY <1>4, <2>2, <2>4, <2>5 DEF AnalysisInv, Sound
<1> QED BY <1>5, <1>6, <1>7

\* Whatever syncs fall between its steps, an analysis answers from the settings it read.
THEOREM AnalysesInductive == AnalysisInv /\ [Next]_vars => AnalysisInv'
<1> SUFFICES ASSUME AnalysisInv, [Next]_vars PROVE AnalysisInv'
  OBVIOUS
<1>1. CASE Sync \/ UNCHANGED vars
  BY <1>1, SyncKeepsAnalyses
<1>2. CASE Analyse
  BY <1>2, ReadGateKeeps, ReadSettingsKeeps, AnalyseLineupKeeps, AnalyseWaiversKeeps,
     AnalyseTradesKeeps, AnalyseOfferKeeps, ReturnKeeps DEF Analyse
<1> QED BY <1>1, <1>2 DEF Next

Recents == recent \subseteq {"waivers", "trades"}

\* The invariant holds.
LEMMA AnalysesHold == Spec => []AnalysisInv
BY AnalysisInit, AnalysesInductive, PTL DEF Spec

\* LineupIsRight, as a fact about a roster, settings and a lineup.
IsBest(cs, s, l, exact) ==
  \A m \in Lineups(cs, s.slots, Extra(s.slots, s.starters)) : AsGoodAs(cs, l, m, exact)
AllPlay(w, l, lost) ==
  \A p \in l : w.roster[p[2]].out \in {"no"} \union lost /\ Known(Week(w.roster[p[2]], w.week))

RightLineup ==
  Made("lineup") =>
    LET cs == AsSeen(analysis.lost)
        made == analysis.made[1]
    IN /\ IsBest(cs, analysis.settings, made.lineup, made.solver = "ilp" \/ NoneBelow(cs))
       /\ AllPlay(world, made.lineup, analysis.lost)

\* SilenceIsRight in the same terms.
Silent == analysis.kind = "lineup" /\ analysis.answer = "same"

NoneShouted(w, submitted, lost) ==
  \A p \in submitted : w.near => w.roster[p].out \notin Feeds \ lost

RightSilence ==
  Silent =>
    LET cs == AsSeen(analysis.lost)
        s == analysis.settings
    IN /\ \E l \in Lineups(cs, s.slots, Extra(s.slots, s.starters)) :
            Players(l) \subseteq analysis.submitted /\ IsBest(cs, s, l, NoneBelow(cs))
       /\ NoneShouted(world, analysis.submitted, analysis.lost)

\* Both say the same as their restatements, now and after a step.
LEMMA RightsAre ==
  /\ LineupIsRight <=> RightLineup
  /\ SilenceIsRight <=> RightSilence
  /\ LineupIsRight' <=> RightLineup'
  /\ SilenceIsRight' <=> RightSilence'
<1>1. LineupIsRight <=> RightLineup
  BY Zenon DEF LineupIsRight, RightLineup, IsBest, AllPlay, AsGoodAs, NoneBelow, Slots
<1>2. SilenceIsRight <=> RightSilence
  BY Zenon DEF SilenceIsRight, RightSilence, Silent, NoneShouted, IsBest, AsGoodAs, NoneBelow, Slots
<1>3. LineupIsRight' <=> RightLineup'
  BY Zenon DEF LineupIsRight, RightLineup, IsBest, AllPlay, AsGoodAs, NoneBelow, Slots
<1>4. SilenceIsRight' <=> RightSilence'
  BY Zenon DEF SilenceIsRight, RightSilence, Silent, NoneShouted, IsBest, AsGoodAs, NoneBelow, Slots
<1> QED BY <1>1, <1>2, <1>3, <1>4

\* The roster as the optimiser sees it: those who can start have a projection, and no feed
\* that was read says that they do not play.
LEMMA AsSeenIs ==
  ASSUME Facts, NEW lost \in SUBSET Feeds
  PROVE  /\ IsRoster(AsSeen(lost))
         /\ \A c \in Startable(AsSeen(lost)) :
              /\ world.roster[c].out \in {"no"} \union lost
              /\ Known(Week(world.roster[c], world.week))
<1> DEFINE r == world.roster
           n == Len(r)
           Seen(i) == [pos |-> r[i].pos, points |-> OrZero(Week(r[i], world.week)),
                       out |-> ~Known(Week(r[i], world.week)) \/ r[i].out \in Feeds \ lost]
<1>1. r \in Rosters /\ n \in Nat /\ DOMAIN r = 1..n
  BY LenProperties DEF Facts, Rosters
<1>2. ASSUME NEW i \in 1..n
      PROVE  /\ r[i].pos \in Nat /\ r[i].out \in {"no"} \union Feeds
             /\ OrZero(Week(r[i], world.week)) \in Int
  <2>1. r[i] \in [pos : Nat, out : {"no"} \union Feeds, proj : Seq(Int)]
    BY <1>1, ElementOfSeq DEF Rosters
  <2>2. r[i].pos \in Nat /\ r[i].out \in {"no"} \union Feeds /\ r[i].proj \in Seq(Int)
    BY <2>1
  <2>3. world.week \in DOMAIN r[i].proj => r[i].proj[world.week] \in Int
    BY <2>2, ElementOfSeq, LenProperties
  <2> QED BY <2>2, <2>3 DEF OrZero, Week, NoValue
<1>3. AsSeen(lost) = [i \in 1..n |-> Seen(i)]
  BY <1>1 DEF AsSeen
<1>4. \A i \in 1..n : Seen(i) \in [pos : Nat, points : Int, out : BOOLEAN]
  BY <1>2
<1>5. IsRoster(AsSeen(lost))
  <2> DEFINE Records == [pos : Nat, points : Int, out : BOOLEAN]
  <2> HIDE DEF n, Seen
  <2>1. AsSeen(lost) \in [1..n -> Records]
    BY <1>3, <1>4
  <2> HIDE DEF Records
  <2>2. AsSeen(lost) \in Seq(Records)
    BY <1>1, <2>1, SeqDef
  <2> QED BY <2>2 DEF IsRoster, Records
<1>6. ASSUME NEW c \in Startable(AsSeen(lost))
      PROVE  r[c].out \in {"no"} \union lost /\ Known(Week(r[c], world.week))
  <2>1. c \in 1..n /\ ~Seen(c).out
    BY <1>3, <1>6 DEF Startable
  <2> QED BY <1>2, <2>1
<1> QED BY <1>5, <1>6

\* The step that answers a lineup analysis answers it right, and is silent rightly.
LEMMA AnalyseLineupIsRight ==
  ASSUME AnalysisInv, NEW lost \in SUBSET Feeds, NEW submitted \in {{}, world.submitted},
         NEW ilp \in BOOLEAN, AnalyseLineup(lost, submitted, ilp)
  PROVE  RightLineup' /\ RightSilence'
<1> DEFINE s == analysis.settings
           cs == AsSeen(lost)
           all == Solutions(cs, s.slots, s.starters, ilp)
<1>1. UNCHANGED world
  BY DEF AnalyseLineup
<1>2. PICK lineup \in all :
        analysis' = [analysis EXCEPT !.at = "done", !.lost = lost, !.submitted = submitted,
          !.answer = IF lineup = Refused THEN "blocked"
                     ELSE IF Matches(lineup, submitted, lost) THEN "same" ELSE "made",
          !.made = IF lineup = Refused \/ Matches(lineup, submitted, lost) THEN <<>>
                   ELSE <<[lineup |-> lineup, solver |-> IF ilp THEN "ilp" ELSE "greedy",
                           urgent |-> Shouted(submitted, lost) # {}]>>]
  BY DEF AnalyseLineup
<1> DEFINE same == Matches(lineup, submitted, lost)
           urgent == Shouted(submitted, lost) # {}
<1> HIDE DEF same, urgent
<1>3. analysis = [at |-> analysis.at, kind |-> analysis.kind, settings |-> s,
                  lost |-> analysis.lost, submitted |-> analysis.submitted,
                  answer |-> analysis.answer, made |-> analysis.made]
  BY DEF AnalysisInv, IsAnalysis
<1>4. analysis' = [at |-> "done", kind |-> analysis.kind, settings |-> s, lost |-> lost,
                   submitted |-> submitted,
                   answer |-> IF lineup = Refused THEN "blocked" ELSE IF same THEN "same" ELSE "made",
                   made |-> IF lineup = Refused \/ same THEN <<>>
                            ELSE <<[lineup |-> lineup, solver |-> IF ilp THEN "ilp" ELSE "greedy",
                                    urgent |-> urgent]>>]
  <2>1. analysis' = [analysis EXCEPT !.at = "done", !.lost = lost, !.submitted = submitted,
          !.answer = IF lineup = Refused THEN "blocked" ELSE IF same THEN "same" ELSE "made",
          !.made = IF lineup = Refused \/ same THEN <<>>
                   ELSE <<[lineup |-> lineup, solver |-> IF ilp THEN "ilp" ELSE "greedy",
                           urgent |-> urgent]>>]
    BY <1>2 DEF same, urgent
  <2> HIDE DEF s
  <2> QED BY <1>3, <2>1 DEF s
<1>5. CASE lineup = Refused
  <2>1. analysis'.answer = "blocked"
    BY <1>4, <1>5
  <2> QED BY <2>1 DEF RightLineup, RightSilence, Silent, Made
<1>6. IsRoster(cs) /\ AreSlots(s.slots) /\ s.starters \in Int
  BY AsSeenIs DEF AnalysisInv, IsAnalysis, IsLeague, AreSlots
<1>7. ASSUME lineup # Refused
      PROVE  /\ lineup \in Lineups(cs, s.slots, Extra(s.slots, s.starters))
             /\ \A m \in Lineups(cs, s.slots, Extra(s.slots, s.starters)) :
                  AsGoodAs(cs, lineup, m, ilp \/ NoneBelow(cs))
  <2> HIDE DEF cs, s
  <2> QED BY <1>6, <1>7, SolutionsAre DEF all
<1>8. CASE lineup # Refused /\ same
  <2>1. /\ analysis'.settings = s /\ analysis'.lost = lost /\ analysis'.submitted = submitted
        /\ analysis'.answer = "same"
    BY <1>4, <1>8
  <2>2. Players(lineup) \subseteq submitted /\ NoneShouted(world, submitted, lost)
    BY <1>8 DEF same, Matches, Incoming, Shouted, NoneShouted
  <2>3. IsBest(cs, s, lineup, NoneBelow(cs))
    BY <1>7, <1>8 DEF IsBest, AsGoodAs
  <2>4. AsSeen(analysis.lost)' = cs
    BY <1>1, <2>1 DEF AsSeen
  <2>5. lineup \in Lineups(cs, s.slots, Extra(s.slots, s.starters))
    BY <1>7, <1>8
  <2> HIDE DEF cs, s
  <2>6. RightSilence'
    BY <1>1, <2>1, <2>2, <2>3, <2>4, <2>5 DEF RightSilence
  <2> QED BY <2>1, <2>6 DEF RightLineup, Made
<1>9. CASE lineup # Refused /\ ~same
  <2>1. /\ analysis'.settings = s /\ analysis'.lost = lost /\ analysis'.answer = "made"
        /\ analysis'.made[1].lineup = lineup
        /\ analysis'.made[1].solver = "ilp" <=> ilp
    BY <1>4, <1>9
  <2>2. IsBest(cs, s, lineup, ilp \/ NoneBelow(cs))
    BY <1>7, <1>9 DEF IsBest
  <2>3. AllPlay(world, lineup, lost)
    <3>1. lineup \subseteq Seats(s.slots) \X Startable(cs)
      <4>1. Legal(Fits(cs, s.slots), lineup)
        BY <1>6, <1>7, <1>9, LineupsAre
      <4> QED BY <4>1, FitsAre DEF Legal
    <3>2. \A p \in lineup : p[2] \in Startable(cs)
      BY <3>1
    <3> QED BY <3>2, AsSeenIs DEF AllPlay, AnalysisInv
  <2>4. AsSeen(analysis.lost)' = cs
    BY <1>1, <2>1 DEF AsSeen
  <2> HIDE DEF cs, s
  <2>5. RightLineup'
    BY <1>1, <2>1, <2>2, <2>3, <2>4 DEF RightLineup
  <2> QED BY <2>1, <2>5 DEF RightSilence, Silent
<1> QED BY <1>5, <1>8, <1>9

\* What an analysis of another kind answers, or none.
LEMMA OthersKeepLineups ==
  ASSUME AnalysisInv, RightLineup, RightSilence,
         \/ Sync \/ UNCHANGED vars
         \/ \E kind \in Kinds : ReadGate(kind)
         \/ ReadSettings \/ AnalyseWaivers \/ AnalyseOffer \/ Return
         \/ \E late \in BOOLEAN : AnalyseTrades(late)
  PROVE  RightLineup' /\ RightSilence'
<1>1. CASE Sync \/ UNCHANGED vars
  <2>1. UNCHANGED <<world, analysis>>
    BY <1>1 DEF Sync, StoreSettings, SetGate, AbortSync, vars
  <2>2. AsSeen(analysis.lost)' = AsSeen(analysis.lost)
    BY <2>1 DEF AsSeen
  <2>3. RightLineup'
    BY <2>1, <2>2 DEF RightLineup, Made
  <2>4. RightSilence'
    BY <2>1, <2>2 DEF RightSilence, Silent
  <2> QED BY <2>3, <2>4
<1>2. CASE ~Made("lineup")' /\ ~Silent'
  BY <1>2 DEF RightLineup, RightSilence
<1>3. IsAnalysis(analysis)
  BY DEF AnalysisInv
<1>4. ASSUME NEW kind \in Kinds, ReadGate(kind) PROVE ~Made("lineup")' /\ ~Silent'
  <2>1. analysis'.answer \in {"blocked", "none"}
    BY <1>4 DEF ReadGate, Idle
  <2> QED BY <2>1 DEF Made, Silent
<1>5. ASSUME ReadSettings PROVE ~Made("lineup")' /\ ~Silent'
  <2> DEFINE b == analysis'
  <2>1. \/ b = [analysis EXCEPT !.at = "work", !.settings = league] /\ analysis.answer = "none"
        \/ b = Replied(analysis, "unready", <<>>)
    BY <1>3, <1>5 DEF ReadSettings, Answered, Replied, IsAnalysis
  <2> HIDE DEF b
  <2>2. CASE b = [analysis EXCEPT !.at = "work", !.settings = league] /\ analysis.answer = "none"
    <3>1. b = [at |-> "work", kind |-> analysis.kind, settings |-> league, lost |-> analysis.lost,
               submitted |-> analysis.submitted, answer |-> "none", made |-> analysis.made]
      BY <1>3, <2>2 DEF IsAnalysis
    <3> QED BY <3>1 DEF Made, Silent, b
  <2>3. CASE b = Replied(analysis, "unready", <<>>)
    <3>1. b.answer = "unready"
      BY <1>3, <2>3, RepliedIs DEF Answers
    <3> QED BY <3>1 DEF Made, Silent, b
  <2> QED BY <2>1, <2>2, <2>3
<1>6. ASSUME AnalyseOffer PROVE ~Made("lineup")' /\ ~Silent'
  <2> DEFINE reply == Verdict(Ours, Offer, analysis.settings.slots, Limits)
             made == IF reply = "counter" THEN <<>> ELSE << reply >>
  <2>1. analysis' = Replied(analysis, reply, made)
    BY <1>6 DEF AnalyseOffer, Answered, Replied
  <2>2. reply \in {"accept", "reject", "counter"}
    BY DEF Verdict
  <2> HIDE DEF reply
  <2>3. reply \in Answers /\ (made # <<>> <=> reply \in {"made", "accept", "reject"})
    BY <2>2 DEF Answers
  <2> HIDE DEF made
  <2>4. analysis'.answer = reply
    BY <1>3, <2>1, <2>3, RepliedIs
  <2> QED BY <2>2, <2>4 DEF Made, Silent
<1>7. ASSUME Return PROVE ~Made("lineup")' /\ ~Silent'
  BY <1>7, IdleIs DEF Return, Made, Silent
<1>8. ASSUME AnalyseWaivers \/ \E late \in BOOLEAN : AnalyseTrades(late) PROVE ~Made("lineup")' /\ ~Silent'
  <2>1. analysis.kind \in {"waivers", "trades"} /\ \E result : Propose({result})
    BY <1>8, Zenon DEF AnalyseWaivers, AnalyseTrades
  <2>2. analysis'.kind = analysis.kind
    <3>1. PICK answer, made : analysis' = [analysis EXCEPT !.at = "done", !.answer = answer, !.made = made]
      BY <2>1, Zenon DEF Propose, Answered
    <3>2. analysis = [at |-> analysis.at, kind |-> analysis.kind, settings |-> analysis.settings,
                      lost |-> analysis.lost, submitted |-> analysis.submitted,
                      answer |-> analysis.answer, made |-> analysis.made]
      BY <1>3 DEF IsAnalysis
    <3> QED BY <3>1, <3>2
  <2> QED BY <2>1, <2>2 DEF Made, Silent
<1> QED BY <1>1, <1>2, <1>4, <1>5, <1>6, <1>7, <1>8

\* Both stay so.
LEMMA LineupAnswersHold == Spec => [](LineupIsRight /\ SilenceIsRight)
<1> DEFINE Right == LineupIsRight /\ SilenceIsRight
<1>1. Init => Right
  <2>1. Init => analysis.answer = "none"
    BY IdleIs DEF Init
  <2> QED BY <2>1 DEF LineupIsRight, SilenceIsRight, Made
<1>2. AnalysisInv /\ Right /\ [Next]_vars => Right'
  <2> SUFFICES ASSUME AnalysisInv, Right, [Next]_vars PROVE Right'
    OBVIOUS
  <2>1. RightLineup /\ RightSilence
    BY RightsAre
  <2>2. RightLineup' /\ RightSilence'
    BY <2>1, AnalyseLineupIsRight, OthersKeepLineups DEF Next, Analyse
  <2> QED BY <2>2, RightsAre
<1> QED BY AnalysesHold, <1>1, <1>2, PTL DEF Spec

\* The recommended lineup is a legal one of the players known to be available, and
\* of the highest total: the integer program's by its objective, the greedy
\* solver's because no other is better wherever it takes the slots on (lineup.py),
\* for any roster, projections, slots and number of starters.
THEOREM LineupsAreRight == Spec => []LineupIsRight
BY LineupAnswersHold, PTL

\* Where the bot says that the submitted lineup matches the best one, the players
\* submitted can be seated for as much as any legal lineup scores, and close to the lock
\* no feed that was read says that one of them does not play (context.py), for any
\* roster, projections, slots and number of starters.
THEOREM SilencesAreRight == Spec => []SilenceIsRight
BY LineupAnswersHold, PTL

\* What is known of those whom the bot may trade with.
Traders == world.others \in Seq(Rosters)

\* It stays so, because the world is fixed.
LEMMA TradersAre == Spec => []Traders
<1>1. Init => Traders
  <2> SUFFICES ASSUME Init PROVE Traders
    OBVIOUS
  <2>1. PICK group \in Cases : \E c \in group : world = c.world
    BY DEF Init
  <2>2. PICK c \in group : world = c.world
    BY <2>1
  <2>3. c.world.others \in Seq(Rosters)
    BY AnalysesAssumption
  <2> QED BY <2>2, <2>3 DEF Traders
<1>2. [Next]_vars => UNCHANGED world
  BY DEF Next, Sync, StoreSettings, SetGate, AbortSync, Analyse, ReadGate, ReadSettings,
         AnalyseLineup, AnalyseWaivers, AnalyseTrades, AnalyseOffer, Return, Propose, vars
<1>3. Traders /\ [Next]_vars => Traders'
  BY <1>2 DEF Traders
<1> QED BY <1>1, <1>3, PTL DEF Spec

\* TradesCostNoStarter, as a fact about values and settings.
SparingTrades ==
  /\ Made("trades") /\ Extra(analysis.settings.slots, analysis.settings.starters) = 0
  /\ SingleSlots(analysis.settings.slots)
  => \A k \in DOMAIN analysis.made :
       Sparing(analysis.made[k], Ours, Values(world.others[analysis.made[k].with], world.week),
               analysis.settings)

\* The property says the same, now and after a step.
LEMMA TradesAre ==
  /\ TradesCostNoStarter <=> SparingTrades
  /\ TradesCostNoStarter' <=> SparingTrades'
<1>1. TradesCostNoStarter <=> SparingTrades
  BY Zenon DEF TradesCostNoStarter, SparingTrades, SingleSlots, Sparing, SeasonBest, BestOf, Totals,
               AsPlayed, Slots
<1>2. TradesCostNoStarter' <=> SparingTrades'
  BY Zenon DEF TradesCostNoStarter, SparingTrades, SingleSlots, Sparing, SeasonBest, BestOf, Totals,
               AsPlayed, Slots
<1> QED BY <1>1, <1>2

\* The values and settings that the steps work from.
LEMMA OursAre ==
  ASSUME AnalysisInv
  PROVE  /\ AreValues(Ours) /\ DOMAIN Ours = DOMAIN world.roster
         /\ AreSlots(analysis.settings.slots) /\ analysis.settings.starters \in Int
<1>1. world.roster \in Rosters /\ IsLeague(analysis.settings)
  BY DEF AnalysisInv, Facts, IsAnalysis
<1>2. AreValues(Ours)
  BY <1>1, ValuesFit DEF Ours
<1>3. DOMAIN Ours = DOMAIN world.roster
  BY DEF Ours, Values
<1> QED BY <1>1, <1>2, <1>3 DEF IsLeague, AreSlots

\* What proposing answers.
LEMMA ProposeAnswers ==
  ASSUME AnalysisInv, NEW results, Propose(results)
  PROVE  analysis'.kind = analysis.kind /\ analysis'.answer \in {"blocked", "nothing", "made"}
<1>1. PICK result \in results :
        Answered(IF result.blocks # {} THEN "blocked"
                 ELSE IF result.ideas = <<>> THEN "nothing" ELSE "made", result.ideas)
  BY DEF Propose
<1> DEFINE answer == IF result.blocks # {} THEN "blocked"
                     ELSE IF result.ideas = <<>> THEN "nothing" ELSE "made"
           made == result.ideas
<1>2. analysis' = [analysis EXCEPT !.at = "done", !.answer = answer, !.made = made]
  BY <1>1 DEF Answered
<1>3. answer \in {"blocked", "nothing", "made"}
  OBVIOUS
<1> HIDE DEF answer, made
<1>4. analysis = [at |-> analysis.at, kind |-> analysis.kind, settings |-> analysis.settings,
                  lost |-> analysis.lost, submitted |-> analysis.submitted,
                  answer |-> analysis.answer, made |-> analysis.made]
  BY DEF AnalysisInv, IsAnalysis
<1> QED BY <1>2, <1>3, <1>4

\* A trade analysis proposes deals that cost neither side a starter.
LEMMA AnalyseTradesSpares ==
  ASSUME AnalysisInv, Traders, NEW late \in BOOLEAN, AnalyseTrades(late) PROVE SparingTrades'
<1> DEFINE s == analysis.settings
           others == [f \in DOMAIN world.others |-> Values(world.others[f], world.week)]
           result == Trades(s, late, Ours, others, Limits)
           n == Len(world.others)
<1>1. Propose({result})
  BY DEF AnalyseTrades
<1>2. result.blocks # {} => result.ideas = <<>>
  <2> DEFINE none == [ideas |-> <<>>, blocks |-> {}]
  <2>1. /\ [none EXCEPT !.blocks = {"deadline"}].ideas = <<>>
        /\ none.blocks = {} /\ \A x : [none EXCEPT !.ideas = x].blocks = {}
    OBVIOUS
  <2> HIDE DEF none
  <2> QED BY <2>1 DEF Trades, none
<1>3. /\ n \in Nat /\ DOMAIN others = 1..n
      /\ \A f \in 1..n : AreValues(others[f])
      /\ \A f \in 1..n : others[f] = Values(world.others[f], world.week)
  <2>1. world.others \in Seq(Rosters)
    BY DEF Traders
  <2>2. n \in Nat /\ DOMAIN world.others = 1..n /\ \A f \in 1..n : world.others[f] \in Rosters
    BY <2>1, LenProperties, ElementOfSeq
  <2> QED BY <2>2, ValuesFit
<1>4. Limits.proposals \in Nat
  BY AnalysesAssumption
<1>5. AreValues(Ours) /\ AreSlots(s.slots) /\ s.starters \in Int
  BY OursAre
<1> HIDE DEF n, others, s
<1>6. \A k \in DOMAIN result.ideas : \E f \in 1..n : IsSwap(result.ideas[k], f, Ours, others[f], s.slots)
  BY <1>3, <1>4, <1>5, ProposedAre
<1> HIDE DEF result
<1>7. UNCHANGED world /\ analysis'.settings = s /\ analysis'.made = result.ideas
  BY <1>1, <1>2, ProposeIs DEF s
<1>8. ASSUME NEW k \in DOMAIN result.ideas, Extra(s.slots, s.starters) = 0, SingleSlots(s.slots)
      PROVE  Sparing(result.ideas[k], Ours, Values(world.others[result.ideas[k].with], world.week), s)
  <2>1. PICK f \in 1..n : IsSwap(result.ideas[k], f, Ours, others[f], s.slots)
    BY <1>6, <1>8
  <2>2. result.ideas[k].with = f
    BY <2>1 DEF IsSwap
  <2>3. Sparing(result.ideas[k], Ours, others[f], s)
    BY <1>3, <1>5, <1>8, <2>1, SwapSpares
  <2> QED BY <1>3, <2>2, <2>3
<1>9. Ours' = Ours
  BY <1>7 DEF Ours
<1> QED BY <1>7, <1>8, <1>9 DEF SparingTrades

\* No other step proposes a trade.
LEMMA OthersKeepDeals ==
  ASSUME AnalysisInv, SparingTrades,
         \/ Sync \/ UNCHANGED vars
         \/ \E kind \in Kinds : ReadGate(kind)
         \/ ReadSettings \/ AnalyseWaivers \/ AnalyseOffer \/ Return
         \/ \E lost \in SUBSET Feeds, submitted \in {{}, world.submitted}, ilp \in BOOLEAN :
              AnalyseLineup(lost, submitted, ilp)
  PROVE  SparingTrades'
<1>1. CASE Sync \/ UNCHANGED vars
  <2>1. UNCHANGED <<world, analysis>>
    BY <1>1 DEF Sync, StoreSettings, SetGate, AbortSync, vars
  <2>2. Ours' = Ours
    BY <2>1 DEF Ours
  <2> QED BY <2>1, <2>2 DEF SparingTrades, Made
<1>2. ASSUME ~Made("trades")' PROVE SparingTrades'
  BY <1>2 DEF SparingTrades
<1>3. analysis = [at |-> analysis.at, kind |-> analysis.kind, settings |-> analysis.settings,
                  lost |-> analysis.lost, submitted |-> analysis.submitted,
                  answer |-> analysis.answer, made |-> analysis.made] /\ IsAnalysis(analysis)
  BY DEF AnalysisInv, IsAnalysis
<1>4. ASSUME NEW kind \in Kinds, ReadGate(kind) PROVE ~Made("trades")'
  <2>1. analysis'.answer \in {"blocked", "none"}
    BY <1>4 DEF ReadGate, Idle
  <2> QED BY <2>1 DEF Made
<1>5. ASSUME ReadSettings PROVE ~Made("trades")'
  <2> DEFINE b == analysis'
  <2>1. \/ b = [analysis EXCEPT !.at = "work", !.settings = league] /\ analysis.answer = "none"
        \/ b = Replied(analysis, "unready", <<>>)
    BY <1>3, <1>5 DEF ReadSettings, Answered, Replied, IsAnalysis
  <2> HIDE DEF b
  <2>2. CASE b = [analysis EXCEPT !.at = "work", !.settings = league] /\ analysis.answer = "none"
    <3>1. b = [at |-> "work", kind |-> analysis.kind, settings |-> league, lost |-> analysis.lost,
               submitted |-> analysis.submitted, answer |-> "none", made |-> analysis.made]
      BY <1>3, <2>2
    <3> QED BY <3>1 DEF Made, b
  <2>3. CASE b = Replied(analysis, "unready", <<>>)
    <3>1. b.answer = "unready"
      BY <1>3, <2>3, RepliedIs DEF Answers
    <3> QED BY <3>1 DEF Made, b
  <2> QED BY <2>1, <2>2, <2>3
<1>6. ASSUME Return PROVE ~Made("trades")'
  BY <1>6, IdleIs DEF Return, Made
<1>7. ASSUME AnalyseWaivers PROVE ~Made("trades")'
  <2>1. analysis.kind = "waivers" /\ \E results : Propose(results)
    BY <1>7, Zenon DEF AnalyseWaivers
  <2>2. analysis'.kind = analysis.kind /\ analysis'.answer \in {"blocked", "nothing", "made"}
    BY <2>1, ProposeAnswers
  <2> QED BY <2>1, <2>2 DEF Made
<1>8. ASSUME NEW lost \in SUBSET Feeds, NEW submitted \in {{}, world.submitted}, NEW ilp \in BOOLEAN,
             AnalyseLineup(lost, submitted, ilp)
      PROVE  ~Made("trades")'
  <2> DEFINE all == Solutions(AsSeen(lost), analysis.settings.slots, analysis.settings.starters, ilp)
  <2>1. PICK lineup \in all :
          analysis' = [analysis EXCEPT !.at = "done", !.lost = lost, !.submitted = submitted,
            !.answer = IF lineup = Refused THEN "blocked"
                       ELSE IF Matches(lineup, submitted, lost) THEN "same" ELSE "made",
            !.made = IF lineup = Refused \/ Matches(lineup, submitted, lost) THEN <<>>
                     ELSE <<[lineup |-> lineup, solver |-> IF ilp THEN "ilp" ELSE "greedy",
                             urgent |-> Shouted(submitted, lost) # {}]>>]
    BY <1>8 DEF AnalyseLineup
  <2> DEFINE answer == IF lineup = Refused THEN "blocked"
                       ELSE IF Matches(lineup, submitted, lost) THEN "same" ELSE "made"
             made == IF lineup = Refused \/ Matches(lineup, submitted, lost) THEN <<>>
                     ELSE <<[lineup |-> lineup, solver |-> IF ilp THEN "ilp" ELSE "greedy",
                             urgent |-> Shouted(submitted, lost) # {}]>>
             b == analysis'
  <2>2. b = [analysis EXCEPT !.at = "done", !.lost = lost, !.submitted = submitted,
                                                 !.answer = answer, !.made = made]
    BY <2>1
  <2> HIDE DEF answer, made, b
  <2>3. b.kind = analysis.kind
    BY <1>3, <2>2
  <2>4. analysis.kind = "lineup"
    BY <1>8 DEF AnalyseLineup
  <2> QED BY <2>3, <2>4 DEF Made, b
<1>9. ASSUME AnalyseOffer PROVE ~Made("trades")'
  <2> DEFINE reply == Verdict(Ours, Offer, analysis.settings.slots, Limits)
             made == IF reply = "counter" THEN <<>> ELSE << reply >>
  <2>1. analysis' = Replied(analysis, reply, made)
    BY <1>9 DEF AnalyseOffer, Answered, Replied
  <2>2. reply \in {"accept", "reject", "counter"}
    BY DEF Verdict
  <2> HIDE DEF reply
  <2>3. reply \in Answers /\ (made # <<>> <=> reply \in {"made", "accept", "reject"})
    BY <2>2 DEF Answers
  <2> HIDE DEF made
  <2>4. analysis'.answer = reply
    BY <1>3, <2>1, <2>3, RepliedIs
  <2> QED BY <2>2, <2>4 DEF Made
<1> QED BY <1>1, <1>2, <1>4, <1>5, <1>6, <1>7, <1>8, <1>9

\* A proposed trade gives from the bench only, so neither side's best lineup is worse
\* for it, in a league of single positions whose optional seats stay empty (trades.py),
\* for any rosters, projections, slots and number of franchises.
THEOREM TradesKeepLineups == Spec => []TradesCostNoStarter
<1>1. Init => TradesCostNoStarter
  <2>1. Init => analysis.answer = "none"
    BY IdleIs DEF Init
  <2>2. analysis.answer = "none" => SparingTrades
    BY DEF SparingTrades, Made
  <2> QED BY <2>1, <2>2, TradesAre
<1>2. AnalysisInv /\ Traders /\ TradesCostNoStarter /\ [Next]_vars => TradesCostNoStarter'
  <2> SUFFICES ASSUME AnalysisInv, Traders, TradesCostNoStarter, [Next]_vars
               PROVE  TradesCostNoStarter'
    OBVIOUS
  <2>1. SparingTrades
    BY TradesAre
  <2>2. SparingTrades'
    BY <2>1, AnalyseTradesSpares, OthersKeepDeals DEF Next, Analyse
  <2> QED BY <2>2, TradesAre
<1> QED BY AnalysesHold, TradersAre, <1>1, <1>2, PTL DEF Spec

\* Every reachable state of the analyses is of the declared types.
THEOREM AnalysesTypeCorrect == Spec => []TypeOK
<1>1. Init => Recents
  BY DEF Init, Recents
<1>2. Recents /\ [Next]_vars => Recents'
  BY DEF Recents, Next, Sync, StoreSettings, SetGate, AbortSync, Analyse, ReadGate, ReadSettings,
         AnalyseLineup, AnalyseWaivers, AnalyseTrades, AnalyseOffer, Return, Propose, vars
<1>3. ASSUME Recents, GatesInv, AnalysisInv PROVE TypeOK
  <2>1. gates \subseteq Features /\ \A p \in Syncers : sync[p] \in Seq(GateChange)
    BY <1>3 DEF GatesInv, GatesTyped
  <2>2. \A c \in GateChange : c.feature \in Features
    BY DEF GateChange
  <2>3. \A p \in Syncers : \A k \in DOMAIN sync[p] : sync[p][k].feature \in Features
    BY <2>1, <2>2
  <2> QED BY <1>3, <2>1, <2>3 DEF Recents, AnalysisInv, IsAnalysis, Answers, TypeOK
<1> QED BY GatesInit, GatesInductive, AnalysesHold, <1>1, <1>2, <1>3, PTL DEF Spec

\* The waiver analysis misses no free agent who improves on a rostered player by the
\* threshold but for better ones, and proposes no swap that is not worth it
\* (waivers.py), for rosters and lists of free agents of any length.
THEOREM SwapsAreFound == Spec => []NoSwapIsMissed
<1>1. AnalysisInv => NoSwapIsMissed
  BY DEF AnalysisInv, Sound
<1> QED BY AnalysesHold, <1>1, PTL

\* Bids are within the budget, and below it where there is more than a dollar and the
\* configuration asks for less than all; they fall from claim to claim (waivers.py), for
\* any budget, any number of claims and any aggressiveness.
THEOREM BidsFit == Spec => []BidsFitTheBudget
<1>1. AnalysisInv => BidsFitTheBudget
  BY DEF AnalysisInv, Sound
<1> QED BY AnalysesHold, <1>1, PTL

\* Nothing is recommended from settings that lack what the advice stands on, wherever
\* the steps of any number of syncs fall among those of the analysis.
THEOREM AdviceIsFounded == Spec => []AdviceHasItsFacts
<1>1. AnalysisInv => AdviceHasItsFacts
  BY DEF AnalysisInv, Sound
<1> QED BY AnalysesHold, <1>1, PTL
=============================================================================
