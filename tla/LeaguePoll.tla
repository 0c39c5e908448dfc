----------------------------- MODULE LeaguePoll -----------------------------
(***************************************************************************)
(* The poll of the league's state.  The scheduler's job and the user's     *)
(* `bot poll` run it, perhaps both at once: each compares what the site    *)
(* answers with the last stored snapshot, stores what differs, and the job *)
(* analyses waivers when something changed.                                *)
(*                                                                         *)
(*   site        rosters and free agents as the site has them now          *)
(*   stored      the last snapshot of each                                 *)
(*   thisSecond  which of them were stored within the current second: a    *)
(*               snapshot is named by its second, so another one joins it  *)
(*   poller      where each poll stands, what it compared and found        *)
(*   analysed    the snapshots the last waiver analysis saw                *)
(*   excuse      the last reason why that analysis may be behind, if any   *)
(***************************************************************************)
EXTENDS Naturals, FiniteSets

CONSTANTS
  Entries,    \* a player, his franchise and his status there
  Own,        \* those of the owner's own franchise
  Agents,     \* free agents
  MaxChanges, \* bound: changes on the site
  MaxFaults   \* bound: polls cut short

ASSUME PollAssumption ==
  /\ {MaxChanges, MaxFaults} \subseteq Nat
  /\ Own \subseteq Entries /\ Entries \intersect Agents = {}

VARIABLES site, changes, faults, stored, thisSecond, poller, analysed, excuse

pollVars == <<site, changes, faults, stored, thisSecond, poller, analysed, excuse>>

Pollers == {"job", "command"}
Parts == {"rosters", "agents"}
Snapshots == [rosters : SUBSET Entries, agents : SUBSET Agents]
Away == [at |-> "idle", part |-> "rosters", before |-> {}, read |-> {}, changed |-> FALSE]

Excuses == {"none", "first", "command", "fault", "unready", "empty"}

PollTypeOK ==
  /\ {site, stored, analysed} \subseteq Snapshots
  /\ changes \in 0..MaxChanges /\ faults \in 0..MaxFaults
  /\ thisSecond \subseteq Parts
  /\ poller \in [Pollers ->
       [at : {"idle", "compare", "fetch", "save", "analyse", "read"}, part : Parts,
        before : SUBSET (Entries \union Agents),
        read : SUBSET (Entries \union Agents), changed : BOOLEAN]]
  /\ excuse \in Excuses

-----------------------------------------------------------------------------
Change ==
  /\ changes < MaxChanges
  /\ changes' = changes + 1
  /\ site' \in Snapshots
  /\ UNCHANGED <<faults, stored, thisSecond, poller, analysed, excuse>>

NextSecond ==
  /\ thisSecond # {} /\ thisSecond' = {}
  /\ UNCHANGED <<site, changes, faults, stored, poller, analysed, excuse>>

\* The transactions come first; they are recorded, and trigger nothing.
Begin(p) ==
  /\ poller[p].at = "idle"
  /\ poller' = [poller EXCEPT ![p] = [Away EXCEPT !.at = "compare"]]
  /\ UNCHANGED <<site, changes, faults, stored, thisSecond, analysed, excuse>>

\* What to compare with is read before the request is made.
Compare(p) ==
  /\ poller[p].at = "compare"
  /\ poller' = [poller EXCEPT ![p] =
       [@ EXCEPT !.at = "fetch", !.before = stored[poller[p].part]]]
  /\ UNCHANGED <<site, changes, faults, stored, thisSecond, analysed, excuse>>

Fetch(p) ==
  /\ poller[p].at = "fetch"
  /\ poller' = [poller EXCEPT ![p] =
       [@ EXCEPT !.at = "save", !.read = site[poller[p].part]]]
  /\ UNCHANGED <<site, changes, faults, stored, thisSecond, analysed, excuse>>

\* An exception or a restart: what the poll had found so far is forgotten.
Fail(p) ==
  /\ poller[p].at # "idle" /\ faults < MaxFaults
  /\ faults' = faults + 1
  /\ poller' = [poller EXCEPT ![p] = Away]
  /\ excuse' = IF poller[p].changed THEN "fault" ELSE excuse
  /\ UNCHANGED <<site, changes, stored, thisSecond, analysed>>

\* Slip: a snapshot joins the last one, whatever its second.
AlwaysJoined(part, rows) == stored[part] \union rows

\* A snapshot of no rows is no snapshot; one of the same second joins the last.
Snapshot(part, rows) ==
  IF rows = {} THEN stored[part]
  ELSE IF part \in thisSecond THEN stored[part] \union rows
  ELSE rows

\* Slip: a change of the free agents is not one.
RostersChanged(p) ==
  poller[p].changed \/ (poller[p].part = "rosters" /\ poller[p].before # {})

\* The first snapshot ever is not a change.
Changed(p) == poller[p].changed \/ poller[p].before # {}

Following(p, changed) ==
  IF poller[p].part = "rosters"
  THEN [Away EXCEPT !.at = "compare", !.part = "agents", !.changed = changed]
  ELSE IF p = "job" /\ changed THEN [Away EXCEPT !.at = "analyse", !.changed = TRUE]
  ELSE Away

Same(p) ==
  /\ poller[p].at = "save" /\ poller[p].read = poller[p].before
  /\ poller' = [poller EXCEPT ![p] = Following(p, poller[p].changed)]
  /\ UNCHANGED <<site, changes, faults, stored, thisSecond, analysed, excuse>>

Save(p) ==
  LET part == poller[p].part
      rows == poller[p].read
  IN /\ poller[p].at = "save" /\ rows # poller[p].before
     /\ stored' = [stored EXCEPT ![part] = Snapshot(part, rows)]
     /\ thisSecond' = IF rows = {} THEN thisSecond ELSE thisSecond \union {part}
     /\ poller' = [poller EXCEPT ![p] = Following(p, Changed(p))]
     /\ excuse' = IF poller[p].before = {} THEN "first"
                  ELSE IF p = "command" THEN "command" ELSE excuse
     /\ UNCHANGED <<site, changes, faults, analysed>>

\* The analysis of waivers is blocked, or does not know the league's settings, the
\* owner's franchise or the week: it reads nothing, and nobody asks it again.
Decline ==
  /\ poller["job"].at = "analyse"
  /\ poller' = [poller EXCEPT !["job"] = Away]
  /\ excuse' = "unready"
  /\ UNCHANGED <<site, changes, faults, stored, thisSecond, analysed>>

\* It reads the rosters and then the free agents, and has nothing to say when the
\* owner's own roster, or the pool, is empty.
ReadRosters ==
  /\ poller["job"].at = "analyse"
  /\ poller' = [poller EXCEPT !["job"] = [Away EXCEPT !.at = "read", !.changed = TRUE]]
  /\ analysed' = [analysed EXCEPT !.rosters = stored.rosters]
  /\ excuse' = IF stored.rosters \intersect Own = {} THEN "empty" ELSE "none"
  /\ UNCHANGED <<site, changes, faults, stored, thisSecond>>

ReadAgents ==
  /\ poller["job"].at = "read"
  /\ poller' = [poller EXCEPT !["job"] = Away]
  /\ analysed' = [analysed EXCEPT !.agents = stored.agents]
  /\ excuse' = IF stored.agents = {} THEN "empty" ELSE excuse
  /\ UNCHANGED <<site, changes, faults, stored, thisSecond>>

-----------------------------------------------------------------------------
\* Nothing is stored yet, or an earlier run of the bot has stored and analysed it.
PollInit ==
  /\ site \in Snapshots /\ changes = 0 /\ faults = 0
  /\ stored \in {[rosters |-> {}, agents |-> {}], site} /\ analysed = stored
  /\ thisSecond = {}
  /\ poller = [p \in Pollers |-> Away]
  /\ excuse = "none"

Look == Decline \/ ReadRosters \/ ReadAgents

Work(p) == Compare(p) \/ Same(p) \/ Save(p) \/ (p = "job" /\ Look)

PollNext ==
  \/ Change \/ NextSecond
  \/ \E p \in Pollers : Begin(p) \/ Fetch(p) \/ Fail(p) \/ Work(p)

PollSpec == PollInit /\ [][PollNext]_pollVars

\* The job polls again and again, and the site answers: faults are bounded.
FairSpec ==
  /\ PollSpec
  /\ WF_pollVars(NextSecond) /\ WF_pollVars(Begin("job"))
  /\ \A p \in Pollers : WF_pollVars(Fetch(p) \/ Work(p))

-----------------------------------------------------------------------------
(* Properties.                                                             *)

\* When no poll is under way, the waiver analysis has seen the snapshots that are
\* stored, or one of five reasons has come up since it last read them: a first
\* snapshot, a change that `bot poll` found, a poll that failed after it found one,
\* an analysis that declined to look, or an empty list (JobRunner.poll_state: "A
\* change is a trigger").
ChangesAreAnalysed ==
  (\A p \in Pollers : poller[p].at = "idle") => analysed = stored \/ excuse # "none"

\* Once the site stops changing the snapshots agree with it, except for a list
\* that is empty there, although polls overlap, fail, and join one another's
\* snapshot (poll_league_state).
SnapshotsConverge ==
  <>[](\A part \in Parts : stored[part] = site[part] \/ site[part] = {})
=============================================================================
