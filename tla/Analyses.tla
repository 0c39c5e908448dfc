------------------------------ MODULE Analyses ------------------------------
(***************************************************************************)
(* The bot's analyses over what is stored, while config syncs change the   *)
(* settings and the gates under them.  An analysis reads the gate of its   *)
(* feature, then the settings, and works from those; a sync stores the     *)
(* settings and then sets the gates one by one, each in a transaction of   *)
(* its own.  The dashboard's worker and the scheduler may both be syncing. *)
(*                                                                         *)
(*   world      the rosters, the projections, what is asked for and what   *)
(*              settings the site may report: fixed in a behaviour         *)
(*   league     the settings of the last sync, if there was one            *)
(*   gates      the features that a sync has blocked                       *)
(*   recent     the features whose last analysis could not proceed         *)
(*   sync       of each syncer: the gates it has still to set, and how     *)
(*   syncs      how many syncs are still to come                           *)
(*   overlapped whether a sync ever began during another (auxiliary)       *)
(*   analysis   where the analysis under way stands, what it has read and  *)
(*              what it answers                                            *)
(***************************************************************************)
EXTENDS Lineup, Trades

CONSTANTS
  Syncers,   \* who may run a sync
  Cases,     \* the situations to start from, [league, world, syncs], in groups
  Limits     \* the thresholds of the configuration file

NoSettings == [slots |-> <<>>, starters |-> Unknown, waiver |-> "unknown",
               budget |-> NoValue, deadline |-> FALSE, rules |-> FALSE, stored |-> FALSE]

Features == {"scoring", "lineup", "waivers", "trades"}
Kinds == {"lineup", "waivers", "trades", "offers"}
Feeds == {"injuries", "schedule"}

IsLeague(l) ==
  /\ l.waiver \in {"bbid", "fcfs", "order", "none", "unknown"}
  /\ {l.budget, l.starters} \subseteq Int /\ {l.deadline, l.stored} \subseteq BOOLEAN
  /\ l.slots \in Seq([eligible : SUBSET Nat, min : Nat, max : Int])
  /\ \A i \in DOMAIN l.slots : IsFiniteSet(l.slots[i].eligible)
Rosters == Seq([pos : Nat, out : {"no"} \union Feeds, proj : Seq(Int)])

ASSUME AnalysesAssumption ==
  /\ {Limits.floor, Limits.delta, Limits.season} \subseteq Int /\ NoValue < Limits.delta
  /\ {Limits.most, Limits.percent, Limits.proposals} \subseteq Nat
  /\ \A group \in Cases : \A c \in group :
       /\ c.syncs \in Nat /\ IsLeague(c.league) /\ \A l \in c.world.site : IsLeague(l) /\ l.stored
       /\ c.world.asked \subseteq Kinds /\ {c.world.roster, c.world.free} \subseteq Rosters
       /\ c.world.others \in Seq(Rosters)

VARIABLES world, league, gates, recent, sync, syncs, overlapped, analysis

vars == <<world, league, gates, recent, sync, syncs, overlapped, analysis>>
syncing == <<league, gates, sync, syncs, overlapped>>

Idle == [at |-> "idle", kind |-> "none", settings |-> NoSettings,
         lost |-> {}, submitted |-> {}, answer |-> "none", made |-> <<>>]

-----------------------------------------------------------------------------
(* A sync.                                                                 *)

\* What cannot run under these settings.
Gates(s) ==
  {f \in Features :
     \/ f = "scoring" /\ ~s.rules
     \/ f = "lineup" /\ s.slots = <<>>
     \/ f = "waivers" /\ (s.waiver = "unknown" \/ (s.waiver = "bbid" /\ ~Known(s.budget)))
     \/ f = "trades" /\ ~s.deadline}

\* Of the gates those that close, or those that open, in the code's order.
Switched(s, on) ==
  LET one(f) == IF (f \in Gates(s)) = on THEN <<[feature |-> f, on |-> on]>> ELSE <<>>
  IN one("scoring") \o one("lineup") \o one("waivers") \o one("trades")

\* Slip: the gates whose cause is gone are left as they are.
BlocksOnly(s) == Switched(s, TRUE)

\* First the gates that close, then those that open.
Changes(s) == Switched(s, TRUE) \o Switched(s, FALSE)

StoreSettings(p) ==
  /\ sync[p] = <<>> /\ syncs > 0
  /\ \E l \in world.site :
       league' = l /\ sync' = [sync EXCEPT ![p] = Changes(l)]
  /\ syncs' = syncs - 1
  /\ overlapped' = (overlapped \/ \E q \in Syncers : sync[q] # <<>>)
  /\ UNCHANGED <<world, gates, recent, analysis>>

SetGate(p) ==
  /\ sync[p] # <<>>
  /\ LET c == Head(sync[p])
     IN gates' = IF c.on THEN gates \union {c.feature} ELSE gates \ {c.feature}
  /\ sync' = [sync EXCEPT ![p] = Tail(@)]
  /\ UNCHANGED <<world, league, recent, syncs, overlapped, analysis>>

\* Killed, or a storage error: the rest of the gates stay as they are.
AbortSync(p) ==
  /\ sync[p] # <<>>
  /\ sync' = [sync EXCEPT ![p] = <<>>]
  /\ overlapped' = TRUE
  /\ UNCHANGED <<world, league, gates, recent, syncs, analysis>>

-----------------------------------------------------------------------------
(* An analysis.                                                            *)

Answered(answer, made) ==
  analysis' = [analysis EXCEPT !.at = "done", !.answer = answer, !.made = made]

\* There is no gate before the answers to offers.
ReadGate(kind) ==
  /\ analysis.at = "idle" /\ kind \in world.asked
  /\ analysis' = IF kind \in gates
                 THEN [Idle EXCEPT !.at = "done", !.kind = kind, !.answer = "blocked"]
                 ELSE [Idle EXCEPT !.at = "settings", !.kind = kind]
  /\ UNCHANGED <<world, syncing, recent>>

\* The settings, the owner's franchise, the week, and whether anything is stored.
ReadSettings ==
  /\ analysis.at = "settings"
  /\ \/ /\ league.stored
        /\ analysis' = [analysis EXCEPT !.at = "work", !.settings = league]
     \/ Answered("unready", <<>>)
  /\ UNCHANGED <<world, syncing, recent>>

\* As the optimiser is given the roster when feeds are lost: a player without
\* a projection is no candidate.
AsSeen(lost) ==
  LET points(i) == Week(world.roster[i], world.week)
  IN [i \in DOMAIN world.roster |->
       [pos |-> world.roster[i].pos, points |-> OrZero(points(i)),
        out |-> ~Known(points(i)) \/ world.roster[i].out \in Feeds \ lost]]

\* Who was submitted and is known not to play, with the lock near or unknown.
Shouted(submitted, lost) ==
  {i \in submitted : world.near /\ world.roster[i].out \in Feeds \ lost}

Matches(lineup, submitted, lost) ==
  /\ submitted # {} /\ Incoming(lineup, submitted) = {}
  /\ Shouted(submitted, lost) = {}

\* Feeds that cannot be read are taken to say that everybody plays.
AnalyseLineup(lost, submitted, ilp) ==
  /\ analysis.at = "work" /\ analysis.kind = "lineup"
  /\ \E lineup \in Solutions(AsSeen(lost), analysis.settings.slots,
                             analysis.settings.starters, ilp) :
       analysis' = [analysis EXCEPT !.at = "done", !.lost = lost, !.submitted = submitted,
         !.answer = IF lineup = Refused THEN "blocked"
                    ELSE IF Matches(lineup, submitted, lost) THEN "same" ELSE "made",
         !.made = IF lineup = Refused \/ Matches(lineup, submitted, lost) THEN <<>>
                  ELSE <<[lineup |-> lineup, solver |-> IF ilp THEN "ilp" ELSE "greedy",
                          urgent |-> Shouted(submitted, lost) # {}]>>]
  /\ UNCHANGED <<world, syncing, recent>>

Ours == Values(world.roster, world.week)

\* Why an analysis stopped is recorded, and forgotten after a clean one.
\* `results' holds its one result.
Propose(results) ==
  /\ \E result \in results :
       /\ Answered(IF result.blocks # {} THEN "blocked"
                   ELSE IF result.ideas = <<>> THEN "nothing" ELSE "made", result.ideas)
       /\ recent' = IF result.blocks = {} THEN recent \ {analysis.kind}
                    ELSE recent \union {analysis.kind}
  /\ UNCHANGED <<world, syncing>>

AnalyseWaivers ==
  /\ analysis.at = "work" /\ analysis.kind = "waivers"
  /\ world.roster # <<>> /\ world.free # <<>>
  /\ Propose({Waivers(analysis.settings, Ours, Values(world.free, world.week), Limits)})

AnalyseTrades(late) ==
  /\ analysis.at = "work" /\ analysis.kind = "trades"
  /\ Propose({Trades(analysis.settings, late, Ours,
                [f \in DOMAIN world.others |-> Values(world.others[f], world.week)], Limits)})

Offer == [world.offer EXCEPT !.receives = Values(@, world.week)]

AnalyseOffer ==
  /\ analysis.at = "work" /\ analysis.kind = "offers"
  /\ LET reply == Verdict(Ours, Offer, analysis.settings.slots, Limits)
     IN Answered(reply, IF reply = "counter" THEN <<>> ELSE << reply >>)
  /\ UNCHANGED <<world, syncing, recent>>

Return ==
  /\ analysis.at = "done"
  /\ analysis' = Idle
  /\ UNCHANGED <<world, syncing, recent>>

-----------------------------------------------------------------------------

Init ==
  /\ \E group \in Cases : \E c \in group :
       world = c.world /\ league = c.league /\ syncs = c.syncs
  /\ gates = IF league.stored THEN Gates(league) ELSE {}
  /\ recent = {} /\ sync = [p \in Syncers |-> <<>>] /\ overlapped = FALSE
  /\ analysis = Idle

Sync == \E p \in Syncers : StoreSettings(p) \/ SetGate(p) \/ AbortSync(p)

Analyse ==
  \/ \E kind \in Kinds : ReadGate(kind)
  \/ ReadSettings
  \/ \E lost \in SUBSET Feeds, submitted \in {{}, world.submitted}, ilp \in BOOLEAN :
       AnalyseLineup(lost, submitted, ilp)
  \/ AnalyseWaivers
  \/ \E late \in BOOLEAN : AnalyseTrades(late)
  \/ AnalyseOffer
  \/ Return

Next == Sync \/ Analyse

Spec == Init /\ [][Next]_vars

-----------------------------------------------------------------------------
(* Properties.                                                             *)

Made(kind) == analysis.kind = kind /\ analysis.answer = "made"
Slots == analysis.settings.slots

\* The state is of the declared types.
TypeOK ==
  /\ gates \subseteq Features /\ recent \subseteq {"waivers", "trades"}
  /\ \A p \in Syncers : \A k \in DOMAIN sync[p] : sync[p][k].feature \in Features
  /\ analysis.at \in {"idle", "settings", "work", "done"}
  /\ analysis.answer \in {"none", "blocked", "unready", "same", "nothing", "made",
                          "accept", "reject", "counter"}
  /\ analysis.made # <<>> <=> analysis.answer \in {"made", "accept", "reject"}

\* Whichever solver found it, the recommended lineup scores as much as any
\* legal lineup of the players it knew to be available (lineup.py:8-14,
\* 161-164); but the greedy solver fills a seat also with a player projected
\* below zero, so where there is one it is measured by the lineups that fill
\* as many seats.  And nobody in it is out or on bye, unless the feed that
\* says so could not be read, or lacks a projection (lineup.py:22-24).
LineupIsRight ==
  Made("lineup") =>
    LET cs == AsSeen(analysis.lost)
        starters == analysis.made[1].lineup
        exact == analysis.made[1].solver = "ilp" \/ \A c \in DOMAIN cs : cs[c].points >= 0
    IN /\ \A l \in Lineups(cs, Slots, Extra(Slots, analysis.settings.starters)) :
            exact \/ Cardinality(Players(l)) >= Cardinality(Players(starters)) =>
              Total(cs, l) <= Total(cs, starters)
       /\ \A p \in starters : /\ world.roster[p[2]].out \in {"no"} \union analysis.lost
                              /\ Known(Week(world.roster[p[2]], world.week))

\* When the bot says that the submitted lineup already matches the best one, it
\* does: the players submitted can be seated for as much as any legal lineup
\* scores (or any as long, where somebody is projected below zero), and close to
\* the lock none of them is known not to play (context.py:403-413).
SilenceIsRight ==
  analysis.kind = "lineup" /\ analysis.answer = "same" =>
    LET cs == AsSeen(analysis.lost)
        legal == Lineups(cs, Slots, Extra(Slots, analysis.settings.starters))
    IN /\ \E l \in legal :
            /\ Players(l) \subseteq analysis.submitted
            /\ \A m \in legal :
                 \/ \A c \in DOMAIN cs : cs[c].points >= 0
                 \/ Cardinality(Players(m)) >= Cardinality(Players(l))
                 => Total(cs, m) <= Total(cs, l)
       /\ \A p \in analysis.submitted :
            world.near => world.roster[p].out \notin Feeds \ analysis.lost

\* A free agent above the floor who improves on some rostered player of his
\* position, next week, by the threshold is proposed, unless as many are that
\* are projected no lower; and every proposed swap is worth it by one measure.
NoSwapIsMissed ==
  analysis.kind = "waivers" /\ analysis.answer \in {"made", "nothing"}
  /\ analysis.settings.waiver # "none" =>
    LET free == Values(world.free, world.week)
        ideas == analysis.made
        wanted == {i \in DOMAIN free : /\ Known(free[i].next) /\ free[i].next >= Limits.floor
                     /\ \E r \in DOMAIN Ours : /\ Ours[r].pos = free[i].pos /\ Known(Ours[r].next)
                                               /\ free[i].next - Ours[r].next >= Limits.delta}
    IN /\ \A i \in wanted \ {ideas[k].add : k \in DOMAIN ideas} :
            /\ Len(ideas) >= Limits.most
            /\ \A k \in DOMAIN ideas : OrZero(free[ideas[k].add].next) >= free[i].next
       /\ \A k \in DOMAIN ideas : LET add == free[ideas[k].add]
                                      drop == Ours[ideas[k].drop]
                                  IN /\ add.pos = drop.pos /\ Known(drop.next)
                                     /\ \/ Known(add.next) /\ add.next - drop.next >= Limits.delta
                                        \/ /\ Known(add.ros) /\ Known(drop.ros)
                                           /\ add.ros - drop.ros >= Limits.season

\* In a bidding league every claim carries a bid, of no more than the budget and
\* no more than that of a better claim; it takes the whole budget only where there
\* is no more than a dollar or the configuration asks for all of it
\* (waivers.py:82-114, 103: "never commit the whole budget to one claim").
BidsFitTheBudget ==
  Made("waivers") =>
    \A j, k \in DOMAIN analysis.made :
      LET bid == analysis.made[k].bid
          budget == analysis.settings.budget
      IN IF analysis.settings.waiver # "bbid" THEN bid = NoValue
         ELSE /\ 0 <= bid /\ bid <= Max({budget, 0})
              /\ bid = 0 => budget <= 0
              /\ budget > 100 /\ Limits.percent < 100 => bid < budget
              /\ j < k => analysis.made[j].bid >= bid

\* The best lineup for the rest of the season.
SeasonBest(values) ==
  LET cs == [i \in DOMAIN values |-> [pos |-> values[i].pos, points |-> OrZero(values[i].ros), out |-> FALSE]]
  IN Max({Total(cs, l) : l \in Lineups(cs, Slots, Extra(Slots, analysis.settings.starters))})

\* In a league without flex seats that fills no optional ones, a proposed trade
\* leaves neither side with a worse lineup for the rest of the season: what
\* each gives sits on its bench (trades.py:280-284, 345-355).
TradesCostNoStarter ==
  /\ Made("trades") /\ Extra(Slots, analysis.settings.starters) = 0
  /\ \A i \in DOMAIN Slots : Cardinality(Slots[i].eligible) = 1
  =>
    \A k \in DOMAIN analysis.made :
      LET idea == analysis.made[k]
          theirs == Values(world.others[idea.with], world.week)
      IN /\ SeasonBest([Ours EXCEPT ![idea.gives] = theirs[idea.receives]]) >= SeasonBest(Ours)
         /\ SeasonBest([theirs EXCEPT ![idea.receives] = Ours[idea.gives]]) >= SeasonBest(theirs)

\* However syncs fall between the steps of an analysis, it recommends nothing
\* from settings that lack what the advice stands on: seats, a way to claim, a
\* budget to bid from, a trade deadline.
AdviceHasItsFacts ==
  /\ Made("lineup") => Slots # <<>>
  /\ Made("waivers") => \/ analysis.settings.waiver = "fcfs"
                        \/ analysis.settings.waiver = "bbid" /\ Known(analysis.settings.budget)
  /\ Made("trades") => analysis.settings.deadline

\* When no sync is under way, the gates are those of the settings stored,
\* unless two syncs overlapped or one was cut short.
GatesFollowSettings ==
  ~overlapped /\ (\A p \in Syncers : sync[p] = <<>>) /\ league.stored => gates = Gates(league)
=============================================================================
