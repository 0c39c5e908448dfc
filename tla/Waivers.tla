------------------------------- MODULE Waivers -------------------------------
(***************************************************************************)
(* What a player is projected to be worth, and the add/drop claims the bot *)
(* proposes, as functions of the stored data.  A player is [pos, out,      *)
(* proj], proj the projection of each week stored; points are whole        *)
(* numbers, bids are in cents, aggressiveness in percent.  Confidence and  *)
(* wording are left out.                                                   *)
(***************************************************************************)
EXTENDS Rankings, FiniteSetsExt, SequencesExt

NoValue == 0 - 1000
Known(x) == x # NoValue
OrZero(x) == IF Known(x) THEN x ELSE 0

-----------------------------------------------------------------------------
(* Values.                                                                 *)

Week(player, week) == IF week \in DOMAIN player.proj THEN player.proj[week] ELSE NoValue

Covered(player, week) == {w \in DOMAIN player.proj : w >= week /\ Known(player.proj[w])}

RestOfSeason(player, week) ==
  IF Covered(player, week) = {} THEN NoValue
  ELSE SumFunctionOnSet(player.proj, Covered(player, week))

Value(player, week) ==
  [pos |-> player.pos, next |-> Week(player, week), ros |-> RestOfSeason(player, week)]

Values(players, week) == [i \in DOMAIN players |-> Value(players[i], week)]

HasValue(v) == Known(v.next) \/ Known(v.ros)

-----------------------------------------------------------------------------
(* Bids.                                                                   *)

Nearest(a, b) == (2 * a + b) \div (2 * b)

\* Slip: a dollar, whether or not there is one.
BidADollar(budget, rank, ideas, percent) ==
  IF ~Known(budget) THEN NoValue
  ELSE Max({Nearest(budget * percent * (ideas - rank), 100 * ideas), 100})

\* A part of what is left, smaller from claim to claim, at least a dollar.
Bid(budget, rank, ideas, percent) ==
  LET part == Nearest(budget * percent * (ideas - rank), 100 * ideas)
  IN IF ~Known(budget) THEN NoValue
     ELSE IF budget <= 0 THEN 0
     ELSE IF budget < 100 THEN budget
     ELSE Min({Max({part, 100}), budget})

-----------------------------------------------------------------------------
(* Claims.  A free agent and the player to drop are given by their places  *)
(* in the lists.                                                           *)

Precedes(values, measure, i, j) ==
  \/ OrZero(values[i][measure]) > OrZero(values[j][measure])
  \/ OrZero(values[i][measure]) = OrZero(values[j][measure]) /\ i < j

\* The places in S, from the highest to the lowest.
Descending(values, S, measure) == InOrder(S, LAMBDA i, j : Precedes(values, measure, i, j))

Candidates(free, limits) ==
  {i \in DOMAIN free : HasValue(free[i]) /\ OrZero(free[i].next) >= limits.floor}

Droppable(roster, v) ==
  {i \in DOMAIN roster : roster[i].pos = v.pos /\ Known(roster[i].next)}

\* The first of the lowest.
Weakest(roster, S) ==
  CHOOSE i \in S : \A j \in S \ {i} : \/ OrZero(roster[i].next) < OrZero(roster[j].next)
                                      \/ OrZero(roster[i].next) = OrZero(roster[j].next) /\ i < j

Delta(a, b) == IF Known(a) /\ Known(b) THEN a - b ELSE NoValue

\* Slip: both gains are asked for.
WorthBoth(add, drop, limits) ==
  /\ Known(Delta(add.next, drop.next)) /\ Delta(add.next, drop.next) >= limits.delta
  /\ Known(Delta(add.ros, drop.ros)) /\ Delta(add.ros, drop.ros) >= limits.season

Worth(add, drop, limits) ==
  \/ Known(Delta(add.next, drop.next)) /\ Delta(add.next, drop.next) >= limits.delta
  \/ Known(Delta(add.ros, drop.ros)) /\ Delta(add.ros, drop.ros) >= limits.season

Replaced(roster, v) == Weakest(roster, Droppable(roster, v))

\* The candidates that replace somebody and are worth it.
Worthy(roster, free, limits) ==
  {i \in Candidates(free, limits) :
     /\ Droppable(roster, free[i]) # {}
     /\ Worth(free[i], roster[Replaced(roster, free[i])], limits)}

\* The best of them; the limit is looked at after a claim, so one there is.
Claims(roster, free, limits) ==
  LET worthy == Worthy(roster, free, limits)
      first == Descending(free, worthy, "next")
  IN [k \in 1..Min({Max({limits.most, 1}), Cardinality(worthy)}) |->
        [add |-> first[k], drop |-> Replaced(roster, free[first[k]])]]

\* The claims with their bids, or why there are none.
Waivers(settings, roster, free, limits) ==
  LET claims == Claims(roster, free, limits)
      bid(k) == IF settings.waiver # "bbid" THEN NoValue
                ELSE Bid(settings.budget, k - 1, Len(claims), limits.percent)
      none == [ideas |-> <<>>, blocks |-> {}]
  IN IF settings.waiver = "unknown" THEN [none EXCEPT !.blocks = {"system"}]
     ELSE IF settings.waiver = "none" THEN none
     ELSE IF settings.waiver = "order" THEN [none EXCEPT !.blocks = {"order"}]
     ELSE IF free # <<>> /\ \A i \in DOMAIN free : ~HasValue(free[i])
          THEN [none EXCEPT !.blocks = {"unprojected"}]
     ELSE IF settings.waiver = "bbid" /\ claims # <<>> /\ ~Known(settings.budget)
          THEN [none EXCEPT !.blocks = {"budget"}]
     ELSE [none EXCEPT !.ideas = [k \in DOMAIN claims |->
             [add |-> claims[k].add, drop |-> claims[k].drop, bid |-> bid(k)]]]
=============================================================================
