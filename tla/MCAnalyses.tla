----------------------------- MODULE MCAnalyses -----------------------------
(* Instances of Analyses for TLC.  Positions 1, 2, 3: QB, RB, WR.          *)
EXTENDS Analyses

None == NoValue
Slot(eligible, min, max) == [eligible |-> eligible, min |-> min, max |-> max]

Strict == <<Slot({1}, 1, 1), Slot({2}, 1, 1)>>
Ranged == <<Slot({1}, 1, 1), Slot({2}, 1, 2)>>
Flex == <<Slot({2, 3}, 1, 1), Slot({2}, 1, 1), Slot({1}, 1, 1)>>
RangedFlex == <<Slot({2}, 1, 2), Slot({2, 3}, 1, 1)>>
Overlapping == <<Slot({1, 2}, 1, 1), Slot({2, 3}, 1, 1)>>

League(slots, starters, waiver, budget, deadline, rules) ==
  [slots |-> slots, starters |-> starters, waiver |-> waiver, budget |-> budget,
   deadline |-> deadline, rules |-> rules, stored |-> TRUE]

Player(pos, out, proj) == [pos |-> pos, out |-> out, proj |-> proj]

Nobody == [asked |-> {}, roster |-> <<>>, submitted |-> {}, free |-> <<>>, others |-> <<>>,
           offer |-> [receives |-> <<>>, gives |-> <<>>, unvalued |-> FALSE],
           week |-> 1, near |-> TRUE, site |-> {}]

Still(l, w) == [league |-> l, world |-> w, syncs |-> 0]

\* Four players of all positions, one of them perhaps out and one perhaps
\* below zero, in each structure.
LineupCases ==
  LET p(pos, i, out, points) == Player(pos, IF out[1] = i THEN out[2] ELSE "no", <<points>>)
  IN {Still(League(slots, starters, "none", None, TRUE, TRUE),
            [Nobody EXCEPT !.asked = {"lineup"}, !.submitted = {1, 3},
               !.roster = <<p(a, 1, out, 9), p(b, 2, out, 7), p(c, 3, out, 7), p(d, 4, out, out[3])>>]) :
        slots \in {Strict, Ranged, Flex, RangedFlex, Overlapping}, starters \in {Unknown, 3},
        a \in 1..3, b \in 1..3, c \in 1..3, d \in 1..3,
        out \in {<<0, "no", None>>, <<0, "no", 0 - 2>>, <<1, "injuries", None>>,
                 <<3, "schedule", 0 - 2>>}}

\* Three free agents, three players, two weeks of projections that may lack.
WaiverCases ==
  LET weeks == {<<None, None>>, <<6, 6>>, <<9, 1>>, <<None, 20>>, <<3, 12>>}
  IN {Still(League(Strict, 2, rule[1], rule[2], TRUE, TRUE),
            [Nobody EXCEPT !.asked = {"waivers"},
               !.free = <<Player(1, "no", a), Player(1, "no", b), Player(2, "no", c)>>,
               !.roster = <<Player(1, "no", d), Player(1, "no", <<4, 4>>), Player(2, "no", e)>>]) :
        rule \in {<<"fcfs", None>>, <<"bbid", 1000>>, <<"bbid", 150>>, <<"bbid", 50>>, <<"bbid", 0>>},
        a \in weeks, b \in weeks, c \in weeks, d \in weeks, e \in {<<None, None>>, <<3, 3>>}}

Four(pos, p) == <<Player(pos[1], "no", <<p[1]>>), Player(pos[2], "no", <<p[2]>>),
                  Player(pos[3], "no", <<p[3]>>), Player(pos[4], "no", <<p[4]>>)>>

\* Two franchises of four players each.
TradeCase(slots, starters, p, q) ==
  Still(League(slots, starters, "none", None, TRUE, TRUE),
        [Nobody EXCEPT !.asked = {"trades"}, !.roster = Four(<<1, 2, 2, 2>>, p),
           !.others = <<Four(<<1, 1, 2, 2>>, q)>>])

TradeCases ==
  LET points == {2, 12, 30}
      all == points \X points \X points \X points
  IN {TradeCase(Strict, 2, p, q) : p \in all, q \in all}

\* With a seat that might be filled and is not.
RangedTradeCases ==
  LET points == {2, 12, 30}
  IN {TradeCase(Ranged, Unknown, <<12, a, b, c>>, <<30, d, e, f>>) :
        a \in points, b \in points, c \in points, d \in points, e \in points, f \in points}

\* One player is offered for one or two of four, a pick perhaps with him.
OfferCases ==
  LET points == {None, 2, 12, 30}
  IN {Still(League(slots, 2, "none", None, TRUE, TRUE),
            [Nobody EXCEPT !.asked = {"offers"}, !.roster = Four(<<1, 2, 2, 3>>, p \o <<2>>),
               !.offer = [receives |-> <<Player(1, "no", <<q>>)>>, gives |-> gives, unvalued |-> u]]) :
        slots \in {Strict, Flex}, p \in points \X points \X points, q \in points,
        gives \in {<<>>, <<1>>, <<2>>, <<3>>, <<1, 2>>, <<2, 3>>}, u \in BOOLEAN}

\* Everything is asked for while two syncs bring other settings.
SyncCases ==
  LET full == League(Strict, 2, "bbid", 1000, TRUE, TRUE)
      site == {full, [full EXCEPT !.slots = <<>>, !.rules = FALSE],
               [full EXCEPT !.budget = None, !.deadline = FALSE], [full EXCEPT !.waiver = "unknown"],
               [full EXCEPT !.waiver = "order"]}
      p(pos, x) == Player(pos, "no", <<x, x>>)
      all == [Nobody EXCEPT !.asked = Kinds, !.site = site,
                  !.roster = <<p(1, 9), p(2, 9), p(2, 7)>>, !.free = <<p(1, 12)>>,
                  !.others = <<<<p(1, 9), p(1, 7), p(2, 4)>>>>,
                  !.offer = [receives |-> <<p(1, 20)>>, gives |-> <<3>>, unvalued |-> FALSE]]
  IN {[league |-> l, world |-> all, syncs |-> 2] : l \in {NoSettings, full}}

MCCases == {LineupCases, WaiverCases, TradeCases, RangedTradeCases, OfferCases, SyncCases}

MCLimits == [floor |-> 4, delta |-> 2, season |-> 8, most |-> 2, percent |-> 30,
             mutual |-> 5, proposals |-> 2, accept |-> 3]
=============================================================================
