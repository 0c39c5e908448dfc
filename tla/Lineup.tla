------------------------------- MODULE Lineup -------------------------------
(***************************************************************************)
(* The lineup optimiser, as a function of a roster and the league's slots. *)
(* A roster is a sequence of candidates [pos, points, out]; a slot is      *)
(* [eligible, min, max]; a seat is a slot's number and the seat's number   *)
(* within it.  A lineup is a set of pairs of a seat and a candidate's      *)
(* number.                                                                 *)
(***************************************************************************)
EXTENDS Rankings, FiniteSetsExt

Unknown == 0 - 1
Refused == {<< <<0, 0>>, 0 >>}

-----------------------------------------------------------------------------
(* Seats.                                                                  *)

AtLeast(a, b) == IF a < b THEN b ELSE a
Low(slot) == AtLeast(slot.min, 0)
High(slot) == AtLeast(slot.max, Low(slot))

Required(slots) == UNION {{i} \X (1..Low(slots[i])) : i \in DOMAIN slots}
Optional(slots) == UNION {{i} \X (Low(slots[i]) + 1 .. High(slots[i])) : i \in DOMAIN slots}
Seats(slots) == Required(slots) \union Optional(slots)

Eligible(slots, seat) == slots[seat[1]].eligible
Listed(s, t) == s[1] < t[1] \/ (s[1] = t[1] /\ s[2] < t[2])

\* How many optional seats are filled: what the league's starter count leaves.
Extra(slots, starters) ==
  LET required == Cardinality(Required(slots))
  IN IF starters = Unknown \/ starters < required THEN 0
     ELSE Min({starters - required, Cardinality(Optional(slots))})

\* out: designated so, or on bye.
Startable(roster) == {c \in DOMAIN roster : ~roster[c].out}

Laminar(slots) ==
  \A s, t \in Required(slots) :
    LET a == Eligible(slots, s)
        b == Eligible(slots, t)
    IN a \intersect b = {} \/ a \subseteq b \/ b \subseteq a

Players(lineup) == {p[2] : p \in lineup}
Used(lineup) == {p[1] : p \in lineup}

-----------------------------------------------------------------------------
(* The greedy solver.                                                      *)

Better(roster, c, d) ==
  \/ roster[c].points > roster[d].points
  \/ roster[c].points = roster[d].points /\ c < d

Best(roster, cs) == CHOOSE c \in cs : \A d \in cs \ {c} : Better(roster, c, d)

Takers(roster, cs, eligible) == {c \in cs : roster[c].pos \in eligible}

\* Slip: the seats are filled in the order in which the league lists them.
InListedOrder(roster, cs, slots) == InOrder(Required(slots), Listed)

\* The seats that fewest of the candidates could take come first.
Restrictive(roster, cs, slots) ==
  LET n(s) == Cardinality(Takers(roster, cs, Eligible(slots, s)))
      before(s, t) == n(s) < n(t) \/ (n(s) = n(t) /\ Listed(s, t))
  IN InOrder(Required(slots), before)

FillRequired(roster, cs, slots) ==
  LET order == Restrictive(roster, cs, slots)
      fill[k \in 0..Cardinality(Required(slots))] ==
        IF k = 0 THEN {}
        ELSE LET lineup == fill[k - 1]
                 left == Takers(roster, cs \ Players(lineup), Eligible(slots, order[k]))
             IN IF left = {} THEN lineup ELSE lineup \union {<<order[k], Best(roster, left)>>}
  IN fill[Cardinality(Required(slots))]

\* The best of those left, one after another, into the first seat that takes them.
FillOptional(roster, cs, slots, extra, required) ==
  LET left == cs \ Players(required)
      order == InOrder(left, LAMBDA c, d : Better(roster, c, d))
      open(l, c) == {s \in Optional(slots) \ Used(l) : roster[c].pos \in Eligible(slots, s)}
      first(seats) == CHOOSE s \in seats : \A t \in seats \ {s} : Listed(s, t)
      fill[k \in 0..Cardinality(left)] ==
        IF k = 0 THEN required
        ELSE LET l == fill[k - 1]
                 seats == open(l, order[k])
             IN IF Cardinality(Used(l) \ Required(slots)) >= extra \/ seats = {} THEN l
                ELSE l \union {<<first(seats), order[k]>>}
  IN fill[Cardinality(left)]

\* Refuses what it cannot solve exactly.
Greedy(roster, slots, extra) ==
  LET cs == Startable(roster)
  IN IF ~Laminar(slots) THEN Refused
     ELSE IF extra > 0 /\ \E s \in Seats(slots) : Cardinality(Eligible(slots, s)) # 1 THEN Refused
     ELSE FillOptional(roster, cs, slots, extra, FillRequired(roster, cs, slots))

-----------------------------------------------------------------------------
(* The integer program.                                                    *)

Points(roster) == [c \in DOMAIN roster |-> roster[c].points]
Total(roster, lineup) == SumFunctionOnSet(Points(roster), Players(lineup))

\* Each seat holds at most one player, and each player has at most one seat;
\* 0 stands for an empty one.
Assignments(roster, cs, slots) ==
  LET fits(f) == \A s \in DOMAIN f :
        f[s] # 0 => /\ roster[f[s]].pos \in Eligible(slots, s)
                    /\ \A t \in DOMAIN f : f[s] = f[t] => s = t
  IN {{<<s, f[s]>> : s \in {t \in DOMAIN f : f[t] # 0}} :
        f \in {g \in [Seats(slots) -> cs \union {0}] : fits(g)}}

\* No more than `extra' of the optional seats are used.
Lineups(roster, slots, extra) ==
  {l \in Assignments(roster, Startable(roster), slots) :
     Cardinality(Used(l) \ Required(slots)) <= extra}

\* Any lineup of the highest total, as far as the solver's promise goes.
Exact(roster, slots, extra) ==
  LET all == Lineups(roster, slots, extra)
  IN {l \in all : \A m \in all : Total(roster, m) <= Total(roster, l)}

\* What the optimiser may answer, with the integer solver or without it.
Solutions(roster, slots, starters, ilp) ==
  LET extra == Extra(slots, starters)
  IN IF slots = <<>> \/ Startable(roster) = {} THEN {Refused}
     ELSE IF ilp THEN Exact(roster, slots, extra)
     ELSE {Greedy(roster, slots, extra)}

\* Slip: who goes out.
Outgoing(lineup, submitted) == submitted \ Players(lineup)

\* What changes: who comes in.
Incoming(lineup, submitted) == Players(lineup) \ submitted
=============================================================================
