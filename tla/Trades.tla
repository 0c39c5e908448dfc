------------------------------- MODULE Trades -------------------------------
(***************************************************************************)
(* The trades the bot proposes, as a function of the rosters' values (see  *)
(* Waivers) and the league's slots [eligible, min, max].  Positions are    *)
(* numbered in the order of their names.  A gain is counted in quarters    *)
(* of a point.                                                             *)
(***************************************************************************)
EXTENDS Waivers

\* A share of a/b of a seat, to the nearest number, halves to the even one.
RoundHalfEven(a, b) ==
  LET low == a \div b
      rest == 2 * (a - b * low)
  IN IF rest < b \/ (rest = b /\ low % 2 = 0) THEN low ELSE low + 1

\* The seats of a slot are shared out among its positions; at least one each.
Starters(slots, pos) ==
  LET whole == 12
      taking == {i \in DOMAIN slots : pos \in slots[i].eligible}
      share == [i \in taking |-> (whole * slots[i].min) \div Cardinality(slots[i].eligible)]
  IN Max({1, RoundHalfEven(SumFunction(share), whole)})

Ranked(values, pos) ==
  Descending(values, {i \in DOMAIN values : values[i].pos = pos /\ Known(values[i].ros)}, "ros")

\* Slip: the whole position is for sale.
WholePosition(values, pos, slots) == Ranked(values, pos)

\* Who sits behind the starters, best first.
Bench(values, pos, slots) ==
  LET ranked == Ranked(values, pos)
      first == Starters(slots, pos) + 1
  IN SubSeq(ranked, Min({first, Len(ranked) + 1}), Len(ranked))

Depth(values, pos, slots) ==
  SumFunctionOnSet([i \in DOMAIN values |-> OrZero(values[i].ros)], Range(Bench(values, pos, slots)))

\* The position, if any, where one has the most depth that the other lacks.
BestSurplus(have, need, slots) ==
  LET positions == {p \in {have[i].pos : i \in DOMAIN have} : Depth(have, p, slots) > 0}
      margin(p) == Depth(have, p, slots) - Depth(need, p, slots)
      over(p, q) == margin(p) > margin(q) \/ (margin(p) = margin(q) /\ p > q)
  IN {p \in positions : margin(p) > 0 /\ \A q \in positions \ {p} : over(p, q)}

\* What one side is told it gains: the incoming value counts in full at a
\* position without depth, the outgoing a quarter at one with depth.
StartingGain(values, slots, get, incoming, give, outgoing) ==
  (IF Depth(values, get, slots) <= 0 THEN 4 * incoming ELSE 2 * incoming)
    - (IF Depth(values, give, slots) > 0 THEN outgoing ELSE 4 * outgoing)

\* The best of one bench for the best of the other, and what each side gains.
Deal(f, ours, theirs, give, get, slots) ==
  LET mine == Head(Bench(ours, give, slots))
      yours == Head(Bench(theirs, get, slots))
  IN [with |-> f, gives |-> mine, receives |-> yours,
      gain |-> StartingGain(ours, slots, get, theirs[yours].ros, give, ours[mine].ros),
      theirs |-> StartingGain(theirs, slots, give, ours[mine].ros, get, theirs[yours].ros)]

\* The swap with franchise f, if there is one.
Swap(f, ours, theirs, slots, limits) ==
  LET positions == {pq \in BestSurplus(ours, theirs, slots) \X BestSurplus(theirs, ours, slots) :
                      pq[1] # pq[2]}
  IN {d \in {Deal(f, ours, theirs, pq[1], pq[2], slots) : pq \in positions} :
        d.gain >= 4 * limits.mutual /\ d.theirs >= 4 * limits.mutual}

\* Slip: an unknown deadline is no hindrance.
WindowGuessed(settings, late) == IF settings.deadline /\ late THEN "closed" ELSE "open"

Window(settings, late) ==
  IF ~settings.deadline THEN "unknown" ELSE IF late THEN "closed" ELSE "open"

\* The swaps proposed to the franchises, which are numbered; the best for us first.
Trades(settings, late, ours, others, limits) ==
  LET deals == UNION {Swap(f, ours, others[f], settings.slots, limits) : f \in DOMAIN others}
      before(d, e) == d.gain > e.gain \/ (d.gain = e.gain /\ d.with < e.with)
      best == InOrder(deals, before)
      none == [ideas |-> <<>>, blocks |-> {}]
  IN IF Window(settings, late) = "unknown" THEN [none EXCEPT !.blocks = {"deadline"}]
     ELSE IF Window(settings, late) = "closed" THEN none
     ELSE [none EXCEPT !.ideas = SubSeq(best, 1, Min({limits.proposals, Len(best)}))]

-----------------------------------------------------------------------------
(* The answer to an offer: what is received, as values, and which of ours  *)
(* are given.  unvalued: it has pieces that are no players we know.        *)

NetValue(ours, offer) ==
  LET sum(total, v) == total + OrZero(v.ros)
  IN FoldLeft(sum, 0, offer.receives)
       - FoldLeft(sum, 0, [k \in DOMAIN offer.gives |-> ours[offer.gives[k]]])

Unpriced(ours, offer) ==
  \/ \E k \in DOMAIN offer.receives : ~Known(offer.receives[k].ros)
  \/ \E k \in DOMAIN offer.gives : ~Known(ours[offer.gives[k]].ros)

\* Something is given at a position where there is no depth.
Scarce(ours, offer, slots) ==
  \E k \in DOMAIN offer.gives :
    LET pos == ours[offer.gives[k]].pos
    IN Ranked(ours, pos) # <<>> /\ Depth(ours, pos, slots) <= 0

Verdict(ours, offer, slots, limits) ==
  LET net == NetValue(ours, offer)
  IN IF \/ offer.receives = <<>> /\ offer.gives = <<>>
        \/ offer.unvalued \/ Unpriced(ours, offer) THEN "counter"
     ELSE IF net >= limits.accept /\ ~Scarce(ours, offer, slots) THEN "accept"
     ELSE IF net >= limits.accept THEN "counter"
     ELSE IF net <= 0 - limits.accept THEN "reject"
     ELSE "counter"
=============================================================================
