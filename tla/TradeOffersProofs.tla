-------------------------- MODULE TradeOffersProofs --------------------------
(***************************************************************************)
(* The offers, for any number of them and of passes at once.               *)
(*                                                                         *)
(* 1.  Types, and what each step does to the pass that takes it (Typed).   *)
(*                                                                         *)
(* 2.  Every offer that is too close to call reaches the owner, as long as *)
(* no pass is cut short.  An offer is marked as it is judged and reported  *)
(* at the end of the pass: in between the pass that marked it has it in    *)
(* hand (InHandOrTold), and a pass that has anything in hand is not over   *)
(* (HeldByPasses).                                                         *)
(*                                                                         *)
(* 3.  An offer has no more open recommendations than one and one for each *)
(* time it was taken up twice at once or lost.  For each offer those that  *)
(* no row names, the one its row names and the passes that are at it are   *)
(* counted together; and while its row would make a pass take it up, those *)
(* that no row names are all accounted for, so that one more fits.         *)
(***************************************************************************)
EXTENDS TradeOffers, FiniteSetTheorems, WellFoundedInduction, TLAPS

Pass == [at : {"idle", "filter", "judge", "mark", "report"},
         todo : SUBSET Offers, held : SUBSET Offers, made : {"none"} \union Saved]
Rows == {"none", "counter"} \union Saved

HasWork == \A a \in Actors : pass[a].at \in {"judge", "mark"} => pass[a].todo # {}

Typed == TypeOK /\ HasWork

\* The pass of actor a becomes n.
Moves(a, n) == pass' = [b \in Actors |-> IF b = a THEN n ELSE pass[b]]
Working(n) == n.at \in {"judge", "mark"} => n.todo # {}

\* A pass with x is at o.
At(x, o) == x.at \in {"judge", "mark"} /\ o \in x.todo

-----------------------------------------------------------------------------
(* Part 1.                                                                 *)

\* A set of naturals that has an element has a least one.
LEMMA Least ==
  ASSUME NEW S \in SUBSET Nat, S # {}
  PROVE  Min(S) \in S
<1>1. PICK R : R = OpToRel(<, Nat)
  OBVIOUS
<1>2. IsWellFoundedOn(R, Nat)
  BY <1>1, NatLessThanWellFounded
<1>3. PICK m \in S : \A y \in S : ~(<<y, m>> \in R)
  BY <1>2, WFMin
<1>4. \A x, y \in Nat : x < y => <<x, y>> \in R
  BY <1>1 DEF OpToRel
<1>5. ASSUME NEW y \in S PROVE m <= y
  <2>1. ~(y < m) /\ y \in Nat /\ m \in Nat
    BY <1>3, <1>4
  <2> QED BY <2>1
<1> QED BY <1>5 DEF Min

LEMMA PassOf == ASSUME Typed, NEW a \in Actors PROVE pass[a] \in Pass /\ Working(pass[a])
BY DEF Typed, TypeOK, HasWork, Working, Pass

\* The first of what a pass has to do.
LEMMA FirstOfPass ==
  ASSUME NEW x \in Pass, Working(x), x.at \in {"judge", "mark"}
  PROVE  Min(x.todo) \in x.todo /\ Min(x.todo) \in Offers
<1>1. x.todo \in SUBSET Offers /\ x.todo # {}
  BY DEF Pass, Working
<1>2. x.todo \in SUBSET Nat
  BY <1>1, OffersAssumption
<1> QED BY <1>1, <1>2, Least

LEMMA RestingIs ==
  /\ Resting \in Pass /\ Resting.at = "idle" /\ Resting.held = {} /\ Working(Resting)
  /\ \A o : ~At(Resting, o)
BY DEF Resting, Pass, Working, At

\* A pass that is through with its first offer holds what it held.
LEMMA OnwardsIs ==
  ASSUME NEW x \in Pass, x.todo # {}
  PROVE  /\ Onwards(x) \in Pass /\ Working(Onwards(x)) /\ Onwards(x).held = x.held
         /\ Onwards(x).at \in {"idle", "report", "judge"}
         /\ Onwards(x).at = "idle" => x.held = {}
         /\ \A o : At(Onwards(x), o) <=> o \in x.todo /\ o # Min(x.todo)
<1>1. PICK rest \in SUBSET Offers : rest = x.todo \ {Min(x.todo)}
  BY DEF Pass
<1>2. CASE rest = {} /\ x.held = {}
  <2>1. Onwards(x) = Resting
    BY <1>1, <1>2 DEF Onwards
  <2> QED BY <2>1, <1>1, <1>2, RestingIs
<1>3. CASE ~(rest = {} /\ x.held = {})
  <2>1. PICK s : s = IF rest = {} THEN "report" ELSE "judge"
    OBVIOUS
  <2>2. Onwards(x) = [x EXCEPT !.at = s, !.todo = rest, !.made = "none"]
    BY <1>1, <1>3, <2>1 DEF Onwards
  <2>3. Onwards(x) = [at |-> s, todo |-> rest, held |-> x.held, made |-> "none"]
    BY <2>2 DEF Pass
  <2>4. Onwards(x) \in Pass
    BY <2>1, <2>3 DEF Pass
  <2> QED BY <1>1, <2>1, <2>3, <2>4 DEF Working, At
<1> QED BY <1>2, <1>3

\* What one step does to the types.
LEMMA TypedAfter ==
  ASSUME Typed, NEW a \in Actors, NEW n \in Pass, Working(n), Moves(a, n),
         open' \in SUBSET Offers, told' \in SUBSET Offers,
         listing' \in [fresh : BOOLEAN, offers : SUBSET Offers],
         row' \in [Offers -> Rows], others' \in [Offers -> Nat],
         causes' \in [Offers -> Nat], faults' \in 0..MaxFaults
  PROVE  Typed'
<1>1. pass' \in [Actors -> Pass]
  BY PassOf DEF Moves
<1>2. HasWork'
  BY PassOf DEF Moves, HasWork, Working
<1> QED BY <1>1, <1>2 DEF Typed, TypeOK, Pass, Rows

LEMMA Remembers ==
  ASSUME Typed, NEW o \in Offers, NEW content \in Rows, Remember(o, content)
  PROVE  /\ row' \in [Offers -> Rows] /\ others' \in [Offers -> Nat]
         /\ row'[o] = content
         /\ others'[o] = others[o] + (IF row[o] = "proposed" THEN 1 ELSE 0)
         /\ \A q \in Offers : q # o => row'[q] = row[q] /\ others'[q] = others[q]
<1>1. row \in [Offers -> Rows] /\ others \in [Offers -> Nat]
  BY DEF Typed, TypeOK, Rows
<1> QED BY <1>1 DEF Remember

LEMMA ListIs ==
  ASSUME Typed, NEW a \in Actors, List(a)
  PROVE  /\ Typed' /\ UNCHANGED <<row, others, told, faults, causes>>
         /\ \E n \in Pass : /\ Moves(a, n) /\ pass[a].at = "idle" /\ n.at = "filter"
                            /\ n.held = pass[a].held
<1>1. PICK seen \in SUBSET Offers : seen = IF listing.fresh THEN listing.offers ELSE open
  BY DEF Typed, TypeOK
<1>2. PICK x \in Pass : x = pass[a]
  BY PassOf
<1>3. PICK n : n = [x EXCEPT !.at = "filter", !.todo = seen]
  OBVIOUS
<1>4. n \in Pass /\ n.at = "filter" /\ n.held = x.held /\ Working(n)
  BY <1>3 DEF Pass, Working
<1>5. /\ Moves(a, n) /\ pass[a].at = "idle" /\ listing' = [fresh |-> TRUE, offers |-> seen]
      /\ UNCHANGED <<open, row, others, told, faults, causes>>
  BY <1>1, <1>2, <1>3 DEF List, Moves, Typed, TypeOK
<1>6. Typed'
  BY <1>4, <1>5, TypedAfter DEF Typed, TypeOK, Rows
<1> QED BY <1>2, <1>4, <1>5, <1>6

LEMMA FilterIs ==
  ASSUME Typed, NEW a \in Actors, Filter(a)
  PROVE  /\ Typed' /\ UNCHANGED <<row, others, told, faults>> /\ pass[a].at = "filter"
         /\ \E n \in Pass :
              /\ Moves(a, n) /\ n.at \in {"idle", "judge"}
              /\ n.held = IF n.at = "idle" THEN {} ELSE pass[a].held
              /\ \A o \in Offers :
                   /\ At(n, o) => New(o)
                   /\ causes'[o] = IF At(n, o) /\ \E b \in Actors : At(pass[b], o)
                                   THEN causes[o] + 1 ELSE causes[o]
<1>1. PICK x \in Pass : x = pass[a]
  BY PassOf
<1>2. PICK new \in SUBSET Offers : new = {o \in x.todo : New(o)}
  BY DEF Pass
<1>3. PICK shared : shared = {o \in new : \E b \in Actors : AtIt(b, o)}
  OBVIOUS
<1>4. PICK n : n = IF new = {} THEN Resting ELSE [x EXCEPT !.at = "judge", !.todo = new]
  OBVIOUS
<1>5. /\ n \in Pass /\ Working(n) /\ n.at \in {"idle", "judge"}
      /\ n.held = IF n.at = "idle" THEN {} ELSE x.held
      /\ \A o : At(n, o) <=> o \in new
  <2>1. CASE new = {}
    BY <1>4, <2>1, RestingIs
  <2>2. CASE new # {}
    <3>1. n = [x EXCEPT !.at = "judge", !.todo = new]
      BY <1>4, <2>2
    <3> QED BY <3>1, <2>2 DEF Pass, Working, At
  <2> QED BY <2>1, <2>2
<1>6. /\ pass' = [pass EXCEPT ![a] = n] /\ pass[a].at = "filter"
      /\ causes' = [o \in Offers |-> IF o \in shared THEN causes[o] + 1 ELSE causes[o]]
      /\ UNCHANGED <<open, listing, row, others, told, faults>>
  <2>1. new = {o \in pass[a].todo : New(o)}
    BY <1>1, <1>2
  <2>2. /\ pass[a].at = "filter"
        /\ pass' = [pass EXCEPT ![a] = IF new = {} THEN Resting
                                       ELSE [pass[a] EXCEPT !.at = "judge", !.todo = new]]
        /\ causes' = [o \in Offers |-> IF o \in shared THEN causes[o] + 1 ELSE causes[o]]
        /\ UNCHANGED <<open, listing, row, others, told, faults>>
    BY <2>1, <1>3 DEF Filter, Typed, TypeOK
  <2>3. n = IF new = {} THEN Resting ELSE [pass[a] EXCEPT !.at = "judge", !.todo = new]
    BY <1>1, <1>4
  <2>4. pass' = [pass EXCEPT ![a] = n]
    BY <2>2, <2>3
  <2> QED BY <2>2, <2>4
<1>7. Moves(a, n) /\ causes' \in [Offers -> Nat]
  <2>1. pass = [b \in Actors |-> pass[b]] /\ causes \in [Offers -> Nat]
    BY DEF Typed, TypeOK
  <2>2. \A k \in Nat : k + 1 \in Nat
    OBVIOUS
  <2>3. causes' \in [Offers -> Nat]
    BY <1>6, <2>1, <2>2, Zenon
  <2>4. pass' = [b \in Actors |-> IF b = a THEN n ELSE pass[b]]
    BY <1>6, <2>1
  <2> QED BY <2>3, <2>4 DEF Moves
<1>8. Typed'
  BY <1>5, <1>6, <1>7, TypedAfter DEF Typed, TypeOK, Rows
<1>9. \A o : o \in shared <=> At(n, o) /\ \E b \in Actors : At(pass[b], o)
  BY <1>3, <1>5 DEF AtIt, At
<1>10. ASSUME NEW o \in Offers
       PROVE  /\ At(n, o) => New(o)
              /\ causes'[o] = IF At(n, o) /\ \E b \in Actors : At(pass[b], o)
                              THEN causes[o] + 1 ELSE causes[o]
  BY <1>2, <1>5, <1>6, <1>9
<1> QED BY <1>1, <1>5, <1>6, <1>7, <1>8, <1>10

LEMMA HoldIs ==
  ASSUME Typed, NEW a \in Actors, Hold(a)
  PROVE  /\ Typed' /\ UNCHANGED <<told, faults, causes>>
         /\ \E n \in Pass, p \in Offers :
              /\ Moves(a, n) /\ n.at \in {"report", "judge"}
              /\ n.held = pass[a].held \union {p}
              /\ Remember(p, "counter") /\ At(pass[a], p)
              /\ \A o : At(n, o) <=> At(pass[a], o) /\ o # p
<1>1. PICK x \in Pass : x = pass[a] /\ x.at = "judge" /\ Working(x)
  BY PassOf DEF Hold
<1>2. PICK p \in Offers : p = Min(x.todo) /\ p \in x.todo
  BY <1>1, FirstOfPass
<1>3. PICK y : y = [x EXCEPT !.held = x.held \union {p}]
  OBVIOUS
<1>4. y \in Pass /\ y.todo = x.todo /\ y.held = x.held \union {p}
  BY <1>3 DEF Pass
<1>5. PICK n \in Pass : n = Onwards(y)
  BY <1>2, <1>4, OnwardsIs
<1>6. /\ Working(n) /\ n.held = x.held \union {p} /\ n.at \in {"report", "judge"}
      /\ \A o : At(n, o) <=> At(x, o) /\ o # p
  <2>1. \A o : At(n, o) <=> o \in y.todo /\ o # Min(y.todo)
    BY <1>2, <1>4, <1>5, OnwardsIs
  <2> QED BY <1>1, <1>2, <1>4, <1>5, <2>1, OnwardsIs DEF At
<1>7. /\ Moves(a, n) /\ Remember(p, "counter")
      /\ UNCHANGED <<open, listing, told, faults, causes>>
  BY <1>1, <1>2, <1>3, <1>5 DEF Hold, Moves, Typed, TypeOK
<1>8. "counter" \in Rows
  BY DEF Rows
<1>9. Typed'
  BY <1>6, <1>7, <1>8, Remembers, TypedAfter DEF Typed, TypeOK
<1> QED BY <1>1, <1>2, <1>6, <1>7, <1>9 DEF At

LEMMA AnswerIs ==
  ASSUME Typed, NEW a \in Actors, Answer(a)
  PROVE  /\ Typed' /\ UNCHANGED <<row, others, told, faults, causes>>
         /\ \E n \in Pass : /\ Moves(a, n) /\ n.at = "mark" /\ n.held = pass[a].held
                            /\ \A o : At(n, o) <=> At(pass[a], o)
<1>1. PICK x \in Pass : x = pass[a] /\ x.at = "judge" /\ Working(x)
  BY PassOf DEF Answer
<1>2. PICK n : n = [x EXCEPT !.at = "mark", !.made = "proposed"]
  OBVIOUS
<1>3. /\ n \in Pass /\ n.at = "mark" /\ n.held = x.held /\ Working(n)
      /\ \A o : At(n, o) <=> At(x, o)
  BY <1>1, <1>2 DEF Pass, Working, At, Saved
<1>4. Moves(a, n) /\ UNCHANGED <<open, listing, row, others, told, faults, causes>>
  BY <1>1, <1>2 DEF Answer, Moves, Typed, TypeOK
<1>5. Typed'
  BY <1>3, <1>4, TypedAfter DEF Typed, TypeOK, Rows
<1> QED BY <1>1, <1>3, <1>4, <1>5

LEMMA MarkIs ==
  ASSUME Typed, NEW a \in Actors, Mark(a)
  PROVE  /\ Typed' /\ UNCHANGED <<told, faults, causes>>
         /\ \E n \in Pass, p \in Offers, made \in {"none"} \union Saved :
              /\ Moves(a, n) /\ n.at # "filter" /\ n.held = pass[a].held
              /\ n.at = "idle" => pass[a].held = {}
              /\ Remember(p, made) /\ At(pass[a], p)
              /\ \A o : At(n, o) <=> At(pass[a], o) /\ o # p
<1>1. PICK x \in Pass : x = pass[a] /\ x.at = "mark" /\ Working(x)
  BY PassOf DEF Mark
<1>2. PICK p \in Offers : p = Min(x.todo) /\ p \in x.todo
  BY <1>1, FirstOfPass
<1>3. PICK made \in {"none"} \union Saved : made = x.made
  BY DEF Pass
<1>4. PICK n \in Pass : n = Onwards(x)
  BY <1>2, OnwardsIs
<1>5. /\ Working(n) /\ n.held = x.held /\ n.at # "filter"
      /\ n.at = "idle" => x.held = {}
      /\ \A o : At(n, o) <=> At(x, o) /\ o # p
  <2>1. \A o : At(n, o) <=> o \in x.todo /\ o # Min(x.todo)
    BY <1>2, <1>4, OnwardsIs
  <2> QED BY <1>1, <1>2, <1>4, <2>1, OnwardsIs DEF At
<1>6. Moves(a, n) /\ Remember(p, made) /\ UNCHANGED <<open, listing, told, faults, causes>>
  BY <1>1, <1>2, <1>3, <1>4 DEF Mark, Moves, Typed, TypeOK
<1>7. made \in Rows
  BY DEF Rows
<1>8. Typed'
  BY <1>5, <1>6, <1>7, Remembers, TypedAfter DEF Typed, TypeOK
<1> QED BY <1>1, <1>2, <1>5, <1>6, <1>8 DEF At

LEMMA ReportIs ==
  ASSUME Typed, NEW a \in Actors, Report(a)
  PROVE  /\ Typed' /\ UNCHANGED <<row, others, faults, causes>>
         /\ Moves(a, Resting) /\ ~\E o : At(pass[a], o)
         /\ told' = told \union pass[a].held
<1>1. PICK x \in Pass : x = pass[a] /\ x.at = "report"
  BY PassOf DEF Report
<1>2. /\ Moves(a, Resting) /\ told' = told \union x.held
      /\ UNCHANGED <<open, listing, row, others, faults, causes>>
  BY <1>1 DEF Report, Moves, Typed, TypeOK
<1>3. told' \in SUBSET Offers
  BY <1>2 DEF Pass, Typed, TypeOK
<1>4. Typed'
  BY <1>2, <1>3, RestingIs, TypedAfter DEF Typed, TypeOK, Rows
<1> QED BY <1>1, <1>2, <1>4 DEF At

LEMMA FailIs ==
  ASSUME Typed, NEW a \in Actors, Fail(a)
  PROVE  /\ Typed' /\ row' = row /\ faults' = faults + 1 /\ faults \in Nat
         /\ Moves(a, Resting)
         /\ \A o \in Offers :
              \/ others'[o] = others[o] /\ causes'[o] = causes[o]
              \/ others'[o] = others[o] /\ causes'[o] = causes[o] + 1
              \/ others'[o] = others[o] + 1 /\ causes'[o] = causes[o] + 1
<1>1. faults \in 0..MaxFaults /\ MaxFaults \in Nat /\ faults < MaxFaults
  BY OffersAssumption DEF Fail, Typed, TypeOK
<1>2. others \in [Offers -> Nat] /\ causes \in [Offers -> Nat]
  BY DEF Typed, TypeOK
<1>3. /\ Moves(a, Resting) /\ faults' = faults + 1
      /\ others' = [o \in Offers |-> IF HasMade(a, o) /\ pass[a].made = "proposed"
                                     THEN others[o] + 1 ELSE others[o]]
      /\ causes' = [o \in Offers |-> IF HasMade(a, o) THEN causes[o] + 1 ELSE causes[o]]
      /\ UNCHANGED <<open, listing, row, told>>
  BY DEF Fail, Moves, Typed, TypeOK
<1>4. /\ faults' \in 0..MaxFaults
      /\ others' \in [Offers -> Nat] /\ causes' \in [Offers -> Nat]
  BY <1>1, <1>2, <1>3
<1>5. Typed'
  BY <1>3, <1>4, RestingIs, TypedAfter DEF Typed, TypeOK, Rows
<1>6. \A o \in Offers :
        \/ others'[o] = others[o] /\ causes'[o] = causes[o]
        \/ others'[o] = others[o] /\ causes'[o] = causes[o] + 1
        \/ others'[o] = others[o] + 1 /\ causes'[o] = causes[o] + 1
  BY <1>3
<1> QED BY <1>1, <1>3, <1>5, <1>6

\* One recommendation for o leaves the open ones.
LEMMA LeavesIs ==
  ASSUME Typed, NEW o \in Offers, Expire(o) \/ Decide(o)
  PROVE  /\ Typed' /\ UNCHANGED <<told, faults, causes>>
         /\ \A q \in Offers \ {o} : row'[q] = row[q] /\ others'[q] = others[q]
         /\ \/ others'[o] + 1 = others[o] /\ UNCHANGED <<row, pass>>
            \/ /\ row[o] = "proposed" /\ row'[o] \in {"expired", "decided"}
               /\ UNCHANGED <<others, pass>>
            \/ /\ UNCHANGED <<row, others>>
               /\ \E a \in Actors, n \in Pass :
                    /\ Moves(a, n) /\ n.at = "mark" /\ n.held = pass[a].held
                    /\ \A q : At(n, q) <=> At(pass[a], q)
<1>1. PICK status \in {"expired", "decided"} : Leaves(o, status)
  BY DEF Expire, Decide
<1>2. UNCHANGED <<open, listing, told, faults, causes>>
  BY DEF Expire, Decide
<1>3. row \in [Offers -> Rows] /\ others \in [Offers -> Nat]
  BY DEF Typed, TypeOK, Rows
<1>4. status \in Rows /\ status \in Saved
  BY DEF Rows, Saved
<1>5. CASE others[o] > 0 /\ others' = [others EXCEPT ![o] = others[o] - 1] /\ UNCHANGED <<row, pass>>
  <2>1. others' \in [Offers -> Nat]
    BY <1>3, <1>5
  <2>2. Typed'
    BY <1>2, <1>3, <1>5, <2>1 DEF Typed, TypeOK, HasWork, Rows
  <2> QED BY <1>2, <1>3, <1>5, <2>2
<1>6. CASE row[o] = "proposed" /\ row' = [row EXCEPT ![o] = status] /\ UNCHANGED <<others, pass>>
  <2>1. row' \in [Offers -> Rows]
    BY <1>3, <1>4, <1>6
  <2>2. Typed'
    BY <1>2, <1>3, <1>6, <2>1 DEF Typed, TypeOK, HasWork, Rows
  <2> QED BY <1>2, <1>3, <1>6, <2>2
<1>7. CASE /\ \E a \in Actors : HasMade(a, o) /\ pass' = [pass EXCEPT ![a].made = status]
           /\ UNCHANGED <<row, others>>
  <2>1. PICK a \in Actors : HasMade(a, o) /\ pass' = [pass EXCEPT ![a].made = status]
    BY <1>7
  <2>2. PICK x \in Pass : x = pass[a] /\ x.at = "mark" /\ Working(x)
    BY <2>1, PassOf DEF HasMade
  <2>3. PICK n : n = [x EXCEPT !.made = status]
    OBVIOUS
  <2>4. /\ n \in Pass /\ Working(n) /\ n.at = "mark" /\ n.held = x.held
        /\ \A q : At(n, q) <=> At(x, q)
    BY <1>4, <2>2, <2>3 DEF Pass, Working, At
  <2>5. Moves(a, n)
    BY <2>1, <2>2, <2>3 DEF Moves, Typed, TypeOK
  <2>6. Typed'
    BY <1>2, <1>3, <1>7, <2>4, <2>5, TypedAfter DEF Typed, TypeOK
  <2> QED BY <1>2, <1>7, <2>2, <2>4, <2>5, <2>6
<1> QED BY <1>1, <1>5, <1>6, <1>7 DEF Leaves

LEMMA AroundIs ==
  ASSUME Typed, \/ \E o \in Offers : Make(o) \/ Withdraw(o)
                \/ CacheExpires \/ UNCHANGED vars
  PROVE  Typed' /\ UNCHANGED <<row, others, told, pass, faults, causes>>
<1>1. UNCHANGED <<row, others, told, pass, faults, causes>>
  BY DEF Make, Withdraw, CacheExpires, vars
<1>2. open' \in SUBSET Offers
  BY DEF Make, Withdraw, CacheExpires, vars, Typed, TypeOK
<1>3. listing' \in [fresh : BOOLEAN, offers : SUBSET Offers]
  <2>1. Uncached \in [fresh : BOOLEAN, offers : SUBSET Offers]
    BY DEF Uncached
  <2>2. listing' = listing \/ listing' = Uncached
    BY DEF Make, Withdraw, CacheExpires, vars
  <2> QED BY <2>1, <2>2 DEF Typed, TypeOK
<1> QED BY <1>1, <1>2, <1>3 DEF Typed, TypeOK, HasWork

LEMMA TypedAtFirst == Init => Typed
<1> SUFFICES ASSUME Init PROVE Typed
  OBVIOUS
<1>1. 0 \in 0..MaxFaults
  BY OffersAssumption
<1>2. Uncached \in [fresh : BOOLEAN, offers : SUBSET Offers]
  BY DEF Uncached
<1>3. pass \in [Actors -> Pass] /\ \A a \in Actors : pass[a].at = "idle"
  BY RestingIs DEF Init
<1> QED BY <1>1, <1>2, <1>3 DEF Init, Typed, TypeOK, HasWork, Pass

LEMMA TypedStays == Typed /\ [Next]_vars => Typed'
BY AroundIs, LeavesIs, ListIs, FilterIs, HoldIs, AnswerIs, MarkIs, ReportIs, FailIs
   DEF Next, Work

-----------------------------------------------------------------------------
(* Part 2.                                                                 *)

HeldByPasses ==
  \A a \in Actors : pass[a].at \in {"idle", "filter"} => pass[a].held = {}

InHandOrTold ==
  faults = 0 => \A o \in Offers : row[o] = "counter" =>
    o \in told \/ \E a \in Actors : o \in pass[a].held

HeldInv == Typed /\ HeldByPasses /\ InHandOrTold

LEMMA InitHolds == Init => HeldInv
BY TypedAtFirst, RestingIs DEF Init, HeldInv, HeldByPasses, InHandOrTold

\* Actor a's pass becomes n, which holds what it held; no offer is newly held back.
LEMMA HeldStays ==
  ASSUME HeldInv, Typed', NEW a \in Actors, NEW n, Moves(a, n), n.held = pass[a].held,
         n.at \in {"idle", "filter"} => n.held = {}, told' = told, faults' = faults,
         \A o \in Offers : row'[o] = "counter" => row[o] = "counter"
  PROVE  HeldInv'
<1>1. \A b \in Actors : pass'[b].held = pass[b].held
  BY DEF Moves
<1>2. HeldByPasses'
  BY DEF HeldInv, HeldByPasses, Moves
<1>3. InHandOrTold'
  BY <1>1 DEF HeldInv, InHandOrTold
<1> QED BY <1>2, <1>3 DEF HeldInv

LEMMA AroundHeld ==
  ASSUME HeldInv, \/ \E o \in Offers : Make(o) \/ Withdraw(o)
                  \/ CacheExpires \/ UNCHANGED vars
  PROVE  HeldInv'
<1>1. Typed' /\ UNCHANGED <<row, told, pass, faults>>
  BY AroundIs DEF HeldInv
<1> QED BY <1>1 DEF HeldInv, HeldByPasses, InHandOrTold

LEMMA LeavesHeld ==
  ASSUME HeldInv, NEW o \in Offers, Expire(o) \/ Decide(o)
  PROVE  HeldInv'
<1>1. Typed' /\ told' = told /\ faults' = faults
  BY LeavesIs DEF HeldInv
<1>2. \A q \in Offers : row'[q] = "counter" => row[q] = "counter"
  BY LeavesIs DEF HeldInv
<1>3. CASE UNCHANGED pass
  BY <1>1, <1>2, <1>3 DEF HeldInv, HeldByPasses, InHandOrTold
<1>4. CASE \E a \in Actors, n \in Pass : Moves(a, n) /\ n.at = "mark" /\ n.held = pass[a].held
  BY <1>1, <1>2, <1>4, HeldStays
<1> QED BY <1>3, <1>4, LeavesIs DEF HeldInv

LEMMA PassHeld ==
  ASSUME HeldInv, NEW a \in Actors, List(a) \/ Filter(a) \/ Answer(a) \/ Mark(a)
  PROVE  HeldInv'
<1>1. Typed
  BY DEF HeldInv
<1>2. pass[a].at \in {"idle", "filter"} => pass[a].held = {}
  BY DEF HeldInv, HeldByPasses
<1>3. CASE List(a)
  BY <1>1, <1>2, <1>3, ListIs, HeldStays
<1>4. CASE Filter(a)
  BY <1>1, <1>2, <1>4, FilterIs, HeldStays
<1>5. CASE Answer(a)
  BY <1>1, <1>5, AnswerIs, HeldStays
<1>6. CASE Mark(a)
  <2>1. PICK n \in Pass, p \in Offers, made \in {"none"} \union Saved :
          /\ Typed' /\ told' = told /\ faults' = faults
          /\ Moves(a, n) /\ n.at # "filter" /\ n.held = pass[a].held /\ Remember(p, made)
          /\ n.at = "idle" => pass[a].held = {}
    BY <1>1, <1>6, MarkIs
  <2>2. made # "counter" /\ made \in Rows
    BY DEF Saved, Rows
  <2>3. \A o \in Offers : row'[o] = "counter" => row[o] = "counter"
    BY <1>1, <2>1, <2>2, Remembers
  <2> QED BY <2>1, <2>3, HeldStays
<1> QED BY <1>3, <1>4, <1>5, <1>6

LEMMA HoldHeld == ASSUME HeldInv, NEW a \in Actors, Hold(a) PROVE HeldInv'
<1>1. Typed
  BY DEF HeldInv
<1>2. PICK n \in Pass, p \in Offers :
        /\ Moves(a, n) /\ n.at \in {"report", "judge"} /\ n.held = pass[a].held \union {p}
        /\ Remember(p, "counter")
  BY <1>1, HoldIs
<1>3. Typed' /\ UNCHANGED <<told, faults>>
  BY <1>1, HoldIs
<1>4. p \in pass'[a].held /\ \A b \in Actors : pass[b].held \subseteq pass'[b].held
  BY <1>2 DEF Moves
<1>5. "counter" \in Rows
  BY DEF Rows
<1>6. \A q \in Offers : row'[q] = "counter" => q = p \/ row[q] = "counter"
  BY <1>1, <1>2, <1>5, Remembers
<1>7. HeldByPasses'
  BY <1>2 DEF HeldInv, HeldByPasses, Moves
<1>8. InHandOrTold'
  BY <1>3, <1>4, <1>6 DEF HeldInv, InHandOrTold
<1> QED BY <1>3, <1>7, <1>8 DEF HeldInv

LEMMA OverHeld == ASSUME HeldInv, NEW a \in Actors, Report(a) \/ Fail(a) PROVE HeldInv'
<1>1. Typed /\ Typed' /\ Moves(a, Resting) /\ row' = row
  BY ReportIs, FailIs DEF HeldInv
<1>2. HeldByPasses'
  BY <1>1, RestingIs DEF HeldInv, HeldByPasses, Moves
<1>3. CASE Fail(a)
  <2>1. faults' # 0
    BY <1>1, <1>3, FailIs
  <2> QED BY <1>1, <1>2, <2>1 DEF HeldInv, InHandOrTold
<1>4. CASE Report(a)
  <2>1. told' = told \union pass[a].held /\ faults' = faults
    BY <1>1, <1>4, ReportIs
  <2>2. InHandOrTold'
    <3> SUFFICES ASSUME faults = 0, NEW o \in Offers, row[o] = "counter"
                 PROVE  o \in told' \/ \E b \in Actors : o \in pass'[b].held
      BY <1>1, <2>1 DEF InHandOrTold
    <3>1. o \in told \/ \E b \in Actors : o \in pass[b].held
      BY DEF HeldInv, InHandOrTold
    <3> QED BY <3>1, <2>1, <1>1 DEF Moves
  <2> QED BY <1>1, <1>2, <2>2 DEF HeldInv
<1> QED BY <1>3, <1>4

\* What a pass held back is in its hand until it is told: the strengthened invariant,
\* for all offers and actors.
THEOREM Inductive == HeldInv /\ [Next]_vars => HeldInv'
BY AroundHeld, LeavesHeld, PassHeld, HoldHeld, OverHeld DEF Next, Work

\* When nobody is at it and no pass was cut short, the owner has heard of every offer
\* that was too close to call (run_offer_analysis).
THEOREM HeldOffersReported == Spec => []HeldOffersAreReported
<1>1. HeldInv => HeldOffersAreReported
  BY DEF HeldInv, HeldByPasses, InHandOrTold, HeldOffersAreReported
<1> QED BY InitHolds, Inductive, <1>1, PTL DEF Spec

-----------------------------------------------------------------------------
(* Part 3.                                                                 *)

AtItSet(o) == {a \in Actors : At(pass[a], o)}

Counted(o) ==
  /\ others[o] + (IF row[o] = "proposed" THEN 1 ELSE 0) + Cardinality(AtItSet(o))
       <= 1 + causes[o]
  /\ New(o) => others[o] <= causes[o]

DupInv == Typed /\ \A o \in Offers : Counted(o)

LEMMA Finite ==
  ASSUME NEW o
  PROVE  IsFiniteSet(AtItSet(o)) /\ Cardinality(AtItSet(o)) \in Nat
<1>1. AtItSet(o) \subseteq Actors
  BY DEF AtItSet
<1>2. IsFiniteSet(AtItSet(o))
  BY <1>1, OffersAssumption, FS_Subset
<1> QED BY <1>2, FS_CardinalityType

LEMMA NumbersOf ==
  ASSUME Typed, NEW o \in Offers
  PROVE  others[o] \in Nat /\ causes[o] \in Nat /\ Cardinality(AtItSet(o)) \in Nat
BY Finite DEF Typed, TypeOK

\* How the passes at o are counted when one actor's pass becomes n.
LEMMA OneMoves ==
  ASSUME NEW a \in Actors, NEW n, Moves(a, n), NEW o
  PROVE  /\ (At(n, o) <=> At(pass[a], o)) => Cardinality(AtItSet(o)') = Cardinality(AtItSet(o))
         /\ At(n, o) /\ ~At(pass[a], o) =>
              Cardinality(AtItSet(o)') = Cardinality(AtItSet(o)) + 1
         /\ ~At(n, o) /\ At(pass[a], o) =>
              Cardinality(AtItSet(o)') = Cardinality(AtItSet(o)) - 1
<1>1. a \in AtItSet(o) <=> At(pass[a], o)
  BY DEF AtItSet
<1>2. /\ At(n, o) => AtItSet(o)' = AtItSet(o) \union {a}
      /\ ~At(n, o) => AtItSet(o)' = AtItSet(o) \ {a}
  BY DEF AtItSet, Moves, At
<1>3. /\ a \in AtItSet(o) => /\ AtItSet(o) \union {a} = AtItSet(o)
                             /\ Cardinality(AtItSet(o) \ {a}) = Cardinality(AtItSet(o)) - 1
      /\ a \notin AtItSet(o) => /\ AtItSet(o) \ {a} = AtItSet(o)
                                /\ Cardinality(AtItSet(o) \union {a}) = Cardinality(AtItSet(o)) + 1
  <2>1. ASSUME NEW S, IsFiniteSet(S)
        PROVE  /\ a \in S => S \union {a} = S /\ Cardinality(S \ {a}) = Cardinality(S) - 1
               /\ a \notin S => S \ {a} = S /\ Cardinality(S \union {a}) = Cardinality(S) + 1
    BY <2>1, FS_AddElement, FS_RemoveElement
  <2> QED BY <2>1, Finite
<1> QED BY <1>1, <1>2, <1>3

LEMMA SomebodyCounts ==
  ASSUME NEW a \in Actors, NEW o, At(pass[a], o)
  PROVE  Cardinality(AtItSet(o)) >= 1
<1>1. a \in AtItSet(o)
  BY DEF AtItSet
<1>2. Cardinality(AtItSet(o)) # 0
  BY <1>1, Finite, FS_EmptySet
<1> QED BY <1>2, Finite

LEMMA NobodyCounts ==
  ASSUME NEW o, ~\E a \in Actors : At(pass[a], o)
  PROVE  Cardinality(AtItSet(o)) = 0
<1>1. AtItSet(o) = {}
  BY DEF AtItSet
<1> QED BY <1>1, FS_EmptySet

\* No pass is at more, and nothing else is new.
LEMMA CountStays ==
  ASSUME Typed, NEW o \in Offers, Counted(o),
         row'[o] = row[o], others'[o] = others[o], causes'[o] = causes[o],
         NEW c \in Nat, Cardinality(AtItSet(o)') = c, c <= Cardinality(AtItSet(o))
  PROVE  Counted(o)'
<1>1. others[o] \in Nat /\ causes[o] \in Nat /\ Cardinality(AtItSet(o)) \in Nat
  BY NumbersOf
<1>2. New(o)' <=> New(o)
  BY DEF New
<1> QED BY <1>1, <1>2 DEF Counted

LEMMA MovesLess ==
  ASSUME DupInv, Typed', NEW a \in Actors, NEW n, Moves(a, n), UNCHANGED <<row, others, causes>>,
         \A o : At(n, o) => At(pass[a], o)
  PROVE  DupInv'
<1>1. ASSUME NEW o \in Offers PROVE Counted(o)'
  <2>1. Cardinality(AtItSet(o)) \in Nat /\ Counted(o) /\ Typed
    BY NumbersOf DEF DupInv
  <2>2. PICK c : c = Cardinality(AtItSet(o)')
    OBVIOUS
  <2>3. c = Cardinality(AtItSet(o)) \/ (c = Cardinality(AtItSet(o)) - 1 /\ At(pass[a], o))
    BY <2>2, OneMoves
  <2>4. At(pass[a], o) => Cardinality(AtItSet(o)) >= 1
    BY SomebodyCounts
  <2>5. c \in Nat /\ c <= Cardinality(AtItSet(o))
    BY <2>1, <2>3, <2>4
  <2> QED BY <2>1, <2>2, <2>5, CountStays
<1> QED BY <1>1 DEF DupInv

LEMMA AroundCounted ==
  ASSUME DupInv, \/ \E o \in Offers : Make(o) \/ Withdraw(o)
                 \/ CacheExpires \/ UNCHANGED vars
  PROVE  DupInv'
<1>1. Typed' /\ UNCHANGED <<row, others, pass, causes>>
  BY AroundIs DEF DupInv
<1> QED BY <1>1 DEF DupInv, Counted, AtItSet, At, New

LEMMA LeavesCounted ==
  ASSUME DupInv, NEW o \in Offers, Expire(o) \/ Decide(o)
  PROVE  DupInv'
<1>1. /\ Typed /\ Typed' /\ causes' = causes
      /\ \A q \in Offers \ {o} : row'[q] = row[q] /\ others'[q] = others[q]
  BY LeavesIs DEF DupInv
<1>2. CASE UNCHANGED pass
  <2>1. ASSUME NEW q \in Offers PROVE Counted(q)'
    <3>1. AtItSet(q)' = AtItSet(q) /\ Counted(q)
      BY <1>2 DEF AtItSet, At, DupInv
    <3>2. others[q] \in Nat /\ causes[q] \in Nat /\ Cardinality(AtItSet(q)) \in Nat
      BY <1>1, NumbersOf
    <3>3. CASE q # o
      BY <1>1, <3>1, <3>2, <3>3, CountStays
    <3>4. CASE q = o
      <4>1. \/ others'[o] + 1 = others[o] /\ row' = row
            \/ row[o] = "proposed" /\ row'[o] \in {"expired", "decided"} /\ others' = others
            \/ UNCHANGED <<row, others>>
        BY LeavesIs DEF DupInv
      <4>2. others'[o] \in Nat
        BY <1>1 DEF Typed, TypeOK
      <4>3. CASE others'[o] + 1 = others[o] /\ row' = row
        BY <1>1, <3>1, <3>2, <3>4, <4>2, <4>3 DEF Counted, New
      <4>4. CASE row[o] = "proposed" /\ row'[o] \in {"expired", "decided"} /\ others' = others
        BY <1>1, <3>1, <3>2, <3>4, <4>4 DEF Counted, New
      <4>5. CASE UNCHANGED <<row, others>>
        BY <1>1, <3>1, <3>2, <3>4, <4>5, CountStays
      <4> QED BY <4>1, <4>3, <4>4, <4>5
    <3> QED BY <3>3, <3>4
  <2> QED BY <1>1, <2>1 DEF DupInv
<1>3. CASE /\ UNCHANGED <<row, others>>
           /\ \E a \in Actors, n \in Pass : Moves(a, n) /\ \A q : At(n, q) <=> At(pass[a], q)
  BY <1>1, <1>3, MovesLess
<1> QED BY <1>2, <1>3, LeavesIs DEF DupInv

LEMMA PlainCounted ==
  ASSUME DupInv, NEW a \in Actors, List(a) \/ Answer(a) \/ Report(a)
  PROVE  DupInv'
<1>1. Typed
  BY DEF DupInv
<1>2. CASE List(a)
  <2>1. PICK n \in Pass : Moves(a, n) /\ n.at = "filter"
    BY <1>1, <1>2, ListIs
  <2>2. \A o : ~At(n, o)
    BY <2>1 DEF At
  <2> QED BY <1>1, <1>2, <2>1, <2>2, ListIs, MovesLess
<1>3. CASE Answer(a)
  BY <1>1, <1>3, AnswerIs, MovesLess
<1>4. CASE Report(a)
  BY <1>1, <1>4, ReportIs, RestingIs, MovesLess
<1> QED BY <1>2, <1>3, <1>4

\* Taken up by nobody else, it fits; taken up beside others, it is counted.
LEMMA FilterCounted == ASSUME DupInv, NEW a \in Actors, Filter(a) PROVE DupInv'
<1>1. Typed
  BY DEF DupInv
<1>2. PICK n \in Pass :
        /\ Moves(a, n)
        /\ \A o \in Offers :
             /\ At(n, o) => New(o)
             /\ causes'[o] = IF At(n, o) /\ \E b \in Actors : At(pass[b], o)
                             THEN causes[o] + 1 ELSE causes[o]
  BY <1>1, FilterIs
<1>3. Typed' /\ row' = row /\ others' = others /\ pass[a].at = "filter"
  BY <1>1, FilterIs
<1>4. ASSUME NEW o \in Offers PROVE Counted(o)'
  <2>1. ~At(pass[a], o)
    BY <1>3 DEF At
  <2>2. /\ others[o] \in Nat /\ causes[o] \in Nat /\ Cardinality(AtItSet(o)) \in Nat
        /\ Counted(o)
    BY <1>1, NumbersOf DEF DupInv
  <2>3. CASE ~At(n, o)
    <3>1. causes'[o] = causes[o] /\ Cardinality(AtItSet(o)') = Cardinality(AtItSet(o))
      BY <1>2, <2>1, <2>3, OneMoves
    <3> QED BY <1>1, <1>3, <2>2, <3>1, CountStays
  <2>4. CASE At(n, o)
    <3>1. Cardinality(AtItSet(o)') = Cardinality(AtItSet(o)) + 1
      BY <1>2, <2>1, <2>4, OneMoves
    <3>2. New(o) /\ row[o] # "proposed"
      BY <1>2, <2>4 DEF New
    <3>3. \/ causes'[o] = causes[o] + 1
          \/ causes'[o] = causes[o] /\ Cardinality(AtItSet(o)) = 0
      BY <1>2, <2>4, NobodyCounts
    <3>4. PICK C, D : C = Cardinality(AtItSet(o)') /\ D = causes'[o]
      OBVIOUS
    <3>5. others[o] + 0 + C <= 1 + D /\ others[o] <= D
      BY <2>2, <3>1, <3>2, <3>3, <3>4 DEF Counted
    <3> QED BY <1>3, <3>2, <3>4, <3>5 DEF Counted
  <2> QED BY <2>3, <2>4
<1> QED BY <1>3, <1>4 DEF DupInv

\* A pass remembers p and is through with it; what the row named is then unnamed.
LEMMA RememberCounted ==
  ASSUME DupInv, Typed', causes' = causes, NEW a \in Actors, NEW n \in Pass, NEW p \in Offers,
         NEW content \in Rows, Moves(a, n), Remember(p, content), At(pass[a], p),
         \A o : At(n, o) <=> At(pass[a], o) /\ o # p
  PROVE  DupInv'
<1>1. Typed
  BY DEF DupInv
<1>2. ASSUME NEW o \in Offers PROVE Counted(o)'
  <2>1. /\ others[o] \in Nat /\ causes[o] \in Nat /\ Cardinality(AtItSet(o)) \in Nat
        /\ Counted(o)
    BY <1>1, NumbersOf DEF DupInv
  <2>2. CASE o # p
    <3>1. Cardinality(AtItSet(o)') = Cardinality(AtItSet(o))
      BY <2>2, OneMoves
    <3>2. row'[o] = row[o] /\ others'[o] = others[o]
      BY <1>1, <2>2, Remembers
    <3> QED BY <1>1, <2>1, <3>1, <3>2, CountStays
  <2>3. CASE o = p
    <3>1. /\ Cardinality(AtItSet(o)') = Cardinality(AtItSet(o)) - 1
          /\ Cardinality(AtItSet(o)) >= 1
      BY <2>3, OneMoves, SomebodyCounts
    <3>2. others'[o] = others[o] + (IF row[o] = "proposed" THEN 1 ELSE 0)
      BY <1>1, <2>3, Remembers
    <3>3. PICK C, N : C = Cardinality(AtItSet(o)') /\ N = others'[o]
      OBVIOUS
    <3>4. N + C + 1 <= 1 + causes[o] /\ N \in Nat /\ C \in Nat
      BY <2>1, <3>1, <3>2, <3>3 DEF Counted
    <3>5. N + (IF row'[o] = "proposed" THEN 1 ELSE 0) + C <= 1 + causes[o] /\ N <= causes[o]
      BY <2>1, <3>4
    <3> QED BY <3>3, <3>5 DEF Counted
  <2> QED BY <2>2, <2>3
<1> QED BY <1>2 DEF DupInv

LEMMA HoldCounted == ASSUME DupInv, NEW a \in Actors, Hold(a) PROVE DupInv'
<1>1. Typed /\ "counter" \in Rows
  BY DEF DupInv, Rows
<1> QED BY <1>1, HoldIs, RememberCounted

LEMMA MarkCounted == ASSUME DupInv, NEW a \in Actors, Mark(a) PROVE DupInv'
<1>1. Typed /\ \A made \in {"none"} \union Saved : made \in Rows
  BY DEF DupInv, Rows
<1> QED BY <1>1, MarkIs, RememberCounted

\* What a broken pass loses is counted, and what it gives up makes room.
LEMMA FailCounted == ASSUME DupInv, NEW a \in Actors, Fail(a) PROVE DupInv'
<1>1. Typed
  BY DEF DupInv
<1>2. Typed' /\ row' = row /\ Moves(a, Resting)
  BY <1>1, FailIs
<1>3. ASSUME NEW o \in Offers PROVE Counted(o)'
  <2>1. /\ others[o] \in Nat /\ causes[o] \in Nat /\ Cardinality(AtItSet(o)) \in Nat
        /\ Counted(o)
    BY <1>1, NumbersOf DEF DupInv
  <2>2. PICK C, N, D : C = Cardinality(AtItSet(o)') /\ N = others'[o] /\ D = causes'[o]
    OBVIOUS
  <2>3. C = Cardinality(AtItSet(o)) \/ C = Cardinality(AtItSet(o)) - 1
    BY <1>2, <2>2, RestingIs, OneMoves
  <2>4. \/ N = others[o] /\ D = causes[o]
        \/ N = others[o] /\ D = causes[o] + 1
        \/ N = others[o] + 1 /\ D = causes[o] + 1
    BY <1>1, <2>2, FailIs
  <2>5. /\ N + (IF row[o] = "proposed" THEN 1 ELSE 0) + C <= 1 + D
        /\ New(o) => N <= D
    BY <2>1, <2>3, <2>4 DEF Counted
  <2>6. New(o)' <=> New(o)
    BY <1>2 DEF New
  <2> QED BY <1>2, <2>2, <2>5, <2>6 DEF Counted
<1> QED BY <1>2, <1>3 DEF DupInv

LEMMA InitCounted == Init => DupInv
<1> SUFFICES ASSUME Init PROVE DupInv
  OBVIOUS
<1>1. ASSUME NEW o \in Offers PROVE Counted(o)
  <2>1. ~\E a \in Actors : At(pass[a], o)
    BY RestingIs DEF Init
  <2>2. Cardinality(AtItSet(o)) = 0
    BY <2>1, NobodyCounts
  <2> QED BY <2>2 DEF Init, Counted
<1> QED BY <1>1, TypedAtFirst DEF DupInv

\* The recommendations of an offer that no row names, the one its row names and the
\* passes that are at it are no more than one and its causes: inductive, for all
\* offers and actors.
THEOREM DuplicatesInductive == DupInv /\ [Next]_vars => DupInv'
BY AroundCounted, LeavesCounted, PlainCounted, FilterCounted, HoldCounted, MarkCounted,
   FailCounted DEF Next, Work

\* Every reachable state has the declared types.
THEOREM TypeCorrect == Spec => []TypeOK
<1>1. DupInv => TypeOK
  BY DEF DupInv, Typed
<1> QED BY InitCounted, DuplicatesInductive, <1>1, PTL DEF Spec

\* There is one open recommendation for an offer, and one more at most for each time
\* that two passes had it at once or one was lost, however often they expire, in
\* whatever order, and are made again (run_offer_analysis).
THEOREM DuplicatesBounded == Spec => []DuplicatesAreBounded
<1>1. DupInv => DuplicatesAreBounded
  <2> SUFFICES ASSUME DupInv, NEW o \in Offers PROVE Proposed(o) <= 1 + causes[o]
    BY DEF DuplicatesAreBounded
  <2>1. PICK H : H = {a \in Actors : HasMade(a, o) /\ pass[a].made = "proposed"}
    OBVIOUS
  <2>2. H \subseteq AtItSet(o)
    <3>1. ASSUME NEW a \in Actors, HasMade(a, o) PROVE At(pass[a], o)
      <4>1. pass[a] \in Pass /\ Working(pass[a]) /\ pass[a].at = "mark" /\ Min(pass[a].todo) = o
        BY <3>1, PassOf DEF DupInv, HasMade
      <4> QED BY <4>1, FirstOfPass DEF At
    <3> QED BY <2>1, <3>1 DEF AtItSet
  <2>3. Cardinality(H) <= Cardinality(AtItSet(o)) /\ Cardinality(H) \in Nat
    BY <2>2, Finite, FS_Subset, FS_CardinalityType
  <2>4. /\ others[o] \in Nat /\ causes[o] \in Nat /\ Cardinality(AtItSet(o)) \in Nat
        /\ Counted(o)
    BY NumbersOf DEF DupInv
  <2>5. Proposed(o) = others[o] + (IF row[o] = "proposed" THEN 1 ELSE 0) + Cardinality(H)
    BY <2>1 DEF Proposed
  <2> QED BY <2>3, <2>4, <2>5 DEF Counted
<1> QED BY InitCounted, DuplicatesInductive, <1>1, PTL DEF Spec
=============================================================================
