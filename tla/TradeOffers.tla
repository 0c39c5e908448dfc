---------------------------- MODULE TradeOffers ----------------------------
(***************************************************************************)
(* The trade offers made to the bot's owner.  The scheduler's job and the  *)
(* dashboard's `analyse offers` run the same pass: list the offers, skip   *)
(* those already handled, and for each other one save a recommendation and *)
(* then, in a transaction of its own, remember it.                         *)
(*                                                                         *)
(*   open     the offers that await an answer on the site                  *)
(*   listing  the cached answer to pendingTrades, kept for a quarter hour  *)
(*   row      what is remembered of each offer: nothing, that it was too   *)
(*            close to call, or the state of the recommendation it names   *)
(*   others   how many more open recommendations for it were saved, which  *)
(*            its row does not name                                        *)
(*   told     the offers whose "needs your judgement" was sent             *)
(*   pass     where each actor stands, the offers left, those to report,   *)
(*            and the state of the recommendation it has just saved        *)
(*   faults   passes cut short: an exception, or a restart                 *)
(*   causes   history: how often an offer was taken up by one pass while   *)
(*            another was at it, or lost by one cut short                  *)
(*                                                                         *)
(* A recommendation is "proposed" until somebody decides on it or it       *)
(* expires, approved or not.                                               *)
(***************************************************************************)
EXTENDS Naturals, FiniteSetsExt

CONSTANTS
  Actors,     \* who runs passes: the scheduler's thread, the dashboard's
  Offers,     \* numbered in the order in which the site lists them
  MaxFaults,  \* bound: passes cut short
  MaxCauses   \* bound: no offer is taken up while a pass is at it after so many causes

ASSUME OffersAssumption ==
  /\ Actors # {} /\ IsFiniteSet(Actors) /\ Offers \subseteq Nat
  /\ {MaxFaults, MaxCauses} \subseteq Nat

VARIABLES open, listing, row, others, told, pass, faults, causes

vars == <<open, listing, row, others, told, pass, faults, causes>>

Uncached == [fresh |-> FALSE, offers |-> {}]
Resting == [at |-> "idle", todo |-> {}, held |-> {}, made |-> "none"]
Saved == {"proposed", "expired", "decided"}

TypeOK ==
  /\ {open, told} \subseteq SUBSET Offers
  /\ listing \in [fresh : BOOLEAN, offers : SUBSET Offers]
  /\ row \in [Offers -> {"none", "counter"} \union Saved]
  /\ others \in [Offers -> Nat] /\ causes \in [Offers -> Nat]
  /\ pass \in [Actors -> [at : {"idle", "filter", "judge", "mark", "report"},
                          todo : SUBSET Offers, held : SUBSET Offers,
                          made : {"none"} \union Saved]]
  /\ faults \in 0..MaxFaults

-----------------------------------------------------------------------------
(* The site, the user and the clock.                                       *)

Make(o) ==
  /\ o \notin open /\ row[o] = "none" /\ others[o] = 0
  /\ open' = open \union {o}
  /\ UNCHANGED <<listing, row, others, told, pass, faults, causes>>

Withdraw(o) ==
  /\ o \in open /\ open' = open \ {o}
  /\ UNCHANGED <<listing, row, others, told, pass, faults, causes>>

CacheExpires ==
  /\ listing.fresh /\ listing' = Uncached
  /\ UNCHANGED <<open, row, others, told, pass, faults, causes>>

\* Saved, and not yet remembered.
HasMade(a, o) == pass[a].at = "mark" /\ Min(pass[a].todo) = o

\* One of the open recommendations for o leaves them, at its own time: one that nothing
\* names, the one in the row, or one that a pass has not remembered yet.
Leaves(o, status) ==
  \/ /\ others[o] > 0 /\ others' = [others EXCEPT ![o] = @ - 1]
     /\ UNCHANGED <<row, pass>>
  \/ /\ row[o] = "proposed" /\ row' = [row EXCEPT ![o] = status]
     /\ UNCHANGED <<others, pass>>
  \/ /\ \E a \in Actors : /\ HasMade(a, o) /\ pass[a].made = "proposed"
                          /\ pass' = [pass EXCEPT ![a].made = status]
     /\ UNCHANGED <<row, others>>

Expire(o) ==
  /\ Leaves(o, "expired")
  /\ UNCHANGED <<open, listing, told, faults, causes>>

\* Executed, rejected or failed.
Decide(o) ==
  /\ Leaves(o, "decided")
  /\ UNCHANGED <<open, listing, told, faults, causes>>

-----------------------------------------------------------------------------
(* A pass.                                                                 *)

\* A pass lists the offers first; they come from the cache while it lasts.
List(a) ==
  /\ pass[a].at = "idle"
  /\ LET seen == IF listing.fresh THEN listing.offers ELSE open
     IN /\ listing' = [fresh |-> TRUE, offers |-> seen]
        /\ pass' = [pass EXCEPT ![a] = [@ EXCEPT !.at = "filter", !.todo = seen]]
  /\ UNCHANGED <<open, row, others, told, faults, causes>>

\* Slip: an offer that was ever listed is not new.
NeverNew(o) == row[o] = "none" /\ o \notin listing.offers

New(o) == row[o] \in {"none", "expired"}

\* An offer that a pass will make a recommendation for, or has, and not remembered.
AtIt(a, o) == pass[a].at \in {"judge", "mark"} /\ o \in pass[a].todo

Causes == LET Of(o) == causes[o] IN MapThenSumSet(Of, Offers)

\* A pass takes up what is new to it, though others may be at it (then that is counted).
Filter(a) ==
  LET new == {o \in pass[a].todo : New(o)}
      shared == {o \in new : \E b \in Actors : AtIt(b, o)}
  IN /\ pass[a].at = "filter"
     /\ shared = {} \/ Causes + Cardinality(shared) <= MaxCauses
     /\ pass' = [pass EXCEPT ![a] = IF new = {} THEN Resting
                                    ELSE [@ EXCEPT !.at = "judge", !.todo = new]]
     /\ causes' = [o \in Offers |-> IF o \in shared THEN causes[o] + 1 ELSE causes[o]]
     /\ UNCHANGED <<open, listing, row, others, told, faults>>

\* A pass that is through with its first offer goes on with the others, reports what it
\* holds, or is over.
Onwards(x) ==
  LET rest == x.todo \ {Min(x.todo)}
  IN IF rest = {} /\ x.held = {} THEN Resting
     ELSE [x EXCEPT !.at = IF rest = {} THEN "report" ELSE "judge",
                    !.todo = rest, !.made = "none"]

\* The row gets a new content; a recommendation it named that is still open is left
\* among the others.
Remember(o, content) ==
  /\ row' = [row EXCEPT ![o] = content]
  /\ others' = [others EXCEPT ![o] = IF row[o] = "proposed" THEN @ + 1 ELSE @]

\* Slip: what is held is forgotten when the next offer is judged.
HoldLast(a) ==
  LET o == Min(pass[a].todo)
  IN /\ pass[a].at = "judge"
     /\ Remember(o, "counter")
     /\ pass' = [pass EXCEPT ![a] = Onwards([pass[a] EXCEPT !.held = {o}])]
     /\ UNCHANGED <<open, listing, told, faults, causes>>

\* Too close to call: no recommendation, a notification at the end of the pass.
Hold(a) ==
  LET o == Min(pass[a].todo)
  IN /\ pass[a].at = "judge"
     /\ Remember(o, "counter")
     /\ pass' = [pass EXCEPT ![a] = Onwards([pass[a] EXCEPT !.held = @ \union {o}])]
     /\ UNCHANGED <<open, listing, told, faults, causes>>

\* A recommendation is saved ...
Answer(a) ==
  /\ pass[a].at = "judge"
  /\ pass' = [pass EXCEPT ![a] = [@ EXCEPT !.at = "mark", !.made = "proposed"]]
  /\ UNCHANGED <<open, listing, row, others, told, faults, causes>>

\* Slip: the recommendation is not remembered.
MarkNothing(a) ==
  LET o == Min(pass[a].todo)
  IN /\ pass[a].at = "mark"
     /\ others' = [others EXCEPT ![o] = IF pass[a].made = "proposed" THEN @ + 1 ELSE @]
     /\ pass' = [pass EXCEPT ![a] = Onwards(pass[a])]
     /\ UNCHANGED <<open, listing, row, told, faults, causes>>

\* ... and the row names it, whatever became of it meanwhile.
Mark(a) ==
  /\ pass[a].at = "mark"
  /\ Remember(Min(pass[a].todo), pass[a].made)
  /\ pass' = [pass EXCEPT ![a] = Onwards(pass[a])]
  /\ UNCHANGED <<open, listing, told, faults, causes>>

Report(a) ==
  /\ pass[a].at = "report"
  /\ told' = told \union pass[a].held
  /\ pass' = [pass EXCEPT ![a] = Resting]
  /\ UNCHANGED <<open, listing, row, others, faults, causes>>

\* A recommendation that was saved and not remembered is left among the others.
Fail(a) ==
  /\ pass[a].at # "idle" /\ faults < MaxFaults
  /\ faults' = faults + 1
  /\ others' = [o \in Offers |-> IF HasMade(a, o) /\ pass[a].made = "proposed"
                                  THEN others[o] + 1 ELSE others[o]]
  /\ causes' = [o \in Offers |-> IF HasMade(a, o) THEN causes[o] + 1 ELSE causes[o]]
  /\ pass' = [pass EXCEPT ![a] = Resting]
  /\ UNCHANGED <<open, listing, row, told>>

-----------------------------------------------------------------------------
Init ==
  /\ open = {} /\ listing = Uncached /\ told = {} /\ faults = 0
  /\ row = [o \in Offers |-> "none"]
  /\ others = [o \in Offers |-> 0] /\ causes = [o \in Offers |-> 0]
  /\ pass = [a \in Actors |-> Resting]

Work(a) == List(a) \/ Filter(a) \/ Hold(a) \/ Answer(a) \/ Mark(a) \/ Report(a)

Next ==
  \/ \E o \in Offers : Make(o) \/ Withdraw(o) \/ Expire(o) \/ Decide(o)
  \/ CacheExpires
  \/ \E a \in Actors : Work(a) \/ Fail(a)

Spec == Init /\ [][Next]_vars

\* Passes are scheduled again and again, and the cache has a lifetime.
FairSpec ==
  /\ Spec
  /\ WF_vars(CacheExpires)
  /\ \A a \in Actors : WF_vars(Work(a))

-----------------------------------------------------------------------------
(* Properties.                                                             *)

\* The open recommendations for o: unnamed, in its row, or about to be.
Proposed(o) ==
  others[o] + (IF row[o] = "proposed" THEN 1 ELSE 0)
    + Cardinality({a \in Actors : HasMade(a, o) /\ pass[a].made = "proposed"})

\* An offer has one open recommendation, and one more at most for each time that a pass
\* took it up while another was at it, or was cut short between saving one and
\* remembering it: however often they expire, in whatever order, and are made again,
\* duplicates do not add up (run_offer_analysis: "Each offer is evaluated once").
DuplicatesAreBounded == \A o \in Offers : Proposed(o) <= 1 + causes[o]

\* An offer that stays open is judged in the end, whatever passes were cut short, and
\* although the list of offers may come from the cache (run_offer_analysis).
OpenOffersAreJudged ==
  \A o \in Offers : o \in open ~> row[o] # "none" \/ o \notin open

\* One judged too close to call is reported, unless a pass was cut short: it is
\* marked as it is judged, but reported at the end of the pass.
HeldOffersAreReported ==
  (\A a \in Actors : pass[a].at = "idle") /\ faults = 0 =>
    \A o \in Offers : row[o] = "counter" => o \in told
=============================================================================
