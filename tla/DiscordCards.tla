---------------------------- MODULE DiscordCards ----------------------------
(***************************************************************************)
(* The Discord surface: which cards are in the owner's DM, what each one   *)
(* shows, and what ingest_state remembers of it.                           *)
(*                                                                         *)
(* The publishing loop and the button presses are coroutines of one event  *)
(* loop; each await (a worker thread, a call to Discord) is a step, so     *)
(* they interleave.  Decisions on the other surfaces, the executor and the *)
(* clock are the environment: how they work is ApprovalFlow's business,    *)
(* here only what a card can show of a recommendation is kept.             *)
(*                                                                         *)
(*   store   the recommendations; live: latest_for finds an approval       *)
(*   msgs    the messages in the DM, oldest first, and what each shows     *)
(*   record  the ingest_state row discord:card:<id>                        *)
(*   todo    the rest of the publishing loop's pass, its current task first*)
(*   outbox  the notifications that wait for the loop, oldest first        *)
(*   sending those it has taken out and still has to send                  *)
(*   said    those the owner has received, in order                        *)
(*   notices, dropped   how many were accepted, and pushed out again       *)
(*   at      where each coroutine stands; 0 is the publishing loop         *)
(*   changes, faults   bound what the environment does                     *)
(*   causes  history: what has gone wrong that may cost a recommendation   *)
(*           another card                                                  *)
(***************************************************************************)
EXTENDS Naturals, Sequences, FiniteSets

CONSTANTS
  NRecs,       \* recommendations, numbered as created; at most LOOKBACK
  Payloads,    \* what an edit can make of a payload
  NPresses,    \* button presses handled at the same time
  OutboxSize,  \* OUTBOX_SIZE, 50
  DrainLimit,  \* what a pass takes out, 20
  MaxChanges,  \* bound: presses, decisions elsewhere, expiries, notifications
  MaxFaults    \* bound: exceptions, restarts, deleted messages

ASSUME CardAssumption ==
  /\ NRecs \in Nat \ {0} /\ NPresses \in Nat
  /\ {OutboxSize, DrainLimit} \subseteq Nat \ {0}
  /\ MaxChanges \in Nat /\ MaxFaults \in Nat
  /\ Payloads # {}

VARIABLES store, msgs, record, todo, at, changes, faults, causes,
          outbox, sending, said, notices, dropped

outboxVars == <<outbox, sending, said, notices, dropped>>
cardVars == <<store, msgs, record, todo, at>>
faultVars == <<faults, causes>>
vars == <<cardVars, changes, faultVars, outboxVars>>

Recs == 1..NRecs
Loop == 0
Presses == 1..NPresses
Coroutines == {Loop} \union Presses

\* "closed": rejected, executed, failed or expired, alike for a card.
Statuses == {"none", "proposed", "approved", "closed"}
Stored == [status : Statuses, payload : Payloads, live : BOOLEAN, elapsed : BOOLEAN]
Buttons == {"approve", "submit", "reject", "edit"}
Key == [status : Statuses, live : BOOLEAN]
Card == [key : Key, payload : Payloads, buttons : SUBSET Buttons]
Task == [kind : {"post", "refresh", "notices"}, rec : Recs]

\* Discord's message ids, from 1; 0 where there is none.
NoMsg == 0

NoKey == [status |-> "none", live |-> FALSE]
NoRecord == [msg |-> NoMsg, key |-> NoKey]
NoCard == [key |-> NoKey, payload |-> CHOOSE p \in Payloads : TRUE, buttons |-> {}]
AtRest == [pc |-> "rest", rec |-> 1, msg |-> NoMsg, card |-> NoCard, button |-> "edit"]

TypeOK ==
  /\ store \in [Recs -> Stored]
  /\ msgs \in Seq([rec : Recs, card : Card, deleted : BOOLEAN])
  /\ record \in [Recs -> [msg : 0..Len(msgs), key : Key]]
  /\ todo \in Seq(Task)
  /\ at \in [Coroutines -> [pc : {"rest", "pressed", "read", "live", "draw",
                                  "forget", "record"},
                            rec : Recs, msg : 0..Len(msgs), card : Card,
                            button : Buttons]]
  /\ changes \in 0..MaxChanges /\ faults \in 0..MaxFaults
  /\ causes \in [Recs -> Nat]
  /\ {outbox, sending, said} \subseteq Seq(1..notices)
  /\ Len(outbox) <= OutboxSize /\ Len(sending) <= DrainLimit
  /\ notices \in 0..MaxChanges /\ dropped \in 0..notices

-----------------------------------------------------------------------------
(* Decisions, on whatever surface, and time.                               *)

Undecided(r) == store[r].status \in {"proposed", "approved"}
Approvable(r) == Undecided(r) /\ ~store[r].live /\ ~store[r].elapsed

Approve(r) == store' = [store EXCEPT ![r].status = "approved", ![r].live = TRUE]
Edit(r, p) == store' = [store EXCEPT ![r].status = "proposed", ![r].live = FALSE,
                                     ![r].payload = p]
Close(r) == store' = [store EXCEPT ![r].status = "closed", ![r].live = FALSE]

Propose(r) ==
  /\ store[r].status = "none" /\ \A q \in 1..(r - 1) : store[q].status # "none"
  /\ store' = [store EXCEPT ![r].status = "proposed"]

\* The approval is consumed by an executor, or expires.
LoseApproval(r) == store[r].live /\ store' = [store EXCEPT ![r].live = FALSE]

Elapse(r) ==
  /\ Undecided(r) /\ ~store[r].elapsed
  /\ store' = [store EXCEPT ![r].elapsed = TRUE, ![r].live = FALSE]

\* The dashboard, the CLI, an executor, the scheduler and the clock.
Elsewhere(r) ==
  /\ changes < MaxChanges
  /\ changes' = changes + 1
  /\ \/ Propose(r)
     \/ Approvable(r) /\ Approve(r)
     \/ \E p \in Payloads : Undecided(r) /\ Edit(r, p)
     \/ Undecided(r) /\ Close(r)
     \/ LoseApproval(r)
     \/ Elapse(r)
  /\ UNCHANGED <<msgs, record, todo, at, faultVars, outboxVars>>

-----------------------------------------------------------------------------
(* What a card shows.                                                      *)

\* card_key
KeyOf(status, live) == [status |-> status, live |-> live]

\* buttons_for
ButtonsFor(status, live, elapsed) ==
  CASE elapsed \/ status \notin {"proposed", "approved"} -> {}
    [] ~elapsed /\ status = "approved" /\ live           -> {"submit", "reject", "edit"}
    [] OTHER                                             -> {"approve", "reject", "edit"}

-----------------------------------------------------------------------------
(* Planning a pass.                                                        *)

\* Slip: a card counts as posted only while it shows the status it has now.
NotPostedAsIs(r) == record[r].key.status # store[r].status
NotPosted(r) == record[r].msg = NoMsg

\* Slip: a recommendation that ever had a card gets no other.
PostableOnce(r, s) == s[r].status = "proposed" /\ \A i \in DOMAIN msgs : msgs[i].rec # r
Postable(r, s) == s[r].status = "proposed" /\ NotPosted(r)

\* Slip: the record is compared by status alone.
StatusMoved(r, s) == ~NotPosted(r) /\ record[r].key.status # s[r].status
Moved(r, s) == ~NotPosted(r) /\ record[r].key # KeyOf(s[r].status, s[r].live)

\* The one sequence of S that goes up; read from its end, it goes down.
Rising(S) ==
  {s \in [1..Cardinality(S) -> S] : \A i, j \in DOMAIN s : i < j => s[i] < s[j]}
Falling(S) ==
  {s \in [1..Cardinality(S) -> S] : \A i, j \in DOMAIN s : i < j => s[i] > s[j]}

Tasks(kind, recs) == [i \in DOMAIN recs |-> [kind |-> kind, rec |-> recs[i]]]

\* As expire_stale leaves the recommendations.
Swept == [r \in Recs |-> IF Undecided(r) /\ store[r].elapsed
                          THEN [store[r] EXCEPT !.status = "closed"] ELSE store[r]]

\* publisher.plan: expire_stale, then posts oldest first, refreshes newest first;
\* the notifications come last in a pass.
Plan ==
  /\ at[Loop].pc = "rest" /\ todo = <<>>
  /\ store' = Swept
  /\ \E posts \in Rising({r \in Recs : Postable(r, Swept)}),
        refreshes \in Falling({r \in Recs : Moved(r, Swept)}) :
       todo' = Tasks("post", posts) \o Tasks("refresh", refreshes) \o Tasks("notices", <<1>>)
  /\ UNCHANGED <<msgs, record, at, changes, faultVars, outboxVars>>

Begin ==
  /\ at[Loop].pc = "rest" /\ todo # <<>> /\ Head(todo).kind # "notices"
  /\ at' = [at EXCEPT ![Loop] = [AtRest EXCEPT !.pc = "read", !.rec = Head(todo).rec]]
  /\ UNCHANGED <<store, msgs, record, todo, changes, faultVars, outboxVars>>

-----------------------------------------------------------------------------
(* A button press: on_card_button, the forms, run_action.                  *)

\* The owner presses a button of a card as it is displayed.
Press(c, i, b) ==
  /\ at[c].pc = "rest" /\ changes < MaxChanges
  /\ ~msgs[i].deleted /\ b \in msgs[i].card.buttons
  /\ at' = [at EXCEPT ![c] = [pc |-> "pressed", rec |-> msgs[i].rec, msg |-> i,
                              card |-> msgs[i].card, button |-> b]]
  /\ changes' = changes + 1
  /\ UNCHANGED <<store, msgs, record, todo, faultVars, outboxVars>>

\* Answered: next the card is redrawn, whatever the answer.
Answered(c) ==
  /\ at[c].pc = "pressed"
  /\ at' = [at EXCEPT ![c] = [AtRest EXCEPT !.pc = "read", !.rec = at[c].rec,
                                            !.msg = at[c].msg]]

\* The decision, in one transaction on a worker thread; of a submission only
\* how it ends is kept.
Decide(c) ==
  /\ Answered(c)
  /\ LET r == at[c].rec IN
     \/ at[c].button = "approve" /\ Approvable(r) /\ Approve(r)
     \/ at[c].button = "reject" /\ Undecided(r) /\ Close(r)
     \/ at[c].button = "edit" /\ Undecided(r) /\ \E p \in Payloads : Edit(r, p)
     \/ at[c].button = "submit" /\ store[r].status = "approved" /\ store[r].live
          /\ Close(r)
  /\ UNCHANGED <<msgs, record, todo, changes, faultVars, outboxVars>>

\* The store, the executor or the form's own check says no.
Refuse(c) ==
  /\ Answered(c)
  /\ at[c].button = "approve" => ~Approvable(at[c].rec)
  /\ at[c].button = "reject" => ~Undecided(at[c].rec)
  /\ UNCHANGED <<store, msgs, record, todo, changes, faultVars, outboxVars>>

-----------------------------------------------------------------------------
(* post and redraw: read, show, record.                                    *)

\* DiscordActions.card reads the recommendation ...
ReadRec(c) ==
  /\ at[c].pc = "read"
  /\ LET s == store[at[c].rec] IN
     at' = [at EXCEPT ![c] = [@ EXCEPT !.pc = "live", !.card =
       [key |-> KeyOf(s.status, FALSE), payload |-> s.payload, buttons |-> {}]]]
  /\ UNCHANGED <<store, msgs, record, todo, changes, faultVars, outboxVars>>

\* ... then looks for its approval and builds the card; to redraw a card, the
\* loop also looks up its message (only the loop forgets one, so it is there).
ReadLive(c) ==
  /\ at[c].pc = "live"
  /\ LET r == at[c].rec
         s == [store[r] EXCEPT !.status = at[c].card.key.status]
         msg == IF c = Loop /\ Head(todo).kind = "refresh" THEN record[r].msg ELSE at[c].msg
     IN at' = [at EXCEPT ![c] =
          [@ EXCEPT !.pc = "draw", !.msg = msg, !.card =
             [key |-> KeyOf(s.status, s.live), payload |-> at[c].card.payload,
              buttons |-> ButtonsFor(s.status, s.live, s.elapsed)]]]
  /\ UNCHANGED <<store, msgs, record, todo, changes, faultVars, outboxVars>>

\* post: dm.send
Send(c) ==
  /\ at[c].pc = "draw" /\ at[c].msg = NoMsg
  /\ msgs' = Append(msgs, [rec |-> at[c].rec, card |-> at[c].card, deleted |-> FALSE])
  /\ at' = [at EXCEPT ![c] = [@ EXCEPT !.pc = "record", !.msg = Len(msgs) + 1]]
  /\ UNCHANGED <<store, record, todo, changes, faultVars, outboxVars>>

\* redraw: message.edit
Redraw(c) ==
  /\ at[c].pc = "draw" /\ at[c].msg # NoMsg /\ ~msgs[at[c].msg].deleted
  /\ msgs' = [msgs EXCEPT ![at[c].msg].card = at[c].card]
  /\ at' = [at EXCEPT ![c].pc = "record"]
  /\ UNCHANGED <<store, record, todo, changes, faultVars, outboxVars>>

\* redraw: fetch_message found nothing; a press has no handler for that.
Missing(c) ==
  /\ at[c].pc = "draw" /\ at[c].msg # NoMsg /\ msgs[at[c].msg].deleted
  /\ at' = [at EXCEPT ![c] = IF c = Loop THEN [@ EXCEPT !.pc = "forget"] ELSE AtRest]
  /\ UNCHANGED <<store, msgs, record, todo, changes, faultVars, outboxVars>>

\* Slip: a record keeps the message it had.
FinishSameMsg(c, row) ==
  /\ record' = [record EXCEPT ![at[c].rec].key = row.key]
  /\ at' = [at EXCEPT ![c] = AtRest]
  /\ todo' = IF c = Loop THEN Tail(todo) ELSE todo
  /\ UNCHANGED <<store, msgs, changes, faultVars, outboxVars>>
\* The loop goes on to the next task of its pass.
Finish(c, row) ==
  /\ record' = [record EXCEPT ![at[c].rec] = row]
  /\ at' = [at EXCEPT ![c] = AtRest]
  /\ todo' = IF c = Loop THEN Tail(todo) ELSE todo
  /\ UNCHANGED <<store, msgs, changes, faultVars, outboxVars>>

\* forget_card
Forget(c) == at[c].pc = "forget" /\ Finish(c, NoRecord)

\* record_card
Record(c) == at[c].pc = "record" /\ Finish(c, [msg |-> at[c].msg, key |-> at[c].card.key])

-----------------------------------------------------------------------------
(* Notifications: put into the outbox by any thread, sent by the loop.     *)

\* A full outbox drops its oldest message.
Notify ==
  /\ changes < MaxChanges /\ changes' = changes + 1
  /\ notices' = notices + 1
  /\ IF Len(outbox) < OutboxSize
     THEN outbox' = Append(outbox, notices') /\ dropped' = dropped
     ELSE outbox' = Append(Tail(outbox), notices') /\ dropped' = dropped + 1
  /\ UNCHANGED <<cardVars, faultVars, sending, said>>

AtNotices == at[Loop].pc = "rest" /\ todo # <<>> /\ Head(todo).kind = "notices"
EndPass(left) == todo' = IF left = <<>> THEN <<>> ELSE todo

\* Slip: what is over the limit is gone.
DrainAndClear ==
  /\ AtNotices /\ sending = <<>>
  /\ LET n == IF Len(outbox) < DrainLimit THEN Len(outbox) ELSE DrainLimit
     IN sending' = SubSeq(outbox, 1, n)
  /\ outbox' = <<>>
  /\ EndPass(sending')
  /\ UNCHANGED <<store, msgs, record, at, changes, faultVars, said, notices, dropped>>

Drain ==
  /\ AtNotices /\ sending = <<>>
  /\ LET n == IF Len(outbox) < DrainLimit THEN Len(outbox) ELSE DrainLimit
     IN /\ sending' = SubSeq(outbox, 1, n)
        /\ outbox' = SubSeq(outbox, n + 1, Len(outbox))
  /\ EndPass(sending')
  /\ UNCHANGED <<store, msgs, record, at, changes, faultVars, said, notices, dropped>>

SendNotice ==
  /\ AtNotices /\ sending # <<>>
  /\ said' = Append(said, Head(sending))
  /\ sending' = Tail(sending)
  /\ EndPass(sending')
  /\ UNCHANGED <<store, msgs, record, at, changes, faultVars, outbox, notices, dropped>>

-----------------------------------------------------------------------------
(* What goes wrong: bounded.                                               *)

\* A pass that breaks off between sending a card and recording it leaves it unknown.
CardSent == at[Loop].pc = "record" /\ Head(todo).kind = "post"
Orphaned == IF CardSent THEN [causes EXCEPT ![at[Loop].rec] = @ + 1] ELSE causes

\* An exception ends the pass, with the messages it had taken out, or the
\* interaction where it stands; the loop starts a new pass.
GiveUp(c) ==
  /\ faults < MaxFaults
  /\ at[c].pc # "rest" \/ (c = Loop /\ AtNotices)
  /\ faults' = faults + 1
  /\ causes' = IF c = Loop THEN Orphaned ELSE causes
  /\ at' = [at EXCEPT ![c] = AtRest]
  /\ todo' = IF c = Loop THEN <<>> ELSE todo
  /\ sending' = IF c = Loop THEN <<>> ELSE sending
  /\ UNCHANGED <<store, msgs, record, changes, outbox, said, notices, dropped>>

\* A restart: of all this only the store, the records and the DM are left.
Restart ==
  /\ faults < MaxFaults /\ faults' = faults + 1
  /\ causes' = Orphaned
  /\ at' = [c \in Coroutines |-> AtRest]
  /\ todo' = <<>> /\ outbox' = <<>> /\ sending' = <<>>
  /\ UNCHANGED <<store, msgs, record, changes, said, notices, dropped>>

\* The presses that have redrawn a message and will put it on record.
Recording(i) == {c \in Presses : at[c].pc = "record" /\ at[c].msg = i}

\* A message disappears from the DM: it has to be found missing once, and once
\* more for every press that puts it on record afterwards.
Delete(i) ==
  /\ faults < MaxFaults /\ ~msgs[i].deleted
  /\ faults' = faults + 1
  /\ causes' = [causes EXCEPT ![msgs[i].rec] = @ + 1 + Cardinality(Recording(i))]
  /\ msgs' = [msgs EXCEPT ![i].deleted = TRUE]
  /\ UNCHANGED <<store, record, todo, at, changes, outboxVars>>

-----------------------------------------------------------------------------
Init ==
  /\ store = [r \in Recs |-> [status |-> "none", payload |-> NoCard.payload,
                              live |-> FALSE, elapsed |-> FALSE]]
  /\ msgs = <<>>
  /\ record = [r \in Recs |-> NoRecord]
  /\ todo = <<>>
  /\ at = [c \in Coroutines |-> AtRest]
  /\ changes = 0 /\ faults = 0 /\ causes = [r \in Recs |-> 0]
  /\ outbox = <<>> /\ sending = <<>> /\ said = <<>> /\ notices = 0 /\ dropped = 0

Draw(c) ==
  ReadRec(c) \/ ReadLive(c) \/ Send(c) \/ Redraw(c) \/ Missing(c) \/ Forget(c) \/ Record(c)

Publish == Plan \/ Begin \/ Draw(Loop) \/ Drain \/ SendNotice
Handle(c) == Decide(c) \/ Refuse(c) \/ Draw(c)

Next ==
  \/ \E r \in Recs : Elsewhere(r)
  \/ Notify
  \/ Publish
  \/ \E c \in Presses, i \in DOMAIN msgs, b \in Buttons : Press(c, i, b)
  \/ \E c \in Presses : Handle(c)
  \/ \E c \in Coroutines : GiveUp(c)
  \/ Restart
  \/ \E i \in DOMAIN msgs : Delete(i)

Spec == Init /\ [][Next]_vars

\* The loop runs every publish_seconds and swallows what a pass raises; the
\* event loop runs every coroutine that can go on.
FairSpec == Spec /\ WF_vars(Publish) /\ \A c \in Presses : WF_vars(Handle(c))

-----------------------------------------------------------------------------
(* Properties.                                                             *)

CardsOf(r) == {i \in DOMAIN msgs : msgs[i].rec = r}

\* A recommendation has one card, and at most one more for each pass that broke off
\* between sending and recording its card, each card of its that vanished, and each
\* press that was recording a card as it vanished, however presses, decisions and
\* passes interleave (publisher.py:5-8, "a restart neither posts a card twice nor
\* loses track": a restart in between does, once).
NoCardWithoutCause == \A r \in Recs : Cardinality(CardsOf(r)) <= 1 + causes[r]

\* A card in the DM that ingest_state does not know, so that nothing refreshes
\* it, comes only of a pass that broke off between sending and recording it.
OrphansAreFaults ==
  (faults = 0 /\ at[Loop].pc # "record") =>
    \A r \in Recs : \A i \in CardsOf(r) : record[r].msg = i

\* Once nothing changes any more, every card's record says what its
\* recommendation is now, although presses and passes record out of order.
RecordsCatchUp ==
  \A r \in Recs : <>[](record[r].msg # NoMsg =>
    record[r].key = [status |-> store[r].status, live |-> store[r].live])

\* A pending recommendation without a card gets one or is decided or expires
\* first, though passes break off and cards disappear (publisher.py:45-46).
EveryPendingGetsACard ==
  \A r \in Recs : (store[r].status = "proposed" /\ record[r].msg = NoMsg) ~>
                  (store[r].status # "proposed" \/ record[r].msg # NoMsg)

\* The owner receives notifications in the order in which they were accepted, each
\* once, although the outbox overflows, passes leave some behind, break off, or end
\* with a restart (notify/discord.py).
NoticesInOrder == \A i, j \in DOMAIN said : i < j => said[i] < said[j]

\* The owner receives what was accepted, once and in order, except what a full
\* outbox pushed out, and as long as no pass broke off and nothing restarted,
\* however much a pass leaves in the outbox (notify/discord.py, publish_loop).
NoticesReachTheOwner ==
  /\ []NoticesInOrder
  /\ <>[](faults = 0 => Len(said) + dropped = notices)
=============================================================================
