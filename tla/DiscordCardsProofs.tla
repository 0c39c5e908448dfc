------------------------- MODULE DiscordCardsProofs -------------------------
(***************************************************************************)
(* What the DM shows, for every number of recommendations, presses at the  *)
(* same time, messages and notifications.                                  *)
(*                                                                         *)
(* Part 1, the notifications: what was said, what a pass has in hand and   *)
(* what waits are in order, one after the other, and add up to what was    *)
(* accepted and not pushed out.                                            *)
(*                                                                         *)
(* Part 2, the types: a card is built in two readings and moves from a     *)
(* coroutine into a message, a message's number into records.              *)
(*                                                                         *)
(* Part 3, the cards: what there is of a recommendation, what will be      *)
(* forgotten and posted again, and what presses will put back on record    *)
(* after it vanished, is weighed against what went wrong (Balanced).       *)
(***************************************************************************)
EXTENDS DiscordCards, TLAPS, SequenceTheorems, FiniteSetTheorems

Rises(s) == \A i, j \in DOMAIN s : i < j => s[i] < s[j]
Precedes(s, t) == \A i \in DOMAIN s, j \in DOMAIN t : s[i] < t[j]
Within(s, n) == \A i \in DOMAIN s : s[i] \in 1..n
\* t is what stands in s from place d + 1 on, or the first of that.
Part(t, s, d) == \A i \in DOMAIN t : i + d \in DOMAIN s /\ t[i] = s[i + d]

NoticeTypes ==
  /\ outbox \in Seq(Nat) /\ sending \in Seq(Nat) /\ said \in Seq(Nat)
  /\ notices \in Nat /\ dropped \in Nat
  /\ changes \in 0..MaxChanges /\ faults \in 0..MaxFaults
  /\ notices <= changes
  /\ Len(outbox) <= OutboxSize /\ Len(sending) <= DrainLimit

Accepted == Within(outbox, notices) /\ Within(sending, notices) /\ Within(said, notices)

InLine ==
  /\ Rises(outbox) /\ Rises(sending) /\ Rises(said)
  /\ Precedes(said, sending) /\ Precedes(said, outbox) /\ Precedes(sending, outbox)

\* With no fault nothing is unaccounted for.
Total == Len(said) + Len(sending) + Len(outbox) + dropped
AddsUp == Total <= notices /\ (faults = 0 => Total = notices)

NoticeInv == NoticeTypes /\ Accepted /\ InLine /\ AddsUp

-----------------------------------------------------------------------------
\* What holds of a queue holds of a part of it.
LEMMA PartInherits ==
  ASSUME NEW s \in Seq(Nat), NEW t \in Seq(Nat), NEW d \in Nat, Part(t, s, d)
  PROVE  /\ Rises(s) => Rises(t)
         /\ \A n : Within(s, n) => Within(t, n)
         /\ \A u : Precedes(u, s) => Precedes(u, t)
         /\ \A u : Precedes(s, u) => Precedes(t, u)
<1>1. ASSUME Rises(s) PROVE Rises(t)
  <2> SUFFICES ASSUME NEW i \in DOMAIN t, NEW j \in DOMAIN t, i < j PROVE t[i] < t[j]
    BY DEF Rises
  <2>1. i \in Nat /\ j \in Nat /\ i + d \in DOMAIN s /\ j + d \in DOMAIN s /\ i + d < j + d
    BY DEF Part
  <2> QED BY <2>1, <1>1 DEF Part, Rises
<1>2. \A n : Within(s, n) => Within(t, n)
  BY DEF Part, Within
<1>3. \A u : Precedes(u, s) => Precedes(u, t)
  BY DEF Part, Precedes
<1>4. \A u : Precedes(s, u) => Precedes(t, u)
  BY DEF Part, Precedes
<1> QED BY <1>1, <1>2, <1>3, <1>4

\* A queue that one more joins.
LEMMA AppendInherits ==
  ASSUME NEW s \in Seq(Nat), NEW n \in Nat, NEW t, t = Append(s, n)
  PROVE  /\ t \in Seq(Nat) /\ Len(t) = Len(s) + 1
         /\ Rises(s) /\ (\A i \in DOMAIN s : s[i] < n) => Rises(t)
         /\ \A m \in Nat, k \in Nat :
              Within(s, m) /\ m <= k /\ n \in 1..k => Within(t, k)
         /\ \A u : Precedes(u, s) /\ (\A i \in DOMAIN u : u[i] < n) => Precedes(u, t)
         /\ \A u : Precedes(s, u) /\ (\A i \in DOMAIN u : n < u[i]) => Precedes(t, u)
<1>1. /\ t \in Seq(Nat) /\ Len(t) = Len(s) + 1 /\ Len(s) \in Nat
      /\ DOMAIN s = 1..Len(s) /\ DOMAIN t = 1..(Len(s) + 1)
      /\ t[Len(s) + 1] = n /\ \A i \in DOMAIN s : t[i] = s[i]
  OBVIOUS
<1>2. \A i \in DOMAIN t : (i \in DOMAIN s /\ t[i] = s[i]) \/ (i = Len(s) + 1 /\ t[i] = n)
  <2>1. \A i \in 1..(Len(s) + 1) : i \in 1..Len(s) \/ i = Len(s) + 1
    BY <1>1
  <2> QED BY <2>1, <1>1
<1>3. ASSUME Rises(s), \A i \in DOMAIN s : s[i] < n PROVE Rises(t)
  <2> SUFFICES ASSUME NEW i \in DOMAIN t, NEW j \in DOMAIN t, i < j PROVE t[i] < t[j]
    BY DEF Rises
  <2>1. i \in DOMAIN s
    BY <1>1
  <2> QED BY <2>1, <1>1, <1>2, <1>3 DEF Rises
<1>4. ASSUME NEW m \in Nat, NEW k \in Nat, Within(s, m), m <= k, n \in 1..k
      PROVE  Within(t, k)
  BY <1>2, <1>4 DEF Within
<1>5. \A u : Precedes(u, s) /\ (\A i \in DOMAIN u : u[i] < n) => Precedes(u, t)
  BY <1>2 DEF Precedes
<1>6. \A u : Precedes(s, u) /\ (\A i \in DOMAIN u : n < u[i]) => Precedes(t, u)
  BY <1>2 DEF Precedes
<1> QED BY <1>1, <1>3, <1>4, <1>5, <1>6

LEMMA NoticesBegin == Init => NoticeInv
<1> SUFFICES ASSUME Init PROVE NoticeInv
  OBVIOUS
<1>1. /\ outbox = <<>> /\ sending = <<>> /\ said = <<>>
      /\ notices = 0 /\ dropped = 0 /\ changes = 0 /\ faults = 0
  BY DEF Init
<1>2. <<>> \in Seq(Nat) /\ Len(<<>>) = 0 /\ DOMAIN <<>> = {}
  OBVIOUS
<1> QED BY <1>1, <1>2, CardAssumption
      DEF NoticeInv, NoticeTypes, Accepted, InLine, AddsUp, Total, Rises, Precedes, Within

\* Accepting a notification, with room for it or without.
LEMMA NotifyInLine == ASSUME NoticeInv, Notify PROVE NoticeInv'
<1>1. PICK n : n = notices + 1
  OBVIOUS
<1>2. /\ notices' = n /\ changes' = changes + 1 /\ changes < MaxChanges
      /\ UNCHANGED <<faults, sending, said>>
  BY <1>1 DEF Notify, faultVars
<1>3. /\ notices \in Nat /\ n \in Nat /\ changes \in Nat /\ notices <= changes
      /\ MaxChanges \in Nat /\ OutboxSize \in Nat \ {0} /\ DrainLimit \in Nat
      /\ outbox \in Seq(Nat) /\ sending \in Seq(Nat) /\ said \in Seq(Nat)
      /\ dropped \in Nat /\ Len(outbox) <= OutboxSize
  BY <1>1, CardAssumption DEF NoticeInv, NoticeTypes
<1>4. PICK kept \in Seq(Nat), d \in 0..1 :
        /\ outbox' = Append(kept, n) /\ Len(kept) < OutboxSize
        /\ Part(kept, outbox, d)
        /\ Len(kept) = Len(outbox) - d /\ dropped' = dropped + d
  <2>1. CASE Len(outbox) < OutboxSize
    <3>1. outbox' = Append(outbox, n) /\ dropped' = dropped + 0
      BY <1>2, <1>3, <2>1 DEF Notify
    <3>2. Part(outbox, outbox, 0) /\ Len(outbox) = Len(outbox) - 0
      BY <1>3 DEF Part
    <3>3. 0 \in 0..1
      OBVIOUS
    <3> QED BY <2>1, <3>1, <3>2, <3>3, <1>3
  <2>2. CASE ~(Len(outbox) < OutboxSize)
    <3>1. outbox' = Append(Tail(outbox), n) /\ dropped' = dropped + 1
      BY <1>2, <2>2 DEF Notify
    <3>2. Len(outbox) = OutboxSize /\ outbox # <<>>
      BY <2>2, <1>3
    <3>3. /\ Tail(outbox) \in Seq(Nat) /\ Len(Tail(outbox)) = Len(outbox) - 1
          /\ Part(Tail(outbox), outbox, 1)
      BY <3>2, <1>3 DEF Part
    <3>4. 1 \in 0..1 /\ Len(Tail(outbox)) < OutboxSize
      BY <3>2, <3>3, <1>3
    <3> QED BY <3>1, <3>3, <3>4
  <2> QED BY <2>1, <2>2
<1>5. Rises(kept) /\ Within(kept, notices) /\ Precedes(said, kept) /\ Precedes(sending, kept)
  BY <1>3, <1>4, PartInherits DEF NoticeInv, InLine, Accepted
<1>6. \A s : Within(s, notices) => Within(s, n) /\ \A i \in DOMAIN s : s[i] < n
  BY <1>1, <1>3 DEF Within
<1>7. /\ outbox' \in Seq(Nat) /\ Len(outbox') = Len(kept) + 1
      /\ Rises(outbox') /\ Within(outbox', n)
      /\ Precedes(said, outbox') /\ Precedes(sending, outbox')
  <2>1. n \in 1..n /\ notices <= n
    BY <1>1, <1>3
  <2> QED BY <1>3, <1>4, <1>5, <1>6, <2>1, AppendInherits DEF NoticeInv, Accepted
<1>8. NoticeTypes'
  BY <1>1, <1>2, <1>3, <1>4, <1>7 DEF NoticeInv, NoticeTypes
<1>9. Accepted' /\ InLine'
  BY <1>2, <1>6, <1>7 DEF NoticeInv, Accepted, InLine
<1>10. AddsUp'
  <2>1. Len(outbox') + dropped' = Len(outbox) + dropped + 1
    BY <1>3, <1>4, <1>7
  <2>2. Total' = Total + 1 /\ Total \in Nat
    BY <2>1, <1>2, <1>3, <1>4, <1>7 DEF Total
  <2> QED BY <2>2, <1>1, <1>2, <1>3 DEF NoticeInv, AddsUp
<1> QED BY <1>8, <1>9, <1>10 DEF NoticeInv

\* A pass takes the first of the outbox.
LEMMA DrainInLine == ASSUME NoticeInv, Drain PROVE NoticeInv'
<1>1. PICK n : n = IF Len(outbox) < DrainLimit THEN Len(outbox) ELSE DrainLimit
  OBVIOUS
<1>2. /\ sending = <<>>
      /\ sending' = SubSeq(outbox, 1, n)
      /\ outbox' = SubSeq(outbox, n + 1, Len(outbox))
      /\ UNCHANGED <<changes, faults, said, notices, dropped>>
  BY <1>1 DEF Drain, faultVars
<1>3. /\ outbox \in Seq(Nat) /\ Len(outbox) \in Nat /\ n \in 0..Len(outbox)
      /\ n <= DrainLimit /\ DrainLimit \in Nat /\ said \in Seq(Nat) /\ Len(said) \in Nat
  BY <1>1, CardAssumption DEF NoticeInv, NoticeTypes
<1>4. /\ sending' \in Seq(Nat) /\ Len(sending') = n
      /\ DOMAIN sending' = 1..n /\ Part(sending', outbox, 0)
  BY <1>2, <1>3 DEF Part
<1>5. /\ outbox' \in Seq(Nat) /\ Len(outbox') = Len(outbox) - n
      /\ Part(outbox', outbox, n)
  <2>1. /\ outbox' \in Seq(Nat) /\ Len(outbox') = Len(outbox) - n
        /\ DOMAIN outbox' = 1..(Len(outbox) - n)
        /\ \A i \in 1..(Len(outbox) - n) : outbox'[i] = outbox[i + n]
    BY <1>2, <1>3
  <2>2. \A i \in 1..(Len(outbox) - n) : i + n \in 1..Len(outbox)
    BY <1>3
  <2>3. DOMAIN outbox = 1..Len(outbox)
    BY <1>3
  <2> QED BY <2>1, <2>2, <2>3 DEF Part
<1>6. NoticeTypes'
  <2>1. Len(outbox') <= Len(outbox) /\ Len(sending') <= DrainLimit
    BY <1>3, <1>4, <1>5
  <2>2. OutboxSize \in Nat /\ Len(outbox) <= OutboxSize /\ Len(outbox') \in Nat
    BY <1>5, CardAssumption DEF NoticeInv, NoticeTypes
  <2>3. Len(outbox') <= OutboxSize
    BY <2>1, <2>2, <1>3
  <2> QED BY <2>1, <2>3, <1>2, <1>4, <1>5 DEF NoticeInv, NoticeTypes
<1>7. /\ Within(outbox', notices) /\ Rises(outbox') /\ Precedes(said, outbox')
      /\ Within(sending', notices) /\ Rises(sending') /\ Precedes(said, sending')
  BY <1>3, <1>4, <1>5, PartInherits DEF NoticeInv, Accepted, InLine
<1>8. Precedes(sending', outbox')
  <2> SUFFICES ASSUME NEW i \in DOMAIN sending', NEW j \in DOMAIN outbox'
               PROVE  sending'[i] < outbox'[j]
    BY DEF Precedes
  <2>1. i \in DOMAIN outbox /\ sending'[i] = outbox[i]
    BY <1>3, <1>4 DEF Part
  <2>2. j + n \in DOMAIN outbox /\ outbox'[j] = outbox[j + n] /\ i < j + n
    BY <1>3, <1>4, <1>5 DEF Part
  <2> QED BY <2>1, <2>2 DEF NoticeInv, InLine, Rises
<1>9. Accepted' /\ InLine'
  BY <1>2, <1>7, <1>8 DEF NoticeInv, Accepted, InLine
<1>10. AddsUp'
  <2>1. Len(sending) = 0
    BY <1>2
  <2>2. Len(sending') + Len(outbox') = Len(sending) + Len(outbox)
    BY <2>1, <1>3, <1>4, <1>5
  <2>3. dropped \in Nat
    BY DEF NoticeInv, NoticeTypes
  <2>4. /\ Len(sending') \in Nat /\ Len(outbox') \in Nat /\ dropped' = dropped
        /\ Len(said') = Len(said) /\ Len(said) \in Nat
        /\ Len(sending) \in Nat /\ Len(outbox) \in Nat
    BY <2>1, <1>2, <1>3, <1>4, <1>5
  <2>5. Total' = Total
    BY <2>2, <2>3, <2>4 DEF Total
  <2> QED BY <2>5, <1>2 DEF NoticeInv, AddsUp
<1> QED BY <1>6, <1>9, <1>10 DEF NoticeInv

\* It sends the first of what it took.
LEMMA SendInLine == ASSUME NoticeInv, SendNotice PROVE NoticeInv'
<1>1. PICK h : h = Head(sending)
  OBVIOUS
<1>2. /\ sending # <<>>
      /\ said' = Append(said, h) /\ sending' = Tail(sending)
      /\ UNCHANGED <<changes, faults, outbox, notices, dropped>>
  BY <1>1 DEF SendNotice, faultVars
<1>3. /\ sending \in Seq(Nat) /\ Len(sending) \in Nat \ {0} /\ h = sending[1]
      /\ said \in Seq(Nat) /\ Len(said) \in Nat /\ outbox \in Seq(Nat)
      /\ 1 \in DOMAIN sending /\ h \in Nat /\ DrainLimit \in Nat /\ notices \in Nat
  BY <1>1, <1>2, CardAssumption DEF NoticeInv, NoticeTypes
<1>4. /\ sending' \in Seq(Nat) /\ Len(sending') = Len(sending) - 1
      /\ DOMAIN sending' = 1..(Len(sending) - 1) /\ Part(sending', sending, 1)
  BY <1>2, <1>3 DEF Part
<1>5. /\ Rises(sending') /\ Within(sending', notices)
      /\ Precedes(said, sending') /\ Precedes(sending', outbox)
  BY <1>3, <1>4, PartInherits DEF NoticeInv, Accepted, InLine
<1>6. /\ \A i \in DOMAIN said : said[i] < h
      /\ \A i \in DOMAIN outbox : h < outbox[i]
      /\ h \in 1..notices
  BY <1>3 DEF NoticeInv, Accepted, InLine, Precedes, Within
<1>7. \A i \in DOMAIN sending' : h < sending'[i]
  <2> SUFFICES ASSUME NEW i \in DOMAIN sending' PROVE h < sending'[i]
    OBVIOUS
  <2>1. i + 1 \in DOMAIN sending /\ sending'[i] = sending[i + 1] /\ 1 < i + 1
    BY <1>3, <1>4 DEF Part
  <2> QED BY <2>1, <1>3 DEF NoticeInv, InLine, Rises
<1>8. /\ said' \in Seq(Nat) /\ Len(said') = Len(said) + 1
      /\ Rises(said') /\ Within(said', notices)
      /\ Precedes(said', sending') /\ Precedes(said', outbox)
  <2>1. notices <= notices
    BY <1>3
  <2>2. Rises(said) /\ Within(said, notices) /\ Precedes(said, outbox)
    BY DEF NoticeInv, Accepted, InLine
  <2>3. DOMAIN said = 1..Len(said)
    BY <1>3
  <2>4. Rises(said')
    BY <1>2, <1>3, <1>6, <2>2, AppendInherits
  <2>5. Within(said', notices)
    BY <1>2, <1>3, <1>6, <2>1, <2>2, AppendInherits
  <2>6. Precedes(said', sending')
    <3>1. DOMAIN said' = 1..(Len(said) + 1) /\ said'[Len(said) + 1] = h
          /\ \A i \in DOMAIN said : said'[i] = said[i]
      BY <1>2, <1>3
    <3>2. \A i \in DOMAIN said' : i \in DOMAIN said \/ i = Len(said) + 1
      BY <3>1, <1>3
    <3> QED BY <3>1, <3>2, <1>5, <1>7 DEF Precedes
  <2>7. Precedes(said', outbox)
    BY <1>2, <1>3, <1>6, <2>2, AppendInherits
  <2> QED BY <1>2, <1>3, <2>4, <2>5, <2>6, <2>7, AppendInherits
<1>9. NoticeTypes'
  BY <1>2, <1>3, <1>4, <1>8 DEF NoticeInv, NoticeTypes
<1>10. Accepted' /\ InLine'
  BY <1>2, <1>5, <1>8 DEF NoticeInv, Accepted, InLine
<1>11. AddsUp'
  <2>1. Len(said') + Len(sending') = Len(said) + Len(sending)
    BY <1>3, <1>4, <1>8
  <2>2. dropped \in Nat /\ Len(outbox) \in Nat
    BY <1>3 DEF NoticeInv, NoticeTypes
  <2>3. Total' = Total
    BY <2>1, <2>2, <1>2, <1>3, <1>4, <1>8 DEF Total
  <2> QED BY <2>3, <1>2 DEF NoticeInv, AddsUp
<1> QED BY <1>9, <1>10, <1>11 DEF NoticeInv

\* A fault forgets what a pass had taken, and a restart also what waits.
LEMMA FaultInLine ==
  ASSUME NoticeInv, faults < MaxFaults, faults' = faults + 1,
         sending' = <<>> \/ sending' = sending,
         outbox' = <<>> \/ outbox' = outbox,
         UNCHANGED <<changes, said, notices, dropped>>
  PROVE  NoticeInv'
<1>1. <<>> \in Seq(Nat) /\ Len(<<>>) = 0 /\ DOMAIN <<>> = {}
  OBVIOUS
<1>2. NoticeTypes'
  <2>1. faults' \in 0..MaxFaults /\ MaxFaults \in Nat
    BY CardAssumption DEF NoticeInv, NoticeTypes
  <2>2. {OutboxSize, DrainLimit} \subseteq Nat
    BY CardAssumption
  <2>3. outbox' \in Seq(Nat) /\ Len(outbox') <= OutboxSize
    <3>1. CASE outbox' = outbox
      BY <3>1 DEF NoticeInv, NoticeTypes
    <3>2. CASE outbox' = <<>>
      BY <1>1, <2>2, <3>2
    <3> QED BY <3>1, <3>2
  <2>4. sending' \in Seq(Nat) /\ Len(sending') <= DrainLimit
    <3>1. CASE sending' = sending
      BY <3>1 DEF NoticeInv, NoticeTypes
    <3>2. CASE sending' = <<>>
      BY <1>1, <2>2, <3>2
    <3> QED BY <3>1, <3>2
  <2> QED BY <2>1, <2>3, <2>4 DEF NoticeInv, NoticeTypes
<1>3. Accepted' /\ InLine'
  BY <1>1 DEF NoticeInv, Accepted, InLine, Rises, Precedes, Within
<1>4. AddsUp'
  BY <1>1 DEF NoticeInv, AddsUp, NoticeTypes, Total
<1> QED BY <1>2, <1>3, <1>4 DEF NoticeInv

\* The rest of the system leaves the notifications alone.
LEMMA OthersInLine ==
  ASSUME NoticeInv, UNCHANGED outboxVars, faults' = faults,
         changes' = changes \/ (changes < MaxChanges /\ changes' = changes + 1)
  PROVE  NoticeInv'
<1>1. UNCHANGED <<outbox, sending, said, notices, dropped>>
  BY DEF outboxVars
<1>2. NoticeTypes'
  BY <1>1, CardAssumption DEF NoticeInv, NoticeTypes
<1>3. Accepted' /\ InLine' /\ AddsUp'
  BY <1>1 DEF NoticeInv, Accepted, InLine, AddsUp, Total
<1> QED BY <1>2, <1>3 DEF NoticeInv

LEMMA NoticesGoOn == NoticeInv /\ [Next]_vars => NoticeInv'
<1> SUFFICES ASSUME NoticeInv, [Next]_vars PROVE NoticeInv'
  OBVIOUS
<1>1. ASSUME NEW r \in Recs, Elsewhere(r) PROVE NoticeInv'
  BY <1>1, OthersInLine DEF Elsewhere, faultVars
<1>2. CASE Notify
  BY <1>2, NotifyInLine
<1>3. ASSUME NEW c \in Coroutines, Draw(c) PROVE NoticeInv'
  BY <1>3, OthersInLine
     DEF Draw, ReadRec, ReadLive, Send, Redraw, Missing, Forget, Record, Finish, faultVars
<1>4. CASE Plan \/ Begin
  BY <1>4, OthersInLine DEF Plan, Begin, faultVars
<1>5. CASE Drain \/ SendNotice
  BY <1>5, DrainInLine, SendInLine
<1>6. ASSUME NEW c \in Presses, NEW i \in DOMAIN msgs, NEW b \in Buttons, Press(c, i, b)
      PROVE  NoticeInv'
  BY <1>6, OthersInLine DEF Press, faultVars
<1>7. ASSUME NEW c \in Presses, Decide(c) \/ Refuse(c) PROVE NoticeInv'
  BY <1>7, OthersInLine DEF Decide, Refuse, faultVars
<1>8. ASSUME NEW c \in Coroutines, GiveUp(c) PROVE NoticeInv'
  BY <1>8, FaultInLine DEF GiveUp
<1>9. CASE Restart
  BY <1>9, FaultInLine DEF Restart
<1>10. ASSUME NEW i \in DOMAIN msgs, Delete(i) PROVE NoticeInv'
  BY <1>10, FaultInLine DEF Delete, outboxVars
<1>11. CASE UNCHANGED vars
  BY <1>11, OthersInLine DEF vars, faultVars
<1> QED BY <1>1, <1>2, <1>3, <1>4, <1>5, <1>6, <1>7, <1>8, <1>9, <1>10, <1>11
      DEF Next, Publish, Handle, Coroutines

\* What the owner has received is in the order in which it was accepted
\* (notify/discord.py), for any outbox, pass limit and faults.
THEOREM OwnerHearsInOrder == Spec => []NoticesInOrder
<1>1. NoticeInv => NoticesInOrder
  BY DEF NoticeInv, InLine, Rises, NoticesInOrder
<1> QED BY NoticesBegin, NoticesGoOn, <1>1, PTL DEF Spec

-----------------------------------------------------------------------------
(* Part 2, the types of the rest.                                          *)

Message == [rec : Recs, card : Card, deleted : BOOLEAN]
Position(n) ==
  [pc : {"rest", "pressed", "read", "live", "draw", "forget", "record"},
   rec : Recs, msg : 0..n, card : Card, button : Buttons]
Row(n) == [msg : 0..n, key : Key]

CardTypes ==
  /\ store \in [Recs -> Stored]
  /\ msgs \in Seq(Message)
  /\ record \in [Recs -> Row(Len(msgs))]
  /\ todo \in Seq(Task)
  /\ at \in [Coroutines -> Position(Len(msgs))]

LEMMA StoredParts ==
  /\ \A x \in Stored :
       /\ x = [status |-> x.status, payload |-> x.payload, live |-> x.live,
               elapsed |-> x.elapsed]
       /\ x.status \in Statuses /\ x.payload \in Payloads
       /\ x.live \in BOOLEAN /\ x.elapsed \in BOOLEAN
  /\ \A s \in Statuses, p \in Payloads, l \in BOOLEAN, e \in BOOLEAN :
       [status |-> s, payload |-> p, live |-> l, elapsed |-> e] \in Stored
  BY DEF Stored

LEMMA CardParts ==
  /\ \A k \in Key : k.status \in Statuses /\ k.live \in BOOLEAN
  /\ \A s \in Statuses, l \in BOOLEAN : [status |-> s, live |-> l] \in Key
  /\ \A d \in Card : d.key \in Key /\ d.payload \in Payloads /\ d.buttons \in SUBSET Buttons
  /\ \A k \in Key, p \in Payloads, b \in SUBSET Buttons :
       [key |-> k, payload |-> p, buttons |-> b] \in Card
<1>1. /\ \A k \in Key : k.status \in Statuses /\ k.live \in BOOLEAN
      /\ \A s \in Statuses, l \in BOOLEAN : [status |-> s, live |-> l] \in Key
  BY DEF Key
<1>2. /\ \A d \in Card : d.key \in Key /\ d.payload \in Payloads /\ d.buttons \in SUBSET Buttons
      /\ \A k \in Key, p \in Payloads, b \in SUBSET Buttons :
           [key |-> k, payload |-> p, buttons |-> b] \in Card
  BY DEF Card
<1> QED BY <1>1, <1>2

LEMMA RestIsPosition == NoKey \in Key /\ NoCard \in Card /\ \A n \in Nat : AtRest \in Position(n)
<1>1. NoKey \in Key
  BY CardParts DEF NoKey, Statuses
<1>2. (CHOOSE p \in Payloads : TRUE) \in Payloads
  BY CardAssumption
<1>3. NoCard \in Card
  BY <1>1, <1>2, CardParts DEF NoCard
<1>4. 1 \in Recs
  BY CardAssumption DEF Recs
<1>5. ASSUME NEW n \in Nat PROVE AtRest \in Position(n)
  BY <1>3, <1>4 DEF AtRest, Position, NoMsg, Buttons
<1> QED BY <1>1, <1>3, <1>5

\* Whatever is decided, the recommendations keep their shape.
LEMMA DecisionsType ==
  ASSUME store \in [Recs -> Stored], NEW r \in Recs,
         \/ Propose(r) \/ Approve(r) \/ Close(r) \/ LoseApproval(r) \/ Elapse(r)
         \/ \E p \in Payloads : Edit(r, p)
  PROVE  store' \in [Recs -> Stored]
<1>1. PICK x \in Stored : x = store[r]
  OBVIOUS
<1>2. \A y \in Stored : [store EXCEPT ![r] = y] \in [Recs -> Stored]
  OBVIOUS
<1>3. {"proposed", "approved", "closed"} \subseteq Statuses /\ {TRUE, FALSE} \subseteq BOOLEAN
  BY DEF Statuses
<1>4. CASE Propose(r)
  <2>1. PICK y : y = [x EXCEPT !.status = "proposed"]
    OBVIOUS
  <2>2. y \in Stored
    BY <2>1, <1>3 DEF Stored
  <2>3. store' = [store EXCEPT ![r] = y]
    BY <1>4, <1>1, <2>1 DEF Propose
  <2> QED BY <2>2, <2>3, <1>2
<1>5. CASE Approve(r)
  <2>1. PICK y : y = [x EXCEPT !.status = "approved", !.live = TRUE]
    OBVIOUS
  <2>2. y \in Stored
    BY <2>1, <1>3 DEF Stored
  <2>3. store' = [store EXCEPT ![r] = y]
    BY <1>5, <1>1, <2>1 DEF Approve
  <2> QED BY <2>2, <2>3, <1>2
<1>6. CASE Close(r)
  <2>1. PICK y : y = [x EXCEPT !.status = "closed", !.live = FALSE]
    OBVIOUS
  <2>2. y \in Stored
    BY <2>1, <1>3 DEF Stored
  <2>3. store' = [store EXCEPT ![r] = y]
    BY <1>6, <1>1, <2>1 DEF Close
  <2> QED BY <2>2, <2>3, <1>2
<1>7. CASE LoseApproval(r)
  <2>1. PICK y : y = [x EXCEPT !.live = FALSE]
    OBVIOUS
  <2>2. y \in Stored
    BY <2>1, <1>3 DEF Stored
  <2>3. store' = [store EXCEPT ![r] = y]
    BY <1>7, <1>1, <2>1 DEF LoseApproval
  <2> QED BY <2>2, <2>3, <1>2
<1>8. CASE Elapse(r)
  <2>1. PICK y : y = [x EXCEPT !.elapsed = TRUE, !.live = FALSE]
    OBVIOUS
  <2>2. y \in Stored
    BY <2>1, <1>3 DEF Stored
  <2>3. store' = [store EXCEPT ![r] = y]
    BY <1>8, <1>1, <2>1 DEF Elapse
  <2> QED BY <2>2, <2>3, <1>2
<1>9. ASSUME NEW p \in Payloads, Edit(r, p) PROVE store' \in [Recs -> Stored]
  <2>1. PICK y : y = [x EXCEPT !.status = "proposed", !.live = FALSE, !.payload = p]
    OBVIOUS
  <2>2. y \in Stored
    BY <2>1, <1>3 DEF Stored
  <2>3. store' = [store EXCEPT ![r] = y]
    BY <1>9, <1>1, <2>1 DEF Edit
  <2> QED BY <2>2, <2>3, <1>2
<1> QED BY <1>4, <1>5, <1>6, <1>7, <1>8, <1>9

LEMMA SweptType == ASSUME store \in [Recs -> Stored] PROVE Swept \in [Recs -> Stored]
<1> SUFFICES ASSUME NEW r \in Recs PROVE Swept[r] \in Stored
  BY DEF Swept
<1>1. PICK x \in Stored : x = store[r]
  OBVIOUS
<1>2. PICK y : y = [x EXCEPT !.status = "closed"]
  OBVIOUS
<1>3. y \in Stored
  BY <1>2 DEF Stored, Statuses
<1> QED BY <1>1, <1>2, <1>3 DEF Swept

LEMMA Grows ==
  ASSUME NEW n \in Nat, NEW m \in Nat, n <= m
  PROVE  Position(n) \subseteq Position(m) /\ Row(n) \subseteq Row(m)
BY DEF Position, Row

\* The tasks of a pass.
LEMMA TasksType ==
  ASSUME NEW kind \in {"post", "refresh", "notices"},
         NEW S, S \subseteq Recs, NEW s \in Seq(S)
  PROVE  Tasks(kind, s) \in Seq(Task) /\ Len(Tasks(kind, s)) = Len(s)
<1>1. /\ DOMAIN s = 1..Len(s) /\ Len(s) \in Nat
      /\ \A i \in 1..Len(s) : s[i] \in Recs
  OBVIOUS
<1>2. \A i \in 1..Len(s) : [kind |-> kind, rec |-> s[i]] \in Task
  BY <1>1 DEF Task
<1> QED BY <1>1, <1>2 DEF Tasks

LEMMA OrderedType ==
  ASSUME NEW S \in SUBSET Recs
  PROVE  /\ Cardinality(S) \in Nat
         /\ Rising(S) \subseteq Seq(S) /\ Falling(S) \subseteq Seq(S)
<1>1. IsFiniteSet(S) /\ Cardinality(S) \in Nat
  <2>1. IsFiniteSet(Recs)
    BY FS_Interval, CardAssumption DEF Recs
  <2>2. IsFiniteSet(S)
    BY <2>1, FS_Subset
  <2> QED BY <2>2, FS_CardinalityType
<1> QED BY <1>1 DEF Rising, Falling

LEMMA PlanTypes == ASSUME CardTypes, Plan PROVE CardTypes'
<1>1. store' \in [Recs -> Stored]
  BY SweptType DEF CardTypes, Plan
<1>2. PICK posts \in Rising({r \in Recs : Postable(r, Swept)}),
           refreshes \in Falling({r \in Recs : Moved(r, Swept)}) :
        todo' = Tasks("post", posts) \o Tasks("refresh", refreshes) \o Tasks("notices", <<1>>)
  BY DEF Plan
<1>3. posts \in Seq(Recs) /\ refreshes \in Seq(Recs) /\ <<1>> \in Seq(Recs)
  <2>1. 1 \in Recs
    BY CardAssumption DEF Recs
  <2> QED BY <2>1, OrderedType
<1>4. todo' \in Seq(Task)
  BY <1>2, <1>3, TasksType, ConcatProperties
<1> QED BY <1>1, <1>4 DEF CardTypes, Plan

\* A coroutine moves.
LEMMA MoveTypes ==
  ASSUME CardTypes, NEW c \in Coroutines, NEW p \in Position(Len(msgs)),
         at' = [at EXCEPT ![c] = p],
         UNCHANGED <<msgs, record>>,
         store' \in [Recs -> Stored], todo' \in Seq(Task)
  PROVE  CardTypes'
BY DEF CardTypes

LEMMA BeginTypes == ASSUME CardTypes, Begin PROVE CardTypes'
<1>1. Len(msgs) \in Nat /\ Loop \in Coroutines
  BY DEF CardTypes, Coroutines
<1>0. Head(todo).rec \in Recs
  <2>1. Head(todo) \in Task
    BY DEF CardTypes, Begin
  <2> QED BY <2>1 DEF Task
<1>2. PICK p : p = [AtRest EXCEPT !.pc = "read", !.rec = Head(todo).rec]
  OBVIOUS
<1>3. p \in Position(Len(msgs))
  BY <1>0, <1>1, <1>2, RestIsPosition DEF Position
<1> QED BY <1>1, <1>2, <1>3, MoveTypes DEF Begin, CardTypes

LEMMA PressTypes ==
  ASSUME CardTypes, NEW c \in Presses, NEW i \in DOMAIN msgs, NEW b \in Buttons, Press(c, i, b)
  PROVE  CardTypes'
<1>1. /\ Len(msgs) \in Nat /\ i \in 0..Len(msgs) /\ c \in Coroutines
      /\ msgs[i] \in Message
  BY DEF CardTypes, Coroutines
<1>0. msgs[i].rec \in Recs /\ msgs[i].card \in Card
  BY <1>1 DEF Message
<1>2. PICK p : p = [pc |-> "pressed", rec |-> msgs[i].rec, msg |-> i,
                    card |-> msgs[i].card, button |-> b]
  OBVIOUS
<1>3. p \in Position(Len(msgs))
  BY <1>0, <1>1, <1>2 DEF Position
<1> QED BY <1>1, <1>2, <1>3, MoveTypes DEF Press, CardTypes

LEMMA HandledTypes ==
  ASSUME CardTypes, NEW c \in Presses, Decide(c) \/ Refuse(c) PROVE CardTypes'
<1>1. /\ Len(msgs) \in Nat /\ c \in Coroutines /\ at[c].rec \in Recs
      /\ at[c].msg \in 0..Len(msgs)
  BY DEF CardTypes, Coroutines, Position
<1>2. PICK p : p = [AtRest EXCEPT !.pc = "read", !.rec = at[c].rec, !.msg = at[c].msg]
  OBVIOUS
<1>3. p \in Position(Len(msgs))
  BY <1>1, <1>2, RestIsPosition DEF Position
<1>4. at' = [at EXCEPT ![c] = p] /\ UNCHANGED <<msgs, record, todo>>
  BY <1>2 DEF Decide, Refuse, Answered
<1>5. store' \in [Recs -> Stored]
  BY <1>1, DecisionsType DEF Decide, Refuse, CardTypes
<1> QED BY <1>1, <1>3, <1>4, <1>5, MoveTypes DEF CardTypes

LEMMA ButtonsType ==
  ASSUME NEW x, NEW y, NEW z PROVE ButtonsFor(x, y, z) \in SUBSET Buttons
BY DEF ButtonsFor, Buttons

LEMMA ReadTypes ==
  ASSUME CardTypes, NEW c \in Coroutines, ReadRec(c) \/ ReadLive(c) PROVE CardTypes'
<1>1. PICK q \in Position(Len(msgs)) : q = at[c]
  BY DEF CardTypes
<1>2. /\ q.rec \in Recs /\ q.card \in Card /\ q.msg \in 0..Len(msgs)
      /\ Len(msgs) \in Nat
  BY DEF Position, CardTypes
<1>3. PICK s \in Stored : s = store[q.rec]
  BY <1>2 DEF CardTypes
<1>4. CASE ReadRec(c)
  <2>1. PICK d : d = [key |-> KeyOf(s.status, FALSE), payload |-> s.payload, buttons |-> {}]
    OBVIOUS
  <2>2. KeyOf(s.status, FALSE) \in Key
    BY StoredParts, CardParts DEF KeyOf
  <2>3. d \in Card
    BY <2>1, <2>2, StoredParts, CardParts
  <2>4. PICK p : p = [q EXCEPT !.pc = "live", !.card = d]
    OBVIOUS
  <2>5. p \in Position(Len(msgs))
    BY <2>3, <2>4 DEF Position
  <2>6. at' = [at EXCEPT ![c] = p]
    BY <1>1, <1>3, <1>4, <2>1, <2>4 DEF ReadRec
  <2> QED BY <1>4, <2>5, <2>6, MoveTypes DEF ReadRec, CardTypes
<1>5. CASE ReadLive(c)
  <2>1. PICK m : m = IF c = Loop /\ Head(todo).kind = "refresh" THEN record[q.rec].msg ELSE q.msg
    OBVIOUS
  <2>2. PICK t : t = [s EXCEPT !.status = q.card.key.status]
    OBVIOUS
  <2>3. PICK d : d = [key |-> KeyOf(t.status, t.live), payload |-> q.card.payload,
                      buttons |-> ButtonsFor(t.status, t.live, t.elapsed)]
    OBVIOUS
  <2>4. m \in 0..Len(msgs)
    <3>1. record[q.rec] \in Row(Len(msgs))
      BY <1>2 DEF CardTypes
    <3>2. record[q.rec].msg \in 0..Len(msgs)
      BY <3>1 DEF Row
    <3> QED BY <1>2, <2>1, <3>2
  <2>5. t \in Stored
    <3>1. q.card.key.status \in Statuses
      BY <1>2, CardParts
    <3> QED BY <2>2, <3>1 DEF Stored
  <2>6. d \in Card
    <3>1. KeyOf(t.status, t.live) \in Key
      BY <2>5, StoredParts, CardParts DEF KeyOf
    <3> QED BY <1>2, <2>3, <3>1, ButtonsType, CardParts
  <2>7. PICK p : p = [q EXCEPT !.pc = "draw", !.msg = m, !.card = d]
    OBVIOUS
  <2>8. p \in Position(Len(msgs))
    BY <2>4, <2>6, <2>7 DEF Position
  <2>9. at' = [at EXCEPT ![c] = p]
    BY <1>1, <1>3, <1>5, <2>1, <2>2, <2>3, <2>7 DEF ReadLive
  <2> QED BY <1>5, <2>8, <2>9, MoveTypes DEF ReadLive, CardTypes
<1> QED BY <1>4, <1>5

LEMMA SendTypes == ASSUME CardTypes, NEW c \in Coroutines, Send(c) PROVE CardTypes'
<1>1. PICK q \in Position(Len(msgs)) : q = at[c]
  BY DEF CardTypes
<1>2. PICK e : e = [rec |-> q.rec, card |-> q.card, deleted |-> FALSE]
  OBVIOUS
<1>3. e \in Message
  BY <1>2 DEF Message, Position
<1>4. msgs' = Append(msgs, e)
  BY <1>1, <1>2 DEF Send
<1>5. Len(msgs) \in Nat /\ msgs' \in Seq(Message) /\ Len(msgs') = Len(msgs) + 1
  BY <1>3, <1>4 DEF CardTypes
<1>6. Position(Len(msgs)) \subseteq Position(Len(msgs')) /\ Row(Len(msgs)) \subseteq Row(Len(msgs'))
  BY <1>5, Grows
<1>7. PICK p : p = [q EXCEPT !.pc = "record", !.msg = Len(msgs) + 1]
  OBVIOUS
<1>8. p \in Position(Len(msgs'))
  <2>1. PICK n \in Nat : n = Len(msgs)
    BY <1>5
  <2>2. q.rec \in Recs /\ q.card \in Card /\ q.button \in Buttons /\ n + 1 \in 0..(n + 1)
    BY <2>1 DEF Position
  <2>3. p = [pc |-> "record", rec |-> q.rec, msg |-> n + 1, card |-> q.card, button |-> q.button]
    BY <1>7, <2>1 DEF Position
  <2>4. p \in Position(n + 1)
    BY <2>2, <2>3 DEF Position
  <2> QED BY <2>1, <2>4, <1>5
<1>9. at' = [at EXCEPT ![c] = p] /\ UNCHANGED <<store, record, todo>>
  BY <1>1, <1>7 DEF Send
<1> QED BY <1>5, <1>6, <1>8, <1>9 DEF CardTypes

LEMMA RedrawTypes == ASSUME CardTypes, NEW c \in Coroutines, Redraw(c) PROVE CardTypes'
<1>1. PICK q \in Position(Len(msgs)) : q = at[c]
  BY DEF CardTypes
<1>2. q.msg \in DOMAIN msgs /\ q.card \in Card /\ Len(msgs) \in Nat
  BY <1>1 DEF Redraw, Position, CardTypes, NoMsg
<1>3. PICK e : e = [msgs[q.msg] EXCEPT !.card = q.card]
  OBVIOUS
<1>4. e \in Message
  <2>1. msgs[q.msg] \in Message
    BY <1>2 DEF CardTypes
  <2> QED BY <2>1, <1>2, <1>3 DEF Message
<1>5. msgs' = [msgs EXCEPT ![q.msg] = e]
  BY <1>1, <1>3 DEF Redraw
<1>6. msgs' \in Seq(Message) /\ Len(msgs') = Len(msgs)
  BY <1>2, <1>4, <1>5 DEF CardTypes
<1>7. PICK p : p = [q EXCEPT !.pc = "record"]
  OBVIOUS
<1>8. p \in Position(Len(msgs))
  BY <1>7 DEF Position
<1>9. at' = [at EXCEPT ![c] = p] /\ UNCHANGED <<store, record, todo>>
  BY <1>1, <1>7 DEF Redraw
<1> QED BY <1>6, <1>8, <1>9 DEF CardTypes

LEMMA MissingTypes == ASSUME CardTypes, NEW c \in Coroutines, Missing(c) PROVE CardTypes'
<1>1. PICK q \in Position(Len(msgs)) : q = at[c]
  BY DEF CardTypes
<1>2. PICK p : p = IF c = Loop THEN [q EXCEPT !.pc = "forget"] ELSE AtRest
  OBVIOUS
<1>3. p \in Position(Len(msgs))
  <2>1. [q EXCEPT !.pc = "forget"] \in Position(Len(msgs))
    BY DEF Position
  <2> QED BY <1>2, <2>1, RestIsPosition DEF CardTypes
<1>4. at' = [at EXCEPT ![c] = p]
  BY <1>1, <1>2 DEF Missing
<1> QED BY <1>3, <1>4, MoveTypes DEF Missing, CardTypes

LEMMA FinishTypes ==
  ASSUME CardTypes, NEW c \in Coroutines, NEW row \in Row(Len(msgs)), Finish(c, row),
         c = Loop => todo # <<>>
  PROVE  CardTypes'
<1>1. at[c].rec \in Recs /\ AtRest \in Position(Len(msgs)) /\ Len(msgs) \in Nat
  BY RestIsPosition DEF CardTypes, Position
<1>2. todo' \in Seq(Task)
  BY DEF Finish, CardTypes
<1>3. /\ record' = [record EXCEPT ![at[c].rec] = row]
      /\ at' = [at EXCEPT ![c] = AtRest]
      /\ UNCHANGED <<store, msgs>>
  BY DEF Finish
<1> QED BY <1>1, <1>2, <1>3 DEF CardTypes

\* The loop is never between two tasks and at work at the same time.
LoopHasTask == at[Loop].pc # "rest" => todo # <<>>

LEMMA DrawTypes ==
  ASSUME CardTypes, LoopHasTask, NEW c \in Coroutines, Draw(c) PROVE CardTypes'
<1>1. CASE Forget(c)
  <2>1. NoRecord \in Row(Len(msgs))
    BY RestIsPosition DEF NoRecord, Row, NoMsg, CardTypes
  <2>2. c = Loop => todo # <<>>
    BY <1>1 DEF Forget, LoopHasTask
  <2> QED BY <1>1, <2>1, <2>2, FinishTypes DEF Forget
<1>2. CASE Record(c)
  <2>1. PICK q \in Position(Len(msgs)) : q = at[c]
    BY DEF CardTypes
  <2>2. PICK row : row = [msg |-> q.msg, key |-> q.card.key]
    OBVIOUS
  <2>3. row \in Row(Len(msgs))
    <3>1. q.card \in Card /\ q.msg \in 0..Len(msgs)
      BY DEF Position
    <3> QED BY <2>2, <3>1, CardParts DEF Row
  <2>4. Finish(c, row) /\ (c = Loop => todo # <<>>)
    BY <1>2, <2>1, <2>2 DEF Record, LoopHasTask
  <2> QED BY <2>3, <2>4, FinishTypes
<1> QED BY <1>1, <1>2, ReadTypes, SendTypes, RedrawTypes, MissingTypes DEF Draw

LEMMA TaskGoesOn == CardTypes /\ LoopHasTask /\ [Next]_vars => LoopHasTask'
<1> SUFFICES ASSUME CardTypes, LoopHasTask, [Next]_vars PROVE LoopHasTask'
  OBVIOUS
<1>0. /\ Loop \in Coroutines /\ Loop \notin Presses
      /\ \A c \in Presses : c \in Coroutines
  BY DEF Coroutines, Presses, Loop
<1>2. ASSUME NEW r \in Recs, Elsewhere(r) PROVE LoopHasTask'
  BY <1>2 DEF Elsewhere, LoopHasTask
<1>3. CASE Notify
  BY <1>3 DEF Notify, LoopHasTask, cardVars
<1>4. CASE Plan \/ Drain \/ SendNotice
  BY <1>4 DEF Plan, Drain, SendNotice, AtNotices, LoopHasTask
<1>5. CASE Begin
  BY <1>5 DEF Begin, LoopHasTask
<1>6. ASSUME NEW c \in Coroutines, Draw(c) PROVE LoopHasTask'
  <2>1. CASE c # Loop
    BY <1>0, <1>6, <2>1
       DEF LoopHasTask, CardTypes, Draw, ReadRec, ReadLive, Send, Redraw, Missing, Forget, Record, Finish
  <2>2. CASE c = Loop
    <3>1. todo # <<>>
      BY <1>6, <2>2 DEF LoopHasTask, Draw, ReadRec, ReadLive, Send, Redraw, Missing, Forget, Record
    <3>2. CASE Forget(c) \/ Record(c)
      <4>1. at' = [at EXCEPT ![Loop] = AtRest]
        BY <2>2, <3>2 DEF Forget, Record, Finish
      <4>2. at'[Loop].pc = "rest"
        BY <1>0, <4>1 DEF CardTypes, AtRest
      <4> QED BY <4>2 DEF LoopHasTask
    <3>3. CASE ~(Forget(c) \/ Record(c))
      BY <1>6, <3>1, <3>3 DEF Draw, ReadRec, ReadLive, Send, Redraw, Missing, LoopHasTask
    <3> QED BY <3>2, <3>3
  <2> QED BY <2>1, <2>2
<1>7. ASSUME NEW c \in Presses, NEW i \in DOMAIN msgs, NEW b \in Buttons, Press(c, i, b)
      PROVE  LoopHasTask'
  BY <1>0, <1>7 DEF Press, LoopHasTask, CardTypes
<1>8. ASSUME NEW c \in Presses, Decide(c) \/ Refuse(c) PROVE LoopHasTask'
  BY <1>0, <1>8 DEF Decide, Refuse, Answered, LoopHasTask, CardTypes
<1>9. ASSUME NEW c \in Coroutines, GiveUp(c) PROVE LoopHasTask'
  <2>1. CASE c = Loop
    <3>1. at' = [at EXCEPT ![Loop] = AtRest]
      BY <1>9, <2>1 DEF GiveUp
    <3>2. at'[Loop].pc = "rest"
      BY <1>0, <3>1 DEF CardTypes, AtRest
    <3> QED BY <3>2 DEF LoopHasTask
  <2>2. CASE c # Loop
    BY <1>9, <2>2, <1>0 DEF GiveUp, LoopHasTask, CardTypes
  <2> QED BY <2>1, <2>2
<1>10. CASE Restart
  <2>1. at'[Loop] = AtRest
    BY <1>0, <1>10 DEF Restart
  <2> QED BY <2>1 DEF LoopHasTask, AtRest
<1>11. ASSUME NEW i \in DOMAIN msgs, Delete(i) PROVE LoopHasTask'
  BY <1>11 DEF Delete, LoopHasTask
<1>12. CASE UNCHANGED vars
  BY <1>12 DEF vars, cardVars, LoopHasTask
<1> QED BY <1>0, <1>2, <1>3, <1>4, <1>5, <1>6, <1>7, <1>8, <1>9, <1>10, <1>11, <1>12
      DEF Next, Publish, Handle

\* What goes wrong leaves everything well formed.
LEMMA FaultTypes ==
  ASSUME CardTypes,
         \/ \E c \in Coroutines : GiveUp(c)
         \/ Restart
         \/ \E i \in DOMAIN msgs : Delete(i)
  PROVE  CardTypes'
<1>1. Len(msgs) \in Nat /\ AtRest \in Position(Len(msgs)) /\ <<>> \in Seq(Task)
  BY RestIsPosition DEF CardTypes
<1>2. ASSUME NEW c \in Coroutines, GiveUp(c) PROVE CardTypes'
  BY <1>1, <1>2, MoveTypes DEF GiveUp, CardTypes
<1>3. CASE Restart
  BY <1>1, <1>3 DEF Restart, CardTypes
<1>4. ASSUME NEW i \in DOMAIN msgs, Delete(i) PROVE CardTypes'
  <2>1. PICK m \in Message : m = msgs[i]
    BY DEF CardTypes
  <2>2. PICK e : e = [m EXCEPT !.deleted = TRUE]
    OBVIOUS
  <2>3. e \in Message
    BY <2>2 DEF Message
  <2>4. msgs' = [msgs EXCEPT ![i] = e]
    BY <1>4, <2>1, <2>2 DEF Delete
  <2>5. msgs' \in Seq(Message) /\ Len(msgs') = Len(msgs)
    BY <2>3, <2>4 DEF CardTypes
  <2> QED BY <1>4, <2>5 DEF Delete, CardTypes
<1> QED BY <1>2, <1>3, <1>4

LEMMA TypesBegin == Init => CardTypes /\ LoopHasTask
<1> SUFFICES ASSUME Init PROVE CardTypes /\ LoopHasTask
  OBVIOUS
<1>1. msgs = <<>> /\ todo = <<>> /\ Len(<<>>) = 0 /\ msgs \in Seq(Message) /\ todo \in Seq(Task)
  BY DEF Init
<1>2. at = [c \in Coroutines |-> AtRest] /\ AtRest \in Position(0)
  BY RestIsPosition DEF Init
<1>3. record = [r \in Recs |-> NoRecord] /\ NoRecord \in Row(0)
  BY RestIsPosition DEF Init, NoRecord, Row, NoMsg
<1>4. store \in [Recs -> Stored]
  <2>1. NoCard.payload \in Payloads
    BY RestIsPosition, CardParts
  <2>2. [status |-> "none", payload |-> NoCard.payload, live |-> FALSE, elapsed |-> FALSE] \in Stored
    BY <2>1, StoredParts DEF Statuses
  <2> QED BY <2>2 DEF Init
<1>5. LoopHasTask
  BY <1>2 DEF LoopHasTask, Coroutines, AtRest
<1> QED BY <1>1, <1>2, <1>3, <1>4, <1>5 DEF CardTypes

LEMMA TypesGoOn == CardTypes /\ LoopHasTask /\ [Next]_vars => CardTypes'
<1> SUFFICES ASSUME CardTypes, LoopHasTask, [Next]_vars PROVE CardTypes'
  OBVIOUS
<1>1. ASSUME NEW r \in Recs, Elsewhere(r) PROVE CardTypes'
  <2>1. store' \in [Recs -> Stored]
    BY <1>1, DecisionsType DEF Elsewhere, CardTypes
  <2> QED BY <1>1, <2>1 DEF Elsewhere, CardTypes
<1>2. CASE Notify
  BY <1>2 DEF Notify, cardVars, CardTypes
<1>3. CASE Drain \/ SendNotice
  <2>1. todo' \in Seq(Task)
    BY <1>3 DEF Drain, SendNotice, EndPass, CardTypes
  <2> QED BY <1>3, <2>1 DEF Drain, SendNotice, CardTypes
<1>4. CASE UNCHANGED vars
  BY <1>4 DEF vars, cardVars, CardTypes
<1>5. Loop \in Coroutines /\ \A c \in Presses : c \in Coroutines
  BY DEF Coroutines
<1> QED BY <1>1, <1>2, <1>3, <1>4, <1>5, PlanTypes, BeginTypes, PressTypes, HandledTypes,
           DrawTypes, FaultTypes DEF Next, Publish, Handle

CauseTypes == causes \in [Recs -> Nat]

LEMMA CausesGoOn == CardTypes /\ CauseTypes /\ [Next]_vars => CauseTypes'
<1> SUFFICES ASSUME CardTypes, causes \in [Recs -> Nat], [Next]_vars
             PROVE  causes' \in [Recs -> Nat]
  BY DEF CauseTypes
<1>1. CASE UNCHANGED causes
  BY <1>1
<1>2. Orphaned \in [Recs -> Nat]
  <2>1. causes[at[Loop].rec] + 1 \in Nat
    BY DEF CardTypes, Coroutines, Position
  <2> QED BY <2>1 DEF Orphaned
<1>3. ASSUME NEW i \in DOMAIN msgs, Delete(i) PROVE causes' \in [Recs -> Nat]
  <2>1. Cardinality(Recording(i)) \in Nat
    <3>1. IsFiniteSet(Presses)
      BY FS_Interval, CardAssumption DEF Presses
    <3> QED BY <3>1, FS_Subset, FS_CardinalityType DEF Recording
  <2>2. msgs[i].rec \in Recs
    <3>1. msgs[i] \in Message
      BY DEF CardTypes
    <3> QED BY <3>1 DEF Message
  <2>3. causes[msgs[i].rec] + 1 + Cardinality(Recording(i)) \in Nat
    BY <2>1, <2>2
  <2> QED BY <1>3, <2>3 DEF Delete
<1>4. \/ UNCHANGED causes
      \/ causes' = Orphaned
      \/ \E i \in DOMAIN msgs : Delete(i)
  BY DEF Next, vars, cardVars, faultVars, Publish, Handle, Elsewhere, Notify, Plan, Begin, Drain,
         SendNotice, Draw, ReadRec, ReadLive, Send, Redraw, Missing, Forget, Record, Finish,
         Press, Decide, Refuse, GiveUp, Restart
<1> QED BY <1>1, <1>2, <1>3, <1>4

\* Every reachable state is of the declared types.
THEOREM TypeCorrect == Spec => []TypeOK
<1>1. CardTypes /\ NoticeInv /\ CauseTypes => TypeOK
  <2> SUFFICES ASSUME CardTypes, NoticeInv, CauseTypes PROVE TypeOK
    OBVIOUS
  <2>1. notices \in 0..MaxChanges
    BY CardAssumption DEF NoticeInv, NoticeTypes
  <2>2. dropped \in 0..notices
    BY DEF NoticeInv, NoticeTypes, AddsUp, Total
  <2>3. {outbox, sending, said} \subseteq Seq(1..notices)
    <3>1. ASSUME NEW s \in Seq(Nat), Within(s, notices) PROVE s \in Seq(1..notices)
      <4>1. Len(s) \in Nat /\ DOMAIN s = 1..Len(s) /\ s = [i \in 1..Len(s) |-> s[i]]
        OBVIOUS
      <4>2. \A i \in 1..Len(s) : s[i] \in 1..notices
        BY <3>1, <4>1 DEF Within
      <4>3. s \in [1..Len(s) -> 1..notices]
        BY <4>1, <4>2
      <4>4. s \in UNION {[1..n -> 1..notices] : n \in Nat}
        BY <4>1, <4>3
      <4>5. Seq(1..notices) = UNION {[1..n -> 1..notices] : n \in Nat}
        BY SeqDef, Zenon
      <4> QED BY <4>4, <4>5, Zenon
    <3> QED BY <3>1 DEF NoticeInv, NoticeTypes, Accepted
  <2> QED BY <2>1, <2>2, <2>3
          DEF TypeOK, CauseTypes, CardTypes, NoticeInv, NoticeTypes, Message, Position, Row
<1>2. Init => CauseTypes
  BY DEF Init, CauseTypes
<1> QED BY TypesBegin, TypesGoOn, TaskGoesOn, CausesGoOn, NoticesBegin, NoticesGoOn, <1>1, <1>2, PTL
       DEF Spec

-----------------------------------------------------------------------------
(* Part 3, the cards and their causes.                                     *)

\* A message that has vanished from the DM.
Gone(m) == m # NoMsg /\ msgs[m].deleted
CardIs(m, r) == m # NoMsg => m \in DOMAIN msgs /\ msgs[m].rec = r
Recorded == \A r \in Recs : CardIs(record[r].msg, r)
InHand == \A c \in Coroutines :
  /\ CardIs(at[c].msg, at[c].rec)
  /\ at[c].pc = "forget" => c = Loop /\ Gone(at[c].msg)
  /\ c \in Presses /\ at[c].pc # "rest" => at[c].msg # NoMsg

\* Where the loop stands in the task at the head of its pass.
AtTask(p) ==
  /\ todo # <<>> /\ todo[1].rec = p.rec /\ todo[1].kind # "notices"
  /\ p.pc \in {"read", "live"} => p.msg = NoMsg
  /\ p.pc \in {"draw", "forget"} => (todo[1].kind = "post" <=> p.msg = NoMsg)
  /\ p.pc = "record" => p.msg # NoMsg
LoopInTask ==
  /\ at[Loop].pc \in {"rest", "read", "live", "draw", "forget", "record"}
  /\ at[Loop].pc # "rest" => AtTask(at[Loop])

\* A recommendation has one task in a pass; a card to refresh is known.
TaskedOnce == \A k, l \in DOMAIN todo :
  todo[k].kind # "notices" /\ todo[l].kind # "notices" /\ todo[k].rec = todo[l].rec => k = l
Recarded == \A k \in DOMAIN todo : todo[k].kind = "refresh" => record[todo[k].rec].msg # NoMsg

Kept == Recorded /\ InHand /\ LoopInTask /\ TaskedOnce /\ Recarded

\* A vanished card of r that is on record, or that the loop has in hand: it will be
\* found missing and forgotten.
Vanished(r) ==
  \/ Gone(record[r].msg)
  \/ at[Loop].pc # "rest" /\ at[Loop].rec = r /\ Gone(at[Loop].msg)

\* The presses that will put one on record.
Returning(r) == {c \in Presses : at[c].pc = "record" /\ at[c].rec = r /\ Gone(at[c].msg)}

\* r will get another card: the pass has it to post, or the next one will.
Due(r) == \E k \in DOMAIN todo :
  todo[k].kind = "post" /\ todo[k].rec = r /\ ~(k = 1 /\ at[Loop].pc = "record")
Wanting(r) == Due(r) \/ (record[r].msg = NoMsg /\ ~(CardSent /\ at[Loop].rec = r))

\* The cards of r, and those it is still going to get, have their causes.
Balanced(r) ==
  Cardinality(CardsOf(r)) + (IF Vanished(r) THEN 1 ELSE 0) + Cardinality(Returning(r))
    <= causes[r] + (IF Wanting(r) THEN 0 ELSE 1)

LEMMA FinitePart ==
  ASSUME NEW n \in Nat, NEW S \in SUBSET (1..n)
  PROVE  IsFiniteSet(S) /\ Cardinality(S) \in Nat
<1>1. IsFiniteSet(1..n)
  BY FS_Interval
<1> QED BY <1>1, FS_Subset, FS_CardinalityType

\* The numbers that are weighed, in one state and in the next.
LEMMA Counted ==
  ASSUME CardTypes, CardTypes', NEW r \in Recs
  PROVE  /\ IsFiniteSet(CardsOf(r)) /\ Cardinality(CardsOf(r)) \in Nat
         /\ IsFiniteSet(CardsOf(r)') /\ Cardinality(CardsOf(r)') \in Nat
         /\ IsFiniteSet(Returning(r)) /\ Cardinality(Returning(r)) \in Nat
         /\ IsFiniteSet(Returning(r)') /\ Cardinality(Returning(r)') \in Nat
<1>1. PICK n \in Nat, m \in Nat : DOMAIN msgs = 1..n /\ DOMAIN msgs' = 1..m
  BY DEF CardTypes
<1>2. CardsOf(r) \in SUBSET (1..n) /\ CardsOf(r)' \in SUBSET (1..m)
  BY <1>1 DEF CardsOf
<1>3. Returning(r) \in SUBSET Presses /\ Returning(r)' \in SUBSET Presses
  BY DEF Returning
<1>4. NPresses \in Nat /\ Presses = 1..NPresses
  BY CardAssumption DEF Presses
<1> QED BY <1>1, <1>2, <1>3, <1>4, FinitePart

\* A step that adds no card, no cause and nothing to forget leaves the balance alone.
LEMMA BalanceStays ==
  ASSUME CardTypes, CardTypes', causes \in [Recs -> Nat], NEW r \in Recs, Balanced(r),
         CardsOf(r)' = CardsOf(r), causes'[r] = causes[r],
         Returning(r)' \subseteq Returning(r),
         Vanished(r)' => Vanished(r), Wanting(r)' => Wanting(r)
  PROVE  Balanced(r)'
<1>1. PICK a \in Nat : a = Cardinality(CardsOf(r)) /\ a = Cardinality(CardsOf(r)')
  BY Counted
<1>2. PICK b \in Nat, d \in Nat : /\ b = Cardinality(Returning(r))
                                  /\ d = Cardinality(Returning(r)') /\ d <= b
  BY Counted, FS_Subset
<1>3. PICK k \in Nat : k = causes[r] /\ k = causes'[r]
  OBVIOUS
<1>4. a + (IF Vanished(r) THEN 1 ELSE 0) + b <= k + (IF Wanting(r) THEN 0 ELSE 1)
  BY <1>1, <1>2, <1>3 DEF Balanced
<1>5. a + (IF Vanished(r)' THEN 1 ELSE 0) + d <= k + (IF Wanting(r)' THEN 0 ELSE 1)
  BY <1>2, <1>4
<1> QED BY <1>1, <1>2, <1>3, <1>5 DEF Balanced

Steady == causes \in [Recs -> Nat] /\ Kept /\ \A r \in Recs : Balanced(r)

LEMMA SteadyBegins == Init => Steady
<1> SUFFICES ASSUME Init PROVE Steady
  OBVIOUS
<1>1. DOMAIN msgs = {} /\ DOMAIN todo = {}
  BY DEF Init
<1>2. \A c \in Coroutines : at[c].pc = "rest" /\ at[c].msg = NoMsg
  BY DEF Init, AtRest
<1>3. \A r \in Recs : record[r].msg = NoMsg /\ causes[r] = 0
  BY DEF Init, NoRecord
<1>4. Loop \in Coroutines /\ \A c \in Presses : c \in Coroutines
  BY DEF Coroutines
<1>5. causes \in [Recs -> Nat]
  BY DEF Init
<1>6. Kept
  BY <1>1, <1>2, <1>3, <1>4
     DEF Kept, Recorded, InHand, LoopInTask, TaskedOnce, Recarded, CardIs
<1>7. ASSUME NEW r \in Recs PROVE Balanced(r)
  <2>1. CardsOf(r) = {} /\ Returning(r) = {} /\ ~Vanished(r)
    BY <1>1, <1>2, <1>3, <1>4 DEF CardsOf, Returning, Vanished, Gone
  <2>2. Cardinality(CardsOf(r)) = 0 /\ Cardinality(Returning(r)) = 0
    BY <2>1, FS_EmptySet
  <2> QED BY <2>1, <2>2, <1>3 DEF Balanced
<1> QED BY <1>5, <1>6, <1>7 DEF Steady

LEMMA SteadyFrame ==
  ASSUME Steady, UNCHANGED <<msgs, record, todo, at, causes>> PROVE Steady'
<1>1. Kept'
  BY DEF Steady, Kept, Recorded, InHand, LoopInTask, AtTask, TaskedOnce, Recarded, CardIs, Gone
<1>2. ASSUME NEW r \in Recs PROVE Balanced(r)'
  BY DEF Steady, Balanced, CardsOf, Vanished, Returning, Wanting, Due, CardSent, Gone
<1> QED BY <1>1, <1>2 DEF Steady

\* A press moves, and changes nothing; what it is going to record is still there.
LEMMA PressSteadily ==
  ASSUME CardTypes, CardTypes', Steady, NEW c \in Presses, NEW p,
         at' = [at EXCEPT ![c] = p], UNCHANGED <<msgs, record, todo, causes>>,
         CardIs(p.msg, p.rec), p.pc \notin {"forget", "record"}, p.pc # "rest" => p.msg # NoMsg
  PROVE  Steady'
<1>1. /\ c \in Coroutines /\ Loop \in Coroutines /\ c # Loop
      /\ at'[c] = p /\ \A d \in Coroutines : d # c => at'[d] = at[d]
      /\ \A d \in Presses : d \in Coroutines
  BY DEF CardTypes, Coroutines, Presses, Loop
<1>2. at'[Loop] = at[Loop]
  BY <1>1
<1>3. InHand'
  BY <1>1 DEF Steady, Kept, InHand, CardIs, Gone
<1>4. Recorded' /\ LoopInTask' /\ TaskedOnce' /\ Recarded'
  BY <1>2 DEF Steady, Kept, Recorded, LoopInTask, AtTask, TaskedOnce, Recarded, CardIs
<1>5. ASSUME NEW r \in Recs PROVE Balanced(r)'
  <2>1. CardsOf(r)' = CardsOf(r) /\ Vanished(r)' = Vanished(r) /\ Wanting(r)' = Wanting(r)
    BY <1>2 DEF CardsOf, Vanished, Gone, Wanting, Due, CardSent
  <2>2. Returning(r)' \subseteq Returning(r)
    BY <1>1 DEF Returning, Gone
  <2> QED BY <2>1, <2>2, BalanceStays DEF Steady
<1> QED BY <1>3, <1>4, <1>5 DEF Steady, Kept

\* The loop moves within a task, short of sending or recording.
LEMMA LoopSteadily ==
  ASSUME CardTypes, CardTypes', Steady, NEW p, p.rec \in Recs,
         at' = [at EXCEPT ![Loop] = p], UNCHANGED <<msgs, record, todo, causes>>,
         at[Loop].pc # "record",
         CardIs(p.msg, p.rec), p.pc \in {"read", "live", "draw", "forget"}, AtTask(p),
         p.pc = "forget" => Gone(p.msg),
         Gone(p.msg) => Vanished(p.rec)
  PROVE  Steady'
<1>1. /\ Loop \in Coroutines /\ Loop \notin Presses
      /\ at'[Loop] = p /\ \A d \in Coroutines : d # Loop => at'[d] = at[d]
      /\ \A d \in Presses : d \in Coroutines /\ d # Loop
  BY DEF CardTypes, Coroutines, Presses, Loop
<1>2. InHand'
  BY <1>1 DEF Steady, Kept, InHand, CardIs, Gone
<1>3. Recorded' /\ LoopInTask' /\ TaskedOnce' /\ Recarded'
  BY <1>1 DEF Steady, Kept, Recorded, LoopInTask, AtTask, TaskedOnce, Recarded, CardIs
<1>4. ASSUME NEW r \in Recs PROVE Balanced(r)'
  <2>1. CardsOf(r)' = CardsOf(r) /\ Returning(r)' = Returning(r)
    BY <1>1 DEF CardsOf, Returning, Gone
  <2>2. Vanished(r)' => Vanished(r)
    BY <1>1 DEF Vanished, Gone
  <2>3. Wanting(r)' => Wanting(r)
    BY <1>1 DEF Wanting, Due, CardSent
  <2> QED BY <2>1, <2>2, <2>3, BalanceStays DEF Steady
<1> QED BY <1>2, <1>3, <1>4 DEF Steady, Kept

LEMMA BeginSteadily == ASSUME CardTypes, CardTypes', Steady, Begin PROVE Steady'
<1>1. PICK p : p = [AtRest EXCEPT !.pc = "read", !.rec = Head(todo).rec]
  OBVIOUS
<1>2. p.pc = "read" /\ p.rec = Head(todo).rec /\ p.msg = NoMsg
  BY <1>1 DEF AtRest
<1>3. todo # <<>> /\ Head(todo) = todo[1] /\ todo[1] \in Task
  BY DEF Begin, CardTypes
<1>4. CardIs(p.msg, p.rec) /\ AtTask(p) /\ p.rec \in Recs /\ ~Gone(p.msg)
  BY <1>2, <1>3 DEF CardIs, AtTask, Begin, Gone, Task
<1> QED BY <1>1, <1>2, <1>4, LoopSteadily DEF Begin, faultVars

LEMMA PressesSteadily ==
  ASSUME CardTypes, CardTypes', Steady, NEW c \in Presses,
         \/ \E i \in DOMAIN msgs, b \in Buttons : Press(c, i, b)
         \/ Decide(c) \/ Refuse(c) \/ GiveUp(c)
  PROVE  Steady'
<1>1. ASSUME NEW i \in DOMAIN msgs, NEW b \in Buttons, Press(c, i, b) PROVE Steady'
  <2>1. PICK p : p = [pc |-> "pressed", rec |-> msgs[i].rec, msg |-> i,
                      card |-> msgs[i].card, button |-> b]
    OBVIOUS
  <2>2. at' = [at EXCEPT ![c] = p] /\ UNCHANGED <<msgs, record, todo, causes>>
    BY <1>1, <2>1 DEF Press, faultVars
  <2>3. CardIs(p.msg, p.rec) /\ p.pc = "pressed" /\ p.msg # NoMsg
    BY <2>1 DEF CardIs, NoMsg, CardTypes
  <2> QED BY <2>2, <2>3, PressSteadily
<1>2. ASSUME Decide(c) \/ Refuse(c) PROVE Steady'
  <2>1. PICK p : p = [AtRest EXCEPT !.pc = "read", !.rec = at[c].rec, !.msg = at[c].msg]
    OBVIOUS
  <2>2. /\ at' = [at EXCEPT ![c] = p] /\ UNCHANGED <<msgs, record, todo, causes>>
        /\ at[c].pc = "pressed"
    BY <1>2, <2>1 DEF Decide, Refuse, Answered, faultVars
  <2>3. p.pc = "read" /\ p.rec = at[c].rec /\ p.msg = at[c].msg
    BY <2>1 DEF AtRest
  <2>4. CardIs(at[c].msg, at[c].rec) /\ at[c].msg # NoMsg
    BY <2>2 DEF Steady, Kept, InHand, Coroutines
  <2> QED BY <2>2, <2>3, <2>4, PressSteadily
<1>3. ASSUME GiveUp(c) PROVE Steady'
  <2>1. c # Loop /\ at' = [at EXCEPT ![c] = AtRest] /\ UNCHANGED <<msgs, record, todo, causes>>
    BY <1>3 DEF GiveUp, Presses, Loop
  <2>2. AtRest.pc = "rest" /\ CardIs(AtRest.msg, AtRest.rec)
    BY DEF AtRest, CardIs
  <2> QED BY <2>1, <2>2, PressSteadily
<1> QED BY <1>1, <1>2, <1>3

\* A card is built, or not found, by a press or by the loop.
LEMMA ReadSteadily ==
  ASSUME CardTypes, CardTypes', Steady, NEW c \in Coroutines,
         ReadRec(c) \/ ReadLive(c) \/ Missing(c)
  PROVE  Steady'
<1>1. PICK q \in Position(Len(msgs)) : q = at[c]
  BY DEF CardTypes
<1>2. CardIs(q.msg, q.rec) /\ q.rec \in Recs /\ (c \in Presses => q.msg # NoMsg)
  BY <1>1 DEF Steady, Kept, InHand, ReadRec, ReadLive, Missing, Position
<1>3. c = Loop => AtTask(q)
  BY <1>1 DEF Steady, Kept, LoopInTask, ReadRec, ReadLive, Missing
<1>4. CASE ReadRec(c)
  <2>1. PICK d : at' = [at EXCEPT ![c] = [q EXCEPT !.pc = "live", !.card = d]]
    BY <1>1, <1>4 DEF ReadRec
  <2>2. PICK p : p = [q EXCEPT !.pc = "live", !.card = d]
    OBVIOUS
  <2>3. p.pc = "live" /\ p.rec = q.rec /\ p.msg = q.msg
    BY <2>2 DEF Position
  <2>4. at' = [at EXCEPT ![c] = p] /\ UNCHANGED <<msgs, record, todo, causes>> /\ q.pc = "read"
    BY <2>1, <2>2, <1>1, <1>4 DEF ReadRec, faultVars
  <2>5. c = Loop => AtTask(p) /\ ~Gone(p.msg)
    BY <2>3, <2>4, <1>3 DEF AtTask, Gone
  <2>6. CASE c = Loop
    BY <2>3, <2>4, <2>5, <2>6, <1>1, <1>2, LoopSteadily
  <2>7. CASE c \in Presses
    BY <2>3, <2>4, <2>7, <1>2, PressSteadily
  <2> QED BY <2>6, <2>7 DEF Coroutines
<1>5. CASE ReadLive(c)
  <2>1. PICK d, m :
          /\ at' = [at EXCEPT ![c] = [q EXCEPT !.pc = "draw", !.msg = m, !.card = d]]
          /\ m = IF c = Loop /\ Head(todo).kind = "refresh" THEN record[q.rec].msg ELSE q.msg
    BY <1>1, <1>5 DEF ReadLive
  <2>2. PICK p : p = [q EXCEPT !.pc = "draw", !.msg = m, !.card = d]
    OBVIOUS
  <2>3. p.pc = "draw" /\ p.rec = q.rec /\ p.msg = m
    BY <2>2 DEF Position
  <2>4. at' = [at EXCEPT ![c] = p] /\ UNCHANGED <<msgs, record, todo, causes>> /\ q.pc = "live"
    BY <2>1, <2>2, <1>1, <1>5 DEF ReadLive, faultVars
  <2>5. CardIs(m, q.rec)
    <3>1. CardIs(record[q.rec].msg, q.rec)
      BY <1>2 DEF Steady, Kept, Recorded
    <3> QED BY <2>1, <3>1, <1>2
  <2>6. CASE c = Loop
    <3>1. /\ todo # <<>> /\ Head(todo) = todo[1] /\ 1 \in DOMAIN todo /\ todo[1] \in Task
          /\ todo[1].rec = q.rec /\ todo[1].kind # "notices" /\ q.msg = NoMsg
      BY <1>3, <2>4, <2>6 DEF AtTask, CardTypes
    <3>2. todo[1].kind = "post" <=> m = NoMsg
      <4>1. CASE todo[1].kind = "refresh"
        BY <2>1, <2>6, <3>1, <4>1 DEF Steady, Kept, Recarded
      <4>2. CASE todo[1].kind = "post"
        BY <2>1, <2>6, <3>1, <4>2
      <4> QED BY <3>1, <4>1, <4>2 DEF Task
    <3>3. AtTask(p)
      BY <2>3, <3>1, <3>2 DEF AtTask
    <3>4. Gone(p.msg) => Vanished(p.rec)
      BY <2>1, <2>3, <3>1 DEF Vanished, Gone
    <3> QED BY <2>3, <2>4, <2>5, <2>6, <3>3, <3>4, <1>1, <1>2, LoopSteadily
  <2>7. CASE c \in Presses
    <3>1. c # Loop
      BY <2>7 DEF Presses, Loop
    <3> QED BY <2>1, <2>3, <2>4, <2>5, <2>7, <3>1, <1>2, PressSteadily
  <2> QED BY <2>6, <2>7 DEF Coroutines
<1>6. CASE Missing(c)
  <2>1. q.pc = "draw" /\ Gone(q.msg) /\ UNCHANGED <<msgs, record, todo, causes>>
    BY <1>1, <1>6 DEF Missing, Gone, faultVars
  <2>2. CASE c = Loop
    <3>1. PICK p : p = [q EXCEPT !.pc = "forget"]
      OBVIOUS
    <3>2. p.pc = "forget" /\ p.rec = q.rec /\ p.msg = q.msg
      BY <3>1 DEF Position
    <3>3. at' = [at EXCEPT ![Loop] = p]
      BY <1>1, <1>6, <2>2, <3>1 DEF Missing
    <3>4. AtTask(p)
      BY <1>3, <2>1, <2>2, <3>2 DEF AtTask
    <3>5. Vanished(p.rec)
      BY <1>1, <2>1, <2>2, <3>2 DEF Vanished
    <3> QED BY <1>1, <1>2, <2>1, <2>2, <3>2, <3>3, <3>4, <3>5, LoopSteadily
  <2>3. CASE c \in Presses
    <3>1. at' = [at EXCEPT ![c] = AtRest]
      <4>1. c # Loop
        BY <2>3 DEF Presses, Loop
      <4> QED BY <1>6, <4>1 DEF Missing
    <3>2. AtRest.pc = "rest" /\ CardIs(AtRest.msg, AtRest.rec)
      BY DEF AtRest, CardIs
    <3> QED BY <2>1, <2>3, <3>1, <3>2, PressSteadily
  <2> QED BY <2>2, <2>3 DEF Coroutines
<1> QED BY <1>4, <1>5, <1>6

\* The rest of a pass, once its first task is done.
TaskDone ==
  /\ todo # <<>>
  /\ \A k \in DOMAIN todo' : k + 1 \in DOMAIN todo /\ k + 1 # 1 /\ todo'[k] = todo[k + 1]
  /\ \A k, l \in DOMAIN todo' : k + 1 = l + 1 => k = l
  /\ 1 \in DOMAIN todo

LEMMA DoneTask ==
  ASSUME CardTypes, Steady, at[Loop].pc # "rest", todo' = Tail(todo) PROVE TaskDone
<1>1. todo # <<>>
  BY DEF Steady, Kept, LoopInTask, AtTask
<1>2. /\ todo \in Seq(Task) /\ Len(todo) \in Nat /\ DOMAIN todo = 1..Len(todo)
      /\ DOMAIN todo' = 1..(Len(todo) - 1) /\ Len(todo) > 0
      /\ \A k \in DOMAIN todo' : k + 1 \in DOMAIN todo /\ todo'[k] = todo[k + 1]
  BY <1>1 DEF CardTypes
<1> QED BY <1>1, <1>2 DEF TaskDone

LEMMA TaskParts == ASSUME CardTypes PROVE \A k \in DOMAIN todo : todo[k].rec \in Recs
<1>1. \A k \in DOMAIN todo : todo[k] \in Task
  BY DEF CardTypes
<1> QED BY <1>1 DEF Task

\* A press records the card it has drawn: one that has vanished comes back on record.
\* The loop's task is done.
LEMMA RecordSteadily ==
  ASSUME CardTypes, CardTypes', Steady, NEW c \in Coroutines, Record(c) PROVE Steady'
<1>1. PICK q \in Position(Len(msgs)) : q = at[c]
  BY DEF CardTypes
<1>2. q.pc = "record" /\ q.msg # NoMsg /\ q.rec \in Recs
  BY <1>1 DEF Record, Steady, Kept, InHand, LoopInTask, AtTask, Coroutines, Position
<1>3. CardIs(q.msg, q.rec)
  BY <1>1 DEF Steady, Kept, InHand
<1>4. /\ record' = [record EXCEPT ![q.rec] = [msg |-> q.msg, key |-> q.card.key]]
      /\ at' = [at EXCEPT ![c] = AtRest]
      /\ todo' = IF c = Loop THEN Tail(todo) ELSE todo
      /\ UNCHANGED <<msgs, causes>>
  BY <1>1 DEF Record, Finish, faultVars
<1>5. /\ \A r \in Recs : record'[r].msg = IF r = q.rec THEN q.msg ELSE record[r].msg
      /\ Loop \in Coroutines /\ Loop \notin Presses
      /\ at'[c] = AtRest /\ \A d \in Coroutines : d # c => at'[d] = at[d]
      /\ \A d \in Presses : d \in Coroutines /\ d # Loop
  BY <1>2, <1>4 DEF CardTypes, Coroutines, Presses, Loop
<1>6. AtRest.pc = "rest" /\ AtRest.msg = NoMsg
  BY DEF AtRest
<1>7. Recorded' /\ InHand'
  BY <1>3, <1>4, <1>5, <1>6 DEF Steady, Kept, Recorded, InHand, CardIs, Gone
<1>8. c = Loop => TaskDone
  BY <1>1, <1>2, <1>4, DoneTask
<1>9. LoopInTask' /\ TaskedOnce' /\ Recarded'
  <2>1. \A k \in DOMAIN todo : todo[k].rec \in Recs
    BY TaskParts
  <2>2. CASE c = Loop
    BY <2>1, <2>2, <1>2, <1>5, <1>6, <1>8
       DEF Steady, Kept, LoopInTask, TaskedOnce, Recarded, TaskDone
  <2>3. CASE c # Loop
    BY <2>1, <2>3, <1>2, <1>4, <1>5 DEF Steady, Kept, LoopInTask, AtTask, TaskedOnce, Recarded
  <2> QED BY <2>2, <2>3
<1>10. ASSUME NEW r \in Recs PROVE Balanced(r)'
  <2>1. CardsOf(r)' = CardsOf(r) /\ causes'[r] = causes[r] /\ Balanced(r)
    BY <1>4 DEF CardsOf, Steady
  <2>2. Wanting(r)' => Wanting(r)
    <3>1. CASE c = Loop
      <4>1. Due(r)' => Due(r)
        BY <3>1, <1>5, <1>6, <1>8 DEF Due, TaskDone
      <4>2. CASE r = q.rec
        BY <4>1, <4>2, <1>2, <1>5 DEF Wanting
      <4>3. CASE r # q.rec
        BY <4>1, <4>3, <3>1, <1>1, <1>5 DEF Wanting
      <4> QED BY <4>2, <4>3
    <3>2. CASE c # Loop
      BY <3>2, <1>2, <1>4, <1>5 DEF Wanting, Due, CardSent
    <3> QED BY <3>1, <3>2
  <2>3. CASE c = Loop \/ ~Gone(q.msg) \/ r # q.rec
    <3>1. Returning(r)' \subseteq Returning(r)
      BY <1>4, <1>5, <1>6 DEF Returning, Gone
    <3>2. Vanished(r)' => Vanished(r)
      BY <2>3, <1>1, <1>2, <1>4, <1>5, <1>6 DEF Vanished, Gone
    <3> QED BY <2>1, <2>2, <3>1, <3>2, BalanceStays DEF Steady
  <2>4. CASE c # Loop /\ Gone(q.msg) /\ r = q.rec
    <3>1. c \in Returning(r) /\ Returning(r)' = Returning(r) \ {c}
      BY <2>4, <1>1, <1>2, <1>4, <1>5, <1>6 DEF Returning, Gone, Coroutines
    <3>2. PICK a \in Nat, b \in Nat, k \in Nat :
            /\ a = Cardinality(CardsOf(r)) /\ b = Cardinality(Returning(r)) /\ k = causes[r]
      BY Counted DEF Steady
    <3>3. Cardinality(Returning(r)') = b - 1
      BY <3>1, <3>2, Counted, FS_RemoveElement
    <3>4. a + (IF Vanished(r) THEN 1 ELSE 0) + b <= k + (IF Wanting(r) THEN 0 ELSE 1)
      BY <2>1, <3>2 DEF Balanced
    <3>5. a + (IF Vanished(r)' THEN 1 ELSE 0) + (b - 1) <= k + (IF Wanting(r)' THEN 0 ELSE 1)
      BY <2>2, <3>2, <3>4
    <3> QED BY <2>1, <3>2, <3>3, <3>5 DEF Balanced
  <2> QED BY <2>3, <2>4
<1> QED BY <1>4, <1>7, <1>9, <1>10 DEF Steady, Kept

\* The loop forgets a card it could not find: it is off the record, and due again.
LEMMA ForgetSteadily ==
  ASSUME CardTypes, CardTypes', Steady, NEW c \in Coroutines, Forget(c) PROVE Steady'
<1>1. PICK q \in Position(Len(msgs)) : q = at[c]
  BY DEF CardTypes
<1>2. q.pc = "forget" /\ c = Loop /\ Gone(q.msg) /\ q.rec \in Recs
  BY <1>1 DEF Forget, Steady, Kept, InHand, Position
<1>4. /\ record' = [record EXCEPT ![q.rec] = NoRecord]
      /\ at' = [at EXCEPT ![Loop] = AtRest]
      /\ todo' = Tail(todo)
      /\ UNCHANGED <<msgs, causes>>
  BY <1>1, <1>2 DEF Forget, Finish, faultVars
<1>5. /\ \A r \in Recs : record'[r].msg = IF r = q.rec THEN NoMsg ELSE record[r].msg
      /\ Loop \in Coroutines /\ Loop \notin Presses
      /\ at'[Loop] = AtRest /\ \A d \in Coroutines : d # Loop => at'[d] = at[d]
      /\ \A d \in Presses : d \in Coroutines /\ d # Loop
  BY <1>2, <1>4 DEF CardTypes, Coroutines, Presses, Loop, NoRecord
<1>6. AtRest.pc = "rest" /\ AtRest.msg = NoMsg
  BY DEF AtRest
<1>7. Recorded' /\ InHand'
  BY <1>4, <1>5, <1>6 DEF Steady, Kept, Recorded, InHand, CardIs, Gone
<1>8. TaskDone /\ todo[1].rec = q.rec /\ todo[1].kind = "refresh"
  <2>1. todo # <<>> /\ todo[1].rec = q.rec /\ todo[1].kind # "notices" /\ todo[1].kind # "post"
    BY <1>1, <1>2 DEF Steady, Kept, LoopInTask, AtTask, Gone
  <2>2. 1 \in DOMAIN todo /\ todo[1] \in Task
    BY <2>1 DEF CardTypes
  <2> QED BY <1>1, <1>2, <1>4, <2>1, <2>2, DoneTask DEF Task
<1>9. LoopInTask' /\ TaskedOnce' /\ Recarded'
  <2>1. \A k \in DOMAIN todo : todo[k].rec \in Recs
    BY TaskParts
  <2>2. \A k \in DOMAIN todo' : todo'[k].kind = "refresh" => todo'[k].rec # q.rec
    BY <1>8 DEF Steady, Kept, TaskedOnce, TaskDone
  <2> QED BY <2>1, <2>2, <1>5, <1>6, <1>8
          DEF Steady, Kept, LoopInTask, TaskedOnce, Recarded, TaskDone
<1>10. ASSUME NEW r \in Recs PROVE Balanced(r)'
  <2>1. /\ CardsOf(r)' = CardsOf(r) /\ causes'[r] = causes[r] /\ Balanced(r)
        /\ Returning(r)' = Returning(r)
    BY <1>4, <1>5 DEF CardsOf, Returning, Gone, Steady
  <2>2. Due(r)' => Due(r)
    BY <1>5, <1>6, <1>8 DEF Due, TaskDone
  <2>3. CASE r # q.rec
    <3>1. Vanished(r)' => Vanished(r)
      BY <2>3, <1>4, <1>5, <1>6 DEF Vanished, Gone
    <3>2. Wanting(r)' => Wanting(r)
      BY <2>2, <2>3, <1>1, <1>2, <1>5 DEF Wanting, CardSent
    <3> QED BY <2>1, <3>1, <3>2, BalanceStays DEF Steady
  <2>4. CASE r = q.rec
    <3>1. Vanished(r)
      BY <2>4, <1>1, <1>2 DEF Vanished
    <3>2. ~Vanished(r)'
      BY <2>4, <1>5, <1>6 DEF Vanished, Gone
    <3>3. PICK a \in Nat, b \in Nat, k \in Nat :
            /\ a = Cardinality(CardsOf(r)) /\ b = Cardinality(Returning(r)) /\ k = causes[r]
      BY Counted DEF Steady
    <3>4. a + 1 + b <= k + 1
      BY <2>1, <3>1, <3>3 DEF Balanced
    <3>5. a + b <= k + (IF Wanting(r)' THEN 0 ELSE 1)
      BY <3>3, <3>4
    <3> QED BY <2>1, <3>2, <3>3, <3>5 DEF Balanced
  <2> QED BY <2>3, <2>4
<1> QED BY <1>4, <1>7, <1>9, <1>10 DEF Steady, Kept

\* The loop sends a card of what it has to post.
LEMMA SendSteadily ==
  ASSUME CardTypes, CardTypes', Steady, NEW c \in Coroutines, Send(c) PROVE Steady'
<1>1. PICK n \in Nat : n = Len(msgs)
  BY DEF CardTypes
<1>2. PICK q \in Position(n) : q = at[c]
  BY <1>1 DEF CardTypes
<1>3. q.pc = "draw" /\ q.msg = NoMsg /\ c = Loop /\ q.rec \in Recs
  BY <1>2 DEF Send, Steady, Kept, InHand, Coroutines, Position
<1>4. PICK e : e = [rec |-> q.rec, card |-> q.card, deleted |-> FALSE]
  OBVIOUS
<1>5. e \in Message /\ e.rec = q.rec /\ ~e.deleted
  BY <1>4 DEF Message, Position
<1>6. msgs' = Append(msgs, e) /\ UNCHANGED <<record, todo, causes>>
  BY <1>2, <1>4 DEF Send, faultVars
<1>7. /\ DOMAIN msgs = 1..n /\ DOMAIN msgs' = 1..(n + 1)
      /\ msgs'[n + 1] = e /\ \A i \in 1..n : msgs'[i] = msgs[i]
  BY <1>1, <1>5, <1>6 DEF CardTypes
<1>8. \A i \in 1..(n + 1) : i \in 1..n \/ i = n + 1
  OBVIOUS
<1>9. PICK p : p = [q EXCEPT !.pc = "record", !.msg = n + 1]
  OBVIOUS
<1>10. p.pc = "record" /\ p.rec = q.rec /\ p.msg = n + 1 /\ p.msg # NoMsg
  BY <1>9 DEF Position, NoMsg
<1>11. /\ Loop \in Coroutines /\ Loop \notin Presses
       /\ at'[Loop] = p /\ \A d \in Coroutines : d # Loop => at'[d] = at[d]
       /\ \A d \in Presses : d \in Coroutines /\ d # Loop
  BY <1>1, <1>2, <1>3, <1>9 DEF Send, CardTypes, Coroutines, Presses, Loop
<1>12. /\ todo # <<>> /\ 1 \in DOMAIN todo /\ todo[1].rec = q.rec /\ todo[1].kind = "post"
       /\ Head(todo) = todo[1]
  BY <1>2, <1>3 DEF Steady, Kept, LoopInTask, AtTask, CardTypes
<1>13. \A m, r : CardIs(m, r) => m # n + 1 /\ CardIs(m, r)' /\ (Gone(m)' <=> Gone(m))
  BY <1>7, <1>8 DEF CardIs, Gone, NoMsg
<1>14. Recorded'
  BY <1>6, <1>13 DEF Steady, Kept, Recorded, CardIs
<1>15. InHand'
  <2> SUFFICES ASSUME NEW d \in Coroutines
               PROVE  /\ CardIs(at[d].msg, at[d].rec)'
                      /\ at'[d].pc = "forget" => d = Loop /\ Gone(at[d].msg)'
                      /\ d \in Presses /\ at'[d].pc # "rest" => at'[d].msg # NoMsg
    BY DEF InHand
  <2>1. CASE d = Loop
    BY <2>1, <1>5, <1>7, <1>10, <1>11 DEF CardIs
  <2>2. CASE d # Loop
    <3>1. at'[d] = at[d] /\ CardIs(at[d].msg, at[d].rec)
      BY <2>2, <1>11 DEF Steady, Kept, InHand
    <3>2. CardIs(at[d].msg, at[d].rec)' /\ (Gone(at[d].msg)' <=> Gone(at[d].msg))
      BY <3>1, <1>7, <1>8 DEF CardIs, Gone, NoMsg
    <3> QED BY <3>1, <3>2 DEF Steady, Kept, InHand
  <2> QED BY <2>1, <2>2
<1>16. LoopInTask' /\ TaskedOnce' /\ Recarded'
  BY <1>6, <1>10, <1>11, <1>12 DEF Steady, Kept, LoopInTask, AtTask, TaskedOnce, Recarded
<1>17. ASSUME NEW r \in Recs PROVE Balanced(r)'
  <2>1. Balanced(r) /\ causes'[r] = causes[r] /\ CardIs(record[r].msg, r)
    BY <1>6 DEF Steady, Kept, Recorded
  <2>2. Vanished(r)' => Vanished(r)
    <3>1. ~Gone(p.msg)'
      BY <1>5, <1>7, <1>10 DEF Gone
    <3>2. Gone(record[r].msg)' <=> Gone(record[r].msg)
      BY <2>1, <1>6, <1>13 DEF Gone
    <3> QED BY <3>1, <3>2, <1>11 DEF Vanished, Gone
  <2>3. Returning(r)' \subseteq Returning(r)
    <3> SUFFICES ASSUME NEW d \in Returning(r)' PROVE d \in Returning(r)
      OBVIOUS
    <3>1. d \in Presses /\ d \in Coroutines /\ at'[d] = at[d]
      BY <1>11 DEF Returning
    <3>2. CardIs(at[d].msg, at[d].rec)
      BY <3>1 DEF Steady, Kept, InHand
    <3> QED BY <3>1, <3>2, <1>13 DEF Returning, Gone
  <2>4. CASE r # q.rec
    <3>1. CardsOf(r)' = CardsOf(r)
      BY <2>4, <1>5, <1>7, <1>8 DEF CardsOf
    <3>2. Wanting(r)' => Wanting(r)
      BY <2>4, <1>2, <1>3, <1>6, <1>10, <1>11, <1>12 DEF Wanting, Due, CardSent
    <3> QED BY <2>1, <2>2, <2>3, <3>1, <3>2, BalanceStays DEF Steady
  <2>5. CASE r = q.rec
    <3>1. Wanting(r)
      BY <2>5, <1>2, <1>3, <1>12 DEF Wanting, Due
    <3>2. ~Wanting(r)'
      <4>1. ~Due(r)'
        BY <2>5, <1>6, <1>10, <1>11, <1>12 DEF Due, Steady, Kept, TaskedOnce
      <4>2. CardSent' /\ at'[Loop].rec = r
        BY <2>5, <1>6, <1>10, <1>11, <1>12 DEF CardSent
      <4> QED BY <4>1, <4>2 DEF Wanting
    <3>3. PICK a \in Nat, b \in Nat, d \in Nat, k \in Nat :
            /\ a = Cardinality(CardsOf(r)) /\ b = Cardinality(Returning(r)) /\ k = causes[r]
            /\ d = Cardinality(Returning(r)') /\ d <= b
      BY <2>3, Counted, FS_Subset DEF Steady
    <3>4. Cardinality(CardsOf(r)') = a + 1
      <4>1. CardsOf(r)' = CardsOf(r) \union {n + 1} /\ n + 1 \notin CardsOf(r)
        BY <2>5, <1>5, <1>7, <1>8 DEF CardsOf
      <4> QED BY <4>1, <3>3, Counted, FS_AddElement
    <3>5. a + (IF Vanished(r) THEN 1 ELSE 0) + b <= k
      BY <2>1, <3>1, <3>3 DEF Balanced
    <3>6. (a + 1) + (IF Vanished(r)' THEN 1 ELSE 0) + d <= k + 1
      BY <2>2, <3>3, <3>5
    <3> QED BY <2>1, <3>2, <3>3, <3>4, <3>6 DEF Balanced
  <2> QED BY <2>4, <2>5
<1> QED BY <1>6, <1>14, <1>15, <1>16, <1>17 DEF Steady, Kept

\* A card that is still there is shown anew, and will be put on record.
LEMMA RedrawSteadily ==
  ASSUME CardTypes, CardTypes', Steady, NEW c \in Coroutines, Redraw(c) PROVE Steady'
<1>1. PICK q \in Position(Len(msgs)) : q = at[c]
  BY DEF CardTypes
<1>2. q.pc = "draw" /\ q.msg # NoMsg /\ q.msg \in DOMAIN msgs /\ msgs[q.msg].rec = q.rec
  BY <1>1 DEF Redraw, Steady, Kept, InHand, CardIs
<1>3. PICK e : e = [msgs[q.msg] EXCEPT !.card = q.card]
  OBVIOUS
<1>4. e.rec = msgs[q.msg].rec /\ e.deleted = msgs[q.msg].deleted /\ ~msgs[q.msg].deleted
  <2>1. msgs[q.msg] \in Message
    BY <1>2 DEF CardTypes
  <2> QED BY <1>1, <1>3, <2>1 DEF Message, Redraw
<1>5. msgs' = [msgs EXCEPT ![q.msg] = e] /\ UNCHANGED <<record, todo, causes>>
  BY <1>1, <1>3 DEF Redraw, faultVars
<1>6. /\ DOMAIN msgs' = DOMAIN msgs
      /\ \A i \in DOMAIN msgs : msgs'[i].rec = msgs[i].rec /\ msgs'[i].deleted = msgs[i].deleted
  BY <1>2, <1>4, <1>5 DEF CardTypes
<1>7. \A m, r : CardIs(m, r) => CardIs(m, r)' /\ (Gone(m)' <=> Gone(m))
  BY <1>6 DEF CardIs, Gone
<1>8. PICK p : p = [q EXCEPT !.pc = "record"]
  OBVIOUS
<1>9. p.pc = "record" /\ p.rec = q.rec /\ p.msg = q.msg
  BY <1>8 DEF Position
<1>10. /\ Loop \in Coroutines /\ Loop \notin Presses
       /\ at'[c] = p /\ \A d \in Coroutines : d # c => at'[d] = at[d]
       /\ \A d \in Presses : d \in Coroutines /\ d # Loop
  <2>1. Loop \in Coroutines /\ \A d \in Presses : d \in Coroutines /\ d # Loop
    BY DEF Coroutines, Presses, Loop
  <2>2. at'[c] = p /\ \A d \in Coroutines : d # c => at'[d] = at[d]
    BY <1>1, <1>8 DEF Redraw, CardTypes
  <2> QED BY <2>1, <2>2
<1>11. Recorded'
  BY <1>5, <1>7 DEF Steady, Kept, Recorded, CardIs
<1>12. InHand'
  <2> SUFFICES ASSUME NEW d \in Coroutines
               PROVE  /\ CardIs(at[d].msg, at[d].rec)'
                      /\ at'[d].pc = "forget" => d = Loop /\ Gone(at[d].msg)'
                      /\ d \in Presses /\ at'[d].pc # "rest" => at'[d].msg # NoMsg
    BY DEF InHand
  <2>1. CASE d = c
    BY <2>1, <1>2, <1>6, <1>9, <1>10 DEF CardIs
  <2>2. CASE d # c
    <3>1. at'[d] = at[d] /\ CardIs(at[d].msg, at[d].rec)
      BY <2>2, <1>10 DEF Steady, Kept, InHand
    <3>2. CardIs(at[d].msg, at[d].rec)' /\ (Gone(at[d].msg)' <=> Gone(at[d].msg))
      BY <3>1, <1>6 DEF CardIs, Gone
    <3> QED BY <3>1, <3>2 DEF Steady, Kept, InHand
  <2> QED BY <2>1, <2>2
<1>13. c = Loop => todo # <<>> /\ todo[1].kind # "post" /\ todo[1].kind # "notices"
                   /\ todo[1].rec = q.rec /\ Head(todo) = todo[1]
  BY <1>1, <1>2 DEF Steady, Kept, LoopInTask, AtTask, CardTypes
<1>14. LoopInTask' /\ TaskedOnce' /\ Recarded'
  <2>1. CASE c = Loop
    BY <2>1, <1>2, <1>5, <1>9, <1>10, <1>13
       DEF Steady, Kept, LoopInTask, AtTask, TaskedOnce, Recarded
  <2>2. CASE c # Loop
    BY <2>2, <1>5, <1>10 DEF Steady, Kept, LoopInTask, AtTask, TaskedOnce, Recarded
  <2> QED BY <2>1, <2>2
<1>15. ASSUME NEW r \in Recs PROVE Balanced(r)'
  <2>1. Balanced(r) /\ causes'[r] = causes[r] /\ CardIs(record[r].msg, r)
    BY <1>5 DEF Steady, Kept, Recorded
  <2>2. CardsOf(r)' = CardsOf(r)
    BY <1>6 DEF CardsOf
  <2>3. ~Gone(p.msg)'
    BY <1>2, <1>4, <1>6, <1>9 DEF Gone
  <2>4. Vanished(r)' => Vanished(r)
    <3>1. Gone(record[r].msg)' <=> Gone(record[r].msg)
      BY <2>1, <1>5, <1>7 DEF Gone
    <3>2. CardIs(at[Loop].msg, at[Loop].rec)
      BY <1>10 DEF Steady, Kept, InHand
    <3> QED BY <2>3, <3>1, <3>2, <1>7, <1>10 DEF Vanished, Gone
  <2>5. Returning(r)' \subseteq Returning(r)
    <3> SUFFICES ASSUME NEW d \in Returning(r)' PROVE d \in Returning(r)
      OBVIOUS
    <3>1. d \in Presses /\ d \in Coroutines /\ d # c
      BY <2>3, <1>10 DEF Returning, Gone
    <3>2. at'[d] = at[d] /\ CardIs(at[d].msg, at[d].rec)
      BY <3>1, <1>10 DEF Steady, Kept, InHand
    <3> QED BY <3>1, <3>2, <1>7 DEF Returning, Gone
  <2>6. Wanting(r)' => Wanting(r)
    <3>1. CASE c = Loop
      BY <3>1, <1>1, <1>2, <1>5, <1>9, <1>10, <1>13 DEF Wanting, Due, CardSent
    <3>2. CASE c # Loop
      BY <3>2, <1>5, <1>10 DEF Wanting, Due, CardSent
    <3> QED BY <3>1, <3>2
  <2> QED BY <2>1, <2>2, <2>4, <2>5, <2>6, BalanceStays DEF Steady
<1> QED BY <1>5, <1>11, <1>12, <1>14, <1>15 DEF Steady, Kept

\* A new pass posts what has no card on record, and refreshes what has one.
LEMMA PlanSteadily == ASSUME CardTypes, CardTypes', Steady, Plan PROVE Steady'
<1> DEFINE A == {r \in Recs : Postable(r, Swept)}
           B == {r \in Recs : Moved(r, Swept)}
<1>1. PICK posts \in Rising(A), refreshes \in Falling(B) :
        todo' = Tasks("post", posts) \o Tasks("refresh", refreshes) \o Tasks("notices", <<1>>)
  BY DEF Plan
<1>2. /\ posts \in Seq(A) /\ refreshes \in Seq(B) /\ <<1>> \in Seq(Recs)
      /\ posts \in Seq(Recs) /\ refreshes \in Seq(Recs)
  <2>1. 1 \in Recs /\ A \in SUBSET Recs /\ B \in SUBSET Recs
    BY CardAssumption DEF Recs
  <2> QED BY <2>1, OrderedType
<1>3. PICK P \in Nat, R \in Nat : P = Len(posts) /\ R = Len(refreshes)
  BY <1>2
<1>4. PICK tp \in Seq(Task), tr \in Seq(Task), tn \in Seq(Task) :
        /\ tp = Tasks("post", posts) /\ tr = Tasks("refresh", refreshes)
        /\ tn = Tasks("notices", <<1>>)
        /\ Len(tp) = P /\ Len(tr) = R /\ Len(tn) = 1
  <2>1. Tasks("post", posts) \in Seq(Task) /\ Len(Tasks("post", posts)) = P
    BY <1>2, <1>3, TasksType
  <2>2. Tasks("refresh", refreshes) \in Seq(Task) /\ Len(Tasks("refresh", refreshes)) = R
    BY <1>2, <1>3, TasksType
  <2>3. Tasks("notices", <<1>>) \in Seq(Task) /\ Len(Tasks("notices", <<1>>)) = 1
    <3>1. Len(<<1>>) = 1
      OBVIOUS
    <3> QED BY <1>2, <3>1, TasksType
  <2> QED BY <2>1, <2>2, <2>3
<1>5. /\ \A k \in 1..P : tp[k].kind = "post" /\ tp[k].rec = posts[k] /\ posts[k] \in A
      /\ \A k \in 1..R : /\ tr[k].kind = "refresh" /\ tr[k].rec = refreshes[k]
                          /\ refreshes[k] \in B
      /\ tn[1].kind = "notices"
  BY <1>2, <1>3, <1>4 DEF Tasks
<1>6. /\ DOMAIN todo' = 1..(P + R + 1)
      /\ \A k \in 1..P : todo'[k] = tp[k]
      /\ \A k \in (P + 1)..(P + R) : k - P \in 1..R /\ todo'[k] = tr[k - P]
      /\ todo'[P + R + 1] = tn[1]
  <2>1. PICK u : u = tp \o tr
    OBVIOUS
  <2>2. /\ u \in Seq(Task) /\ Len(u) = P + R
        /\ \A k \in 1..P : u[k] = tp[k]
        /\ \A k \in (P + 1)..(P + R) : k - P \in 1..R /\ u[k] = tr[k - P]
    <3>1. u \in Seq(Task) /\ Len(u) = P + R
      <4>1. tp \o tr \in Seq(Task) /\ Len(tp \o tr) = Len(tp) + Len(tr)
        BY ConcatProperties
      <4> QED BY <4>1, <2>1, <1>4
    <3>2. \A k \in 1..P : u[k] = tp[k]
      BY <2>1, <1>3, <1>4
    <3>3. ASSUME NEW k \in (P + 1)..(P + R) PROVE k - P \in 1..R /\ u[k] = tr[k - P]
      <4>1. k \in 1..(P + R) /\ ~(k <= P) /\ k - P \in 1..R
        BY <1>3
      <4> QED BY <4>1, <2>1, <1>3, <1>4
    <3> QED BY <3>1, <3>2, <3>3
  <2>3. todo' = u \o tn
    BY <1>1, <1>4, <2>1
  <2>4. Len(todo') = P + R + 1 /\ DOMAIN todo' = 1..(P + R + 1)
    <3>1. u \o tn \in Seq(Task) /\ Len(u \o tn) = Len(u) + Len(tn)
      BY <2>2, ConcatProperties
    <3>2. todo' \in Seq(Task) /\ Len(todo') = P + R + 1
      BY <3>1, <2>2, <2>3, <1>4
    <3> QED BY <3>2
  <2>5. \A k \in 1..(P + R) : todo'[k] = u[k]
    BY <2>2, <2>3, <1>3, <1>4
  <2>6. todo'[P + R + 1] = tn[1]
    BY <2>2, <2>3, <1>3, <1>4
  <2>7. /\ \A k \in 1..P : k \in 1..(P + R)
        /\ \A k \in (P + 1)..(P + R) : k \in 1..(P + R)
    BY <1>3
  <2> QED BY <2>2, <2>4, <2>5, <2>6, <2>7
<1>7. \A k \in 1..(P + R + 1) : k \in 1..P \/ k \in (P + 1)..(P + R) \/ k = P + R + 1
  BY <1>3
<1>8. /\ at[Loop].pc = "rest" /\ todo = <<>> /\ DOMAIN todo = {}
      /\ UNCHANGED <<msgs, record, at, causes>>
  BY DEF Plan, faultVars
<1>9. \A r \in A : record[r].msg = NoMsg
  BY DEF Postable, NotPosted
<1>10. \A r \in B : record[r].msg # NoMsg
  BY DEF Moved, NotPosted
<1> HIDE DEF A, B
<1>11. /\ \A k \in 1..P : todo'[k].rec \in A
       /\ \A k \in (P + 1)..(P + R) : todo'[k].rec \in B
  <2>1. ASSUME NEW k \in 1..P PROVE todo'[k].rec \in A
    BY <1>5, <1>6
  <2>2. ASSUME NEW k \in (P + 1)..(P + R) PROVE todo'[k].rec \in B
    <3>1. PICK i \in 1..R : i = k - P /\ todo'[k] = tr[i]
      BY <1>6
    <3>2. tr[i].rec \in B
      BY <1>5
    <3> QED BY <3>1, <3>2
  <2> QED BY <2>1, <2>2
<1>12. Recarded'
  <2> SUFFICES ASSUME NEW k \in 1..(P + R + 1), todo'[k].kind = "refresh"
               PROVE  record[todo'[k].rec].msg # NoMsg
    BY <1>6, <1>8 DEF Recarded
  <2>1. k \in (P + 1)..(P + R)
    BY <1>5, <1>6, <1>7
  <2>2. todo'[k].rec \in B
    BY <2>1, <1>11
  <2> QED BY <2>2, <1>10
<1>13. TaskedOnce'
  <2> SUFFICES ASSUME NEW k \in 1..(P + R + 1), NEW l \in 1..(P + R + 1),
                      todo'[k].kind # "notices", todo'[l].kind # "notices",
                      todo'[k].rec = todo'[l].rec
               PROVE  k = l
    BY <1>6 DEF TaskedOnce
  <2>1. k # P + R + 1 /\ l # P + R + 1
    BY <1>5, <1>6
  <2>2. CASE k \in 1..P /\ l \in 1..P
    <3>1. posts[k] = posts[l] /\ posts[k] \in Nat
      <4>1. posts[k] = posts[l]
        BY <2>2, <1>5, <1>6
      <4>2. posts[k] \in Recs
        BY <2>2, <1>2, <1>3
      <4> QED BY <4>1, <4>2 DEF Recs
    <3>2. \A i, j \in 1..P : i < j => posts[i] < posts[j]
      <4>1. DOMAIN posts = 1..P
        BY <1>2, <1>3
      <4> QED BY <4>1 DEF Rising
    <3>3. ~(k < l) /\ ~(l < k)
      BY <2>2, <3>1, <3>2
    <3> QED BY <2>2, <3>3
  <2>3. CASE k \in (P + 1)..(P + R) /\ l \in (P + 1)..(P + R)
    <3>1. PICK i \in 1..R, j \in 1..R : i = k - P /\ j = l - P
      BY <2>3, <1>6
    <3>2. refreshes[i] = refreshes[j] /\ refreshes[i] \in Nat
      <4>1. todo'[k] = tr[i] /\ todo'[l] = tr[j]
        BY <2>3, <3>1, <1>6
      <4>2. tr[i].rec = refreshes[i] /\ tr[j].rec = refreshes[j]
        BY <1>5
      <4>3. refreshes[i] \in Recs
        BY <1>2, <1>3
      <4> QED BY <4>1, <4>2, <4>3 DEF Recs
    <3>3. \A g, h \in 1..R : g < h => refreshes[g] > refreshes[h]
      <4>1. DOMAIN refreshes = 1..R
        BY <1>2, <1>3
      <4> QED BY <4>1 DEF Falling
    <3>4. i = j
      BY <3>2, <3>3
    <3> QED BY <3>1, <3>4
  <2>4. CASE k \in 1..P /\ l \in (P + 1)..(P + R)
    <3>1. todo'[k].rec \in A /\ todo'[l].rec \in B
      BY <2>4, <1>11
    <3> QED BY <3>1, <1>9, <1>10
  <2>5. CASE l \in 1..P /\ k \in (P + 1)..(P + R)
    <3>1. todo'[l].rec \in A /\ todo'[k].rec \in B
      BY <2>5, <1>11
    <3> QED BY <3>1, <1>9, <1>10
  <2> QED BY <2>1, <2>2, <2>3, <2>4, <2>5, <1>7
<1>14. Recorded' /\ InHand' /\ LoopInTask'
  BY <1>8 DEF Steady, Kept, Recorded, InHand, LoopInTask, CardIs, Gone
<1>15. ASSUME NEW r \in Recs PROVE Balanced(r)'
  <2>1. /\ CardsOf(r)' = CardsOf(r) /\ Returning(r)' = Returning(r) /\ causes'[r] = causes[r]
        /\ Vanished(r)' = Vanished(r)
    BY <1>8 DEF CardsOf, Returning, Vanished, Gone
  <2>2. Due(r)' => record[r].msg = NoMsg
    <3> SUFFICES ASSUME NEW k \in 1..(P + R + 1), todo'[k].kind = "post", todo'[k].rec = r
                 PROVE  record[r].msg = NoMsg
      BY <1>6 DEF Due
    <3>1. k \in 1..P
      BY <1>5, <1>6, <1>7
    <3> QED BY <3>1, <1>9, <1>11
  <2>3. Wanting(r)' => Wanting(r)
    BY <2>2, <1>8 DEF Wanting, CardSent
  <2> QED BY <2>1, <2>3, BalanceStays DEF Steady
<1> QED BY <1>8, <1>12, <1>13, <1>14, <1>15 DEF Steady, Kept

\* A pass comes to its end, or works through its notifications.
LEMMA NoticesSteadily ==
  ASSUME CardTypes, CardTypes', Steady, Drain \/ SendNotice PROVE Steady'
<1>1. /\ UNCHANGED <<msgs, record, at, causes>> /\ at[Loop].pc = "rest"
      /\ todo' = todo \/ todo' = <<>>
  BY DEF Drain, SendNotice, EndPass, AtNotices, faultVars
<1>2. CASE todo' = todo
  BY <1>1, <1>2, SteadyFrame
<1>3. CASE todo' = <<>>
  <2>1. DOMAIN todo' = {}
    BY <1>3
  <2>2. Kept'
    BY <2>1, <1>1
       DEF Steady, Kept, Recorded, InHand, LoopInTask, TaskedOnce, Recarded, CardIs, Gone
  <2>3. ASSUME NEW r \in Recs PROVE Balanced(r)'
    <3>1. /\ CardsOf(r)' = CardsOf(r) /\ Returning(r)' = Returning(r)
          /\ causes'[r] = causes[r] /\ Vanished(r)' = Vanished(r)
      BY <1>1 DEF CardsOf, Returning, Vanished, Gone
    <3>2. Wanting(r)' => Wanting(r)
      BY <2>1, <1>1 DEF Wanting, Due, CardSent
    <3> QED BY <3>1, <3>2, BalanceStays DEF Steady
  <2> QED BY <2>2, <2>3, <1>1 DEF Steady
<1> QED BY <1>1, <1>2, <1>3

\* A pass breaks off, alone or with everything else: a card it had just sent is one
\* that nobody knows, and the cause is counted.
LEMMA BreaksSteadily ==
  ASSUME CardTypes, CardTypes', Steady, GiveUp(Loop) \/ Restart PROVE Steady'
<1>1. /\ UNCHANGED <<msgs, record>> /\ causes' = Orphaned /\ todo' = <<>>
      /\ DOMAIN todo' = {}
  BY DEF GiveUp, Restart, Loop
<1>2. /\ Loop \in Coroutines /\ Loop \notin Presses
      /\ \A d \in Presses : d \in Coroutines /\ d # Loop
  BY DEF Coroutines, Presses, Loop
<1>3. at'[Loop] = AtRest /\ \A d \in Coroutines : at'[d] = at[d] \/ at'[d] = AtRest
  BY <1>2 DEF GiveUp, Restart, CardTypes
<1>4. AtRest.pc = "rest" /\ AtRest.msg = NoMsg
  BY DEF AtRest
<1>5. Kept'
  BY <1>1, <1>2, <1>3, <1>4
     DEF Steady, Kept, Recorded, InHand, LoopInTask, TaskedOnce, Recarded, CardIs, Gone
<1>6. causes' \in [Recs -> Nat]
  BY <1>1, <1>2 DEF Orphaned, Steady, CardTypes, Position
<1>7. ASSUME NEW r \in Recs PROVE Balanced(r)'
  <2>1. CardsOf(r)' = CardsOf(r) /\ Balanced(r)
    BY <1>1 DEF CardsOf, Steady
  <2>2. Returning(r)' \subseteq Returning(r)
    BY <1>1, <1>2, <1>3, <1>4 DEF Returning, Gone
  <2>3. Vanished(r)' => Vanished(r)
    BY <1>1, <1>3, <1>4 DEF Vanished, Gone
  <2>4. ~Due(r)'
    BY <1>1 DEF Due
  <2>5. CASE ~(CardSent /\ at[Loop].rec = r)
    <3>1. causes'[r] = causes[r]
      BY <2>5, <1>1 DEF Orphaned, Steady
    <3>2. Wanting(r)' => Wanting(r)
      BY <2>4, <2>5, <1>1 DEF Wanting
    <3> QED BY <2>1, <2>2, <2>3, <3>1, <3>2, BalanceStays DEF Steady
  <2>6. CASE CardSent /\ at[Loop].rec = r
    <3>1. causes'[r] = causes[r] + 1
      BY <2>6, <1>1 DEF Orphaned, Steady
    <3>2. PICK a \in Nat, b \in Nat, d \in Nat, k \in Nat :
            /\ a = Cardinality(CardsOf(r)) /\ b = Cardinality(Returning(r)) /\ k = causes[r]
            /\ d = Cardinality(Returning(r)') /\ d <= b
      BY <2>2, Counted, FS_Subset DEF Steady
    <3>3. a + (IF Vanished(r) THEN 1 ELSE 0) + b <= k + (IF Wanting(r) THEN 0 ELSE 1)
      BY <2>1, <3>2 DEF Balanced
    <3>4. a + (IF Vanished(r)' THEN 1 ELSE 0) + d <= (k + 1) + (IF Wanting(r)' THEN 0 ELSE 1)
      BY <2>3, <3>2, <3>3
    <3> QED BY <2>1, <3>1, <3>2, <3>4 DEF Balanced
  <2> QED BY <2>5, <2>6
<1> QED BY <1>5, <1>6, <1>7 DEF Steady

\* A message vanishes: one card more may come, and one for each press about to put
\* this one on record.
LEMMA DeleteSteadily ==
  ASSUME CardTypes, CardTypes', Steady, NEW i \in DOMAIN msgs, Delete(i) PROVE Steady'
<1>1. PICK m \in Message : m = msgs[i]
  BY DEF CardTypes
<1>2. PICK e : e = [m EXCEPT !.deleted = TRUE]
  OBVIOUS
<1>3. e.rec = m.rec /\ e.deleted /\ ~m.deleted /\ m.rec \in Recs
  BY <1>1, <1>2 DEF Message, Delete
<1>4. msgs' = [msgs EXCEPT ![i] = e] /\ UNCHANGED <<record, todo, at>>
  BY <1>1, <1>2 DEF Delete
<1>5. /\ DOMAIN msgs' = DOMAIN msgs
      /\ \A j \in DOMAIN msgs : /\ msgs'[j].rec = msgs[j].rec
                                /\ msgs'[j].deleted <=> msgs[j].deleted \/ j = i
  BY <1>1, <1>3, <1>4 DEF CardTypes
<1>6. \A n, r : CardIs(n, r) => CardIs(n, r)' /\ (Gone(n)' <=> Gone(n) \/ n = i)
  BY <1>5 DEF CardIs, Gone, CardTypes, NoMsg
<1>7. PICK g \in Nat : g = Cardinality(Recording(i)) /\ IsFiniteSet(Recording(i))
  <2>1. IsFiniteSet(Presses)
    BY FS_Interval, CardAssumption DEF Presses
  <2> QED BY <2>1, FS_Subset, FS_CardinalityType DEF Recording
<1>8. /\ causes' \in [Recs -> Nat]
      /\ \A r \in Recs : causes'[r] = IF r = m.rec THEN causes[r] + 1 + g ELSE causes[r]
  <2>1. causes' = [causes EXCEPT ![m.rec] = @ + 1 + g]
    BY <1>1, <1>7 DEF Delete
  <2> QED BY <2>1, <1>3 DEF Steady
<1>9. Kept'
  <2>1. Recorded' /\ LoopInTask' /\ TaskedOnce' /\ Recarded'
    BY <1>4, <1>6 DEF Steady, Kept, Recorded, LoopInTask, AtTask, TaskedOnce, Recarded, CardIs
  <2>2. ASSUME NEW c \in Coroutines
        PROVE  CardIs(at[c].msg, at[c].rec)' /\ (Gone(at[c].msg) => Gone(at[c].msg)')
    <3>1. CardIs(at[c].msg, at[c].rec)
      BY DEF Steady, Kept, InHand
    <3> QED BY <3>1, <1>4, <1>5 DEF CardIs, Gone
  <2>3. InHand'
    BY <2>2, <1>4 DEF Steady, Kept, InHand
  <2> QED BY <2>1, <2>3 DEF Kept
<1>10. ASSUME NEW r \in Recs PROVE Balanced(r)'
  <2>1. CardsOf(r)' = CardsOf(r) /\ Balanced(r) /\ Wanting(r)' = Wanting(r)
    BY <1>4, <1>5 DEF CardsOf, Steady, Wanting, Due, CardSent
  <2>2. \A c \in Presses :
          CardIs(at[c].msg, at[c].rec) /\ (at[c].pc # "rest" => at[c].msg # NoMsg)
    BY DEF Steady, Kept, InHand, Coroutines
  <2>3. CASE r # m.rec
    <3>1. Returning(r)' \subseteq Returning(r)
      BY <2>2, <2>3, <1>1, <1>4, <1>5 DEF Returning, Gone, CardIs
    <3>2. Vanished(r)' => Vanished(r)
      <4>1. CardIs(record[r].msg, r) /\ CardIs(at[Loop].msg, at[Loop].rec)
        BY DEF Steady, Kept, Recorded, InHand, Coroutines
      <4> QED BY <4>1, <2>3, <1>1, <1>4, <1>5 DEF Vanished, Gone, CardIs
    <3> QED BY <2>1, <2>3, <3>1, <3>2, <1>8, BalanceStays DEF Steady
  <2>4. CASE r = m.rec
    <3>1. /\ Returning(r)' = Returning(r) \union Recording(i)
          /\ Returning(r) \intersect Recording(i) = {}
      BY <2>2, <2>4, <1>1, <1>3, <1>4, <1>5, <1>6 DEF Returning, Recording, Gone, CardIs
    <3>2. PICK a \in Nat, b \in Nat, k \in Nat :
            /\ a = Cardinality(CardsOf(r)) /\ b = Cardinality(Returning(r)) /\ k = causes[r]
      BY Counted DEF Steady
    <3>3. Cardinality(Returning(r)') = b + g
      BY <3>1, <3>2, <1>7, Counted, FS_Union, FS_EmptySet
    <3>4. a + (IF Vanished(r) THEN 1 ELSE 0) + b <= k + (IF Wanting(r) THEN 0 ELSE 1)
      BY <2>1, <3>2 DEF Balanced
    <3>5. a + (IF Vanished(r)' THEN 1 ELSE 0) + (b + g)
            <= (k + 1 + g) + (IF Wanting(r)' THEN 0 ELSE 1)
      BY <2>1, <3>2, <3>4, <1>7
    <3> QED BY <2>1, <2>4, <3>2, <3>3, <3>5, <1>8 DEF Balanced
  <2> QED BY <2>3, <2>4
<1> QED BY <1>8, <1>9, <1>10 DEF Steady

LEMMA SteadyGoesOn ==
  CardTypes /\ LoopHasTask /\ Steady /\ [Next]_vars => Steady'
<1> SUFFICES ASSUME CardTypes, CardTypes', Steady, [Next]_vars PROVE Steady'
  BY TypesGoOn
<1>1. ASSUME NEW r \in Recs, Elsewhere(r) PROVE Steady'
  BY <1>1, SteadyFrame DEF Elsewhere, faultVars
<1>2. CASE Notify
  BY <1>2, SteadyFrame DEF Notify, cardVars, faultVars
<1>3. ASSUME NEW c \in Coroutines, Draw(c) PROVE Steady'
  BY <1>3, ReadSteadily, SendSteadily, RedrawSteadily, RecordSteadily, ForgetSteadily DEF Draw
<1>4. CASE UNCHANGED vars
  BY <1>4, SteadyFrame DEF vars, cardVars, faultVars
<1>5. /\ Loop \in Coroutines /\ \A c \in Presses : c \in Coroutines
      /\ \A c \in Coroutines : c = Loop \/ c \in Presses
  BY DEF Coroutines
<1> QED BY <1>1, <1>2, <1>3, <1>4, <1>5, PlanSteadily, BeginSteadily, PressesSteadily,
           NoticesSteadily, BreaksSteadily, DeleteSteadily
      DEF Next, Publish, Handle

\* Nothing has a cause but what went wrong.
Blameless == faults = 0 => \A r \in Recs : causes[r] = 0

LEMMA BlamelessGoesOn == NoticeInv /\ Blameless /\ [Next]_vars => Blameless'
<1> SUFFICES ASSUME NoticeInv, Blameless, [Next]_vars PROVE Blameless'
  OBVIOUS
<1>1. \/ faults' = faults /\ causes' = causes
      \/ faults' = faults + 1
  BY DEF Next, vars, cardVars, faultVars, Publish, Handle, Elsewhere, Notify, Plan, Begin, Drain,
         SendNotice, Draw, ReadRec, ReadLive, Send, Redraw, Missing, Forget, Record, Finish,
         Press, Decide, Refuse, GiveUp, Restart, Delete
<1>2. faults \in Nat
  BY CardAssumption DEF NoticeInv, NoticeTypes
<1> QED BY <1>1, <1>2 DEF Blameless

CardInv == CardTypes /\ LoopHasTask /\ NoticeInv /\ Steady /\ Blameless

\* The strengthened invariant is inductive.
THEOREM Inductive == (Init => CardInv) /\ (CardInv /\ [Next]_vars => CardInv')
<1>1. Init => CardInv
  <2>1. Init => Blameless
    BY DEF Init, Blameless
  <2> QED BY <2>1, TypesBegin, NoticesBegin, SteadyBegins DEF CardInv
<1>2. CardInv /\ [Next]_vars => CardInv'
  BY TypesGoOn, TaskGoesOn, NoticesGoOn, SteadyGoesOn, BlamelessGoesOn DEF CardInv
<1> QED BY <1>1, <1>2

\* A recommendation has at most one card more than it has causes for another: a pass
\* that broke off between sending and recording its card, a card of its that vanished,
\* a press that was recording one as it vanished (publisher.py), whatever presses,
\* decisions and passes interleave, and however often things go wrong.
THEOREM OneCardEach == Spec => []NoCardWithoutCause
<1>1. CardInv => NoCardWithoutCause
  <2> SUFFICES ASSUME CardInv, NEW r \in Recs
               PROVE  Cardinality(CardsOf(r)) <= 1 + causes[r]
    BY DEF NoCardWithoutCause
  <2>1. PICK n \in Nat : DOMAIN msgs = 1..n
    BY DEF CardInv, CardTypes
  <2>2. CardsOf(r) \in SUBSET (1..n) /\ Returning(r) \in SUBSET (1..NPresses) /\ NPresses \in Nat
    BY <2>1, CardAssumption DEF CardsOf, Returning, Presses
  <2>3. PICK a \in Nat, b \in Nat, k \in Nat :
          a = Cardinality(CardsOf(r)) /\ b = Cardinality(Returning(r)) /\ k = causes[r]
    BY <2>2, FinitePart DEF CardInv, Steady
  <2>4. a + (IF Vanished(r) THEN 1 ELSE 0) + b <= k + (IF Wanting(r) THEN 0 ELSE 1)
    BY <2>3 DEF CardInv, Steady, Balanced
  <2> QED BY <2>3, <2>4
<1> QED BY Inductive, <1>1, PTL DEF Spec

\* ingest_state knows every card in the DM but the one that the loop is about to
\* record (publisher.py), unless a pass broke off there or something else went wrong.
THEOREM CardsAreKnown == Spec => []OrphansAreFaults
<1>1. CardInv => OrphansAreFaults
  <2> SUFFICES ASSUME CardInv, faults = 0, at[Loop].pc # "record",
                      NEW r \in Recs, NEW i \in CardsOf(r)
               PROVE  record[r].msg = i
    BY DEF OrphansAreFaults
  <2>1. PICK n \in Nat : DOMAIN msgs = 1..n
    BY DEF CardInv, CardTypes
  <2>2. CardsOf(r) \in SUBSET (1..n) /\ Returning(r) \in SUBSET (1..NPresses) /\ NPresses \in Nat
    BY <2>1, CardAssumption DEF CardsOf, Returning, Presses
  <2>3. PICK a \in Nat, b \in Nat :
          a = Cardinality(CardsOf(r)) /\ b = Cardinality(Returning(r)) /\ IsFiniteSet(CardsOf(r))
    BY <2>2, FinitePart
  <2>4. a + (IF Vanished(r) THEN 1 ELSE 0) + b <= (IF Wanting(r) THEN 0 ELSE 1)
    BY <2>3 DEF CardInv, Steady, Balanced, Blameless
  <2>5. a = 1
    BY <2>3, <2>4, FS_EmptySet
  <2>6. record[r].msg # NoMsg
    BY <2>3, <2>4, <2>5 DEF Wanting, CardSent
  <2>7. record[r].msg \in CardsOf(r)
    BY <2>6 DEF CardInv, Steady, Kept, Recorded, CardIs, CardsOf
  <2>8. PICK x : CardsOf(r) = {x}
    BY <2>3, <2>5, FS_Singleton
  <2> QED BY <2>7, <2>8
<1> QED BY Inductive, <1>1, PTL DEF Spec
=============================================================================
