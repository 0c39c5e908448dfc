-------------------------- MODULE ApprovalFlowProofs --------------------------
(***************************************************************************)
(* Proofs about ApprovalFlow, for every set of recommendations, fields,    *)
(* values and submitting threads, and every bound on time and tokens.      *)
(***************************************************************************)
EXTENDS ApprovalFlow, TLAPS, SequenceTheorems

-----------------------------------------------------------------------------
(* Types.                                                                  *)

LEMMA BlankType == Blank \in Submission /\ NoPayload \in Payload
<1>1. \E p : p \in Payload
  <2>1. PICK v : v \in Values
    BY ConstantsAssumption
  <2>2. [f \in Fields |-> v] \in Payload
    BY <2>1 DEF Payload
  <2>3. QED
    BY <2>2
<1>2. NoPayload \in Payload
  BY <1>1 DEF NoPayload
<1>3. (CHOOSE r \in Recs : TRUE) \in Recs
  BY ConstantsAssumption
<1>4. QED
  BY <1>2, <1>3 DEF Blank, Submission, Outcome

LEMMA TokenWithState ==
  ASSUME NEW k \in Token, NEW st \in {"unspent", "spent", "revoked"}
  PROVE  /\ [k EXCEPT !.state = st] \in Token
         /\ [k EXCEPT !.state = st].state = st
         /\ [k EXCEPT !.state = st].rec = k.rec
         /\ [k EXCEPT !.state = st].payload = k.payload
         /\ [k EXCEPT !.state = st].expires = k.expires
BY DEF Token

\* revoke_for keeps every row, and of a row everything but its state.
LEMMA RevokeForEffect ==
  ASSUME NEW r \in Recs, tokens \in Seq(Token), RevokeFor(r)
  PROVE  /\ tokens' \in Seq(Token)
         /\ DOMAIN tokens' = DOMAIN tokens
         /\ \A t \in DOMAIN tokens :
              /\ tokens'[t].rec = tokens[t].rec
              /\ tokens'[t].payload = tokens[t].payload
              /\ tokens'[t].expires = tokens[t].expires
              /\ tokens'[t].state = IF t \in Unspent(r) THEN "revoked"
                                                        ELSE tokens[t].state
<1>1. Len(tokens) \in Nat /\ DOMAIN tokens = 1..Len(tokens)
  BY LenProperties
<1>2. ASSUME NEW t \in DOMAIN tokens
      PROVE  /\ tokens'[t] \in Token
             /\ tokens'[t].rec = tokens[t].rec
             /\ tokens'[t].payload = tokens[t].payload
             /\ tokens'[t].expires = tokens[t].expires
             /\ tokens'[t].state = IF t \in Unspent(r) THEN "revoked"
                                                       ELSE tokens[t].state
  <2>1. tokens[t] \in Token
    BY <1>1, ElementOfSeq
  <2>2. tokens'[t] = IF t \in Unspent(r) THEN [tokens[t] EXCEPT !.state = "revoked"]
                                         ELSE tokens[t]
    BY DEF RevokeFor
  <2>3. CASE t \in Unspent(r)
    <3> DEFINE e == [tokens[t] EXCEPT !.state = "revoked"]
    <3>1. /\ e \in Token /\ e.state = "revoked" /\ e.rec = tokens[t].rec
          /\ e.payload = tokens[t].payload /\ e.expires = tokens[t].expires
      BY <2>1, TokenWithState
    <3>2. tokens'[t] = e
      BY <2>2, <2>3
    <3> HIDE DEF e
    <3>3. QED
      BY <2>3, <3>1, <3>2
  <2>4. CASE t \notin Unspent(r)
    BY <2>1, <2>2, <2>4
  <2>5. QED
    BY <2>3, <2>4
<1>3. tokens' = [t \in 1..Len(tokens) |-> tokens'[t]]
  BY <1>1 DEF RevokeFor
<1>4. tokens' \in [1..Len(tokens) -> Token]
  BY <1>1, <1>2, <1>3
<1>5. tokens' \in Seq(Token) /\ DOMAIN tokens' = DOMAIN tokens
  BY <1>1, <1>4, SeqDef
<1>6. QED
  BY <1>2, <1>5

\* The UPDATE of consume: one row's state, nothing else.
LEMMA SpendEffect ==
  ASSUME NEW s \in Submitters, TypeOK, Spend(s)
  PROVE  /\ tokens' \in Seq(Token)
         /\ DOMAIN tokens' = DOMAIN tokens
         /\ \A t \in DOMAIN tokens :
              /\ tokens'[t].rec = tokens[t].rec
              /\ tokens'[t].payload = tokens[t].payload
              /\ tokens'[t].expires = tokens[t].expires
              /\ tokens'[t].state = IF t = sub[s].token THEN "spent"
                                                        ELSE tokens[t].state
<1> DEFINE k == sub[s].token
           e == [tokens[k] EXCEPT !.state = "spent"]
<1>1. tokens \in Seq(Token) /\ Len(tokens) \in Nat /\ k \in 1..Len(tokens)
  BY LenProperties DEF TypeOK, Spend, Spendable
<1>2. tokens[k] \in Token
  BY <1>1, ElementOfSeq
<1>3. e \in Token /\ e.state = "spent" /\ e.rec = tokens[k].rec
      /\ e.payload = tokens[k].payload /\ e.expires = tokens[k].expires
  BY <1>2, TokenWithState
<1>4. tokens' = [tokens EXCEPT ![k] = e]
  BY DEF Spend
<1> HIDE DEF e, k
<1>5. tokens' \in Seq(Token) /\ Len(tokens') = Len(tokens)
      /\ \A t \in 1..Len(tokens) : tokens'[t] = IF t = k THEN e ELSE tokens[t]
  BY <1>1, <1>3, <1>4, ExceptSeq
<1>6. DOMAIN tokens' = DOMAIN tokens /\ DOMAIN tokens = 1..Len(tokens)
  BY <1>1, <1>5, LenProperties
<1>7. QED
  BY <1>3, <1>5, <1>6 DEF k

LEMMA InitType == Init => TypeOK
BY BlankType, ConstantsAssumption
   DEF Init, TypeOK, Recommendation, Status, Live, Terminal, AuditRow, MFLWrite

LEMMA NextType == TypeOK /\ [Next]_vars => TypeOK'
<1> SUFFICES ASSUME TypeOK, [Next]_vars PROVE TypeOK'
  OBVIOUS
<1> USE ConstantsAssumption DEF TypeOK
<1>1. ASSUME NEW r \in Recs, NEW p \in Payload, Propose(r, p) PROVE TypeOK'
  BY <1>1 DEF Propose, Recommendation, Status, Live, Terminal
<1>2. ASSUME NEW r \in Recs, Render(r) PROVE TypeOK'
  BY <1>2 DEF Render, Recommendation
<1>3. ASSUME NEW r \in Recs, Approve(r) PROVE TypeOK'
  <2>1. TokenExpiry(r) \in Nat
    BY DEF TokenExpiry, Recommendation
  <2>2. [rec |-> r, payload |-> rec[r].payload, expires |-> TokenExpiry(r),
         state |-> "unspent"] \in Token
    BY <2>1 DEF Token, Recommendation
  <2>3. tokens' \in Seq(Token)
    BY <1>3, <2>2, AppendProperties DEF Approve
  <2>4. QED
    BY <1>3, <2>3 DEF Approve, WithStatus, Recommendation, Status, Live
<1>4. ASSUME NEW r \in Recs, Reject(r) PROVE TypeOK'
  BY <1>4, RevokeForEffect DEF Reject, WithStatus, Recommendation, Status, Terminal
<1>5. ASSUME NEW r \in Recs, NEW p \in Payload, NEW f \in Fields, NEW v \in Values,
             Edit(r, p, f, v)
      PROVE  TypeOK'
  <2>1. [p EXCEPT ![f] = v] \in Payload
    BY DEF Payload
  <2>2. tokens' \in Seq(Token)
    BY <1>5, RevokeForEffect DEF Edit
  <2>3. QED
    BY <1>5, <2>1, <2>2 DEF Edit, Recommendation, Status, Live
<1>6. ASSUME NEW s \in Submitters, NEW r \in Recs, NEW t \in DOMAIN tokens, Load(s, r, t)
      PROVE  TypeOK'
  <2>1. t \in Nat /\ rec[r].payload \in Payload
    BY DEF Recommendation
  <2>2. [pc |-> "loaded", rec |-> r, token |-> t, payload |-> rec[r].payload,
         outcome |-> "failed"] \in Submission
    BY <2>1 DEF Submission, Outcome
  <2>3. QED
    BY <1>6, <2>2 DEF Load
<1>7. ASSUME NEW s \in Submitters, PreconditionsFail(s) PROVE TypeOK'
  <2>1. sub[s].rec \in Recs
    BY DEF Submission
  <2>2. QED
    BY <1>7, <2>1, BlankType
       DEF PreconditionsFail, Return, WithStatus, Recommendation, Status, Terminal
<1>8. ASSUME NEW s \in Submitters, PreconditionsHold(s) PROVE TypeOK'
  <2>1. [token |-> sub[s].token, outcome |-> "submitting"] \in AuditRow
    BY DEF AuditRow, Submission
  <2>2. QED
    BY <1>8, <2>1 DEF PreconditionsHold, Step, Submission
<1>9. ASSUME NEW s \in Submitters, RefuseUnsent(s) PROVE TypeOK'
  BY <1>9, BlankType DEF RefuseUnsent, Return
<1>10. ASSUME NEW s \in Submitters, Spend(s) PROVE TypeOK'
  <2>1. tokens' \in Seq(Token)
    BY <1>10, SpendEffect
  <2>2. QED
    BY <1>10, <2>1 DEF Spend, Step, Submission
<1>11. ASSUME NEW s \in Submitters, NEW o \in Outcome, Send(s, o) PROVE TypeOK'
  <2>1. [rec |-> sub[s].rec, payload |-> Request(s), token |-> sub[s].token,
         outcome |-> o] \in MFLWrite
    BY DEF Submission, MFLWrite, Request
  <2>2. writes' \in Seq(MFLWrite)
    BY <1>11, <2>1, AppendProperties DEF Send
  <2>3. QED
    BY <1>11, <2>2 DEF Send, Submission
<1>12. ASSUME NEW s \in Submitters, Record(s) PROVE TypeOK'
  <2>1. [token |-> sub[s].token,
         outcome |-> IF sub[s].outcome = "accepted" THEN "submitted" ELSE "failed"]
           \in AuditRow
    BY DEF AuditRow, Submission
  <2>2. sub[s].rec \in Recs
    BY DEF Submission
  <2>3. QED
    BY <1>12, <2>1, <2>2, BlankType
       DEF Record, Return, WithStatus, RecordedStatus, Recommendation, Status, Terminal
<1>13. CASE ExpireStale
  BY <1>13 DEF ExpireStale, ExpireOnly, Recommendation, Status, Terminal
<1>14. CASE Tick
  BY <1>14 DEF Tick
<1>15. ASSUME NEW s \in Submitters, Abort(s) PROVE TypeOK'
  BY <1>15, BlankType DEF Abort
<1>16. CASE UNCHANGED vars
  BY <1>16 DEF vars
<1>17. QED
  BY <1>1, <1>2, <1>3, <1>4, <1>5, <1>6, <1>7, <1>8, <1>9, <1>10, <1>11, <1>12,
     <1>13, <1>14, <1>15, <1>16 DEF Next, Decide, Execute

\* Every variable keeps its type, whatever the sets and the bounds.
THEOREM TypeCorrect == Spec => []TypeOK
BY InitType, NextType, PTL DEF Spec

-----------------------------------------------------------------------------
(* The inductive invariant IInv. One lemma per conjunct; each looks at the *)
(* actions that can disturb it, the others leave its variables alone.      *)

LEMMA ApproveEffect ==
  ASSUME NEW r \in Recs, TypeOK, Approve(r)
  PROVE  \E n \in Nat :
           /\ DOMAIN tokens = 1..n /\ DOMAIN tokens' = 1..(n + 1)
           /\ \A t \in 1..n : tokens'[t] = tokens[t]
           /\ tokens'[n + 1].rec = r
           /\ tokens'[n + 1].expires = TokenExpiry(r)
           /\ tokens'[n + 1].state = "unspent"
<1> DEFINE e == [rec |-> r, payload |-> rec[r].payload, expires |-> TokenExpiry(r),
                 state |-> "unspent"]
<1>1. TokenExpiry(r) \in Nat
  BY ConstantsAssumption DEF TokenExpiry, Recommendation, TypeOK
<1>2. e \in Token /\ tokens \in Seq(Token)
  BY <1>1 DEF Token, Recommendation, TypeOK
<1>3. tokens' = Append(tokens, e)
  BY DEF Approve
<1> HIDE DEF e
<1>4. /\ tokens' \in Seq(Token) /\ Len(tokens') = Len(tokens) + 1
      /\ \A i \in 1..Len(tokens) : tokens'[i] = tokens[i]
      /\ tokens'[Len(tokens) + 1] = e
  BY <1>2, <1>3, AppendProperties
<1>5. /\ Len(tokens) \in Nat
      /\ DOMAIN tokens = 1..Len(tokens) /\ DOMAIN tokens' = 1..(Len(tokens) + 1)
  BY <1>2, <1>4, LenProperties
<1>6. e.rec = r /\ e.expires = TokenExpiry(r) /\ e.state = "unspent"
  BY DEF e
<1>7. QED
  BY <1>4, <1>5, <1>6

LEMMA SendEffect ==
  ASSUME NEW s \in Submitters, NEW o \in Outcome, TypeOK, Send(s, o)
  PROVE  \E n \in Nat :
           /\ DOMAIN writes = 1..n /\ DOMAIN writes' = 1..(n + 1)
           /\ \A i \in 1..n : writes'[i] = writes[i]
           /\ writes'[n + 1].rec = sub[s].rec
           /\ writes'[n + 1].payload = sub[s].payload
           /\ writes'[n + 1].token = sub[s].token
           /\ writes'[n + 1].outcome = o
<1> DEFINE e == [rec |-> sub[s].rec, payload |-> Request(s),
                 token |-> sub[s].token, outcome |-> o]
<1>1. e \in MFLWrite /\ writes \in Seq(MFLWrite)
  BY DEF MFLWrite, Submission, Request, TypeOK
<1>2. writes' = Append(writes, e)
  BY DEF Send
<1> HIDE DEF e
<1>3. /\ writes' \in Seq(MFLWrite) /\ Len(writes') = Len(writes) + 1
      /\ \A i \in 1..Len(writes) : writes'[i] = writes[i]
      /\ writes'[Len(writes) + 1] = e
  BY <1>1, <1>2, AppendProperties
<1>4. /\ Len(writes) \in Nat
      /\ DOMAIN writes = 1..Len(writes) /\ DOMAIN writes' = 1..(Len(writes) + 1)
  BY <1>1, <1>3, LenProperties
<1>5. e.rec = sub[s].rec /\ e.payload = sub[s].payload
      /\ e.token = sub[s].token /\ e.outcome = o
  BY DEF e, Request
<1>6. QED
  BY <1>3, <1>4, <1>5

LEMMA WithdrawnStep == IInv /\ TypeOK /\ [Next]_vars => WithdrawnApprovalsDie'
<1> SUFFICES ASSUME IInv, TypeOK, [Next]_vars PROVE WithdrawnApprovalsDie'
  OBVIOUS
<1> USE DEF WithdrawnApprovalsDie, Unspent
<1>0. WithdrawnApprovalsDie /\ tokens \in Seq(Token) /\ rec \in [Recs -> Recommendation]
  BY DEF IInv, TypeOK
<1>1. ASSUME NEW r \in Recs, NEW p \in Payload, Propose(r, p)
      PROVE  WithdrawnApprovalsDie'
  BY <1>0, <1>1 DEF Propose, Recommendation
<1>2. ASSUME NEW r \in Recs, Approve(r) PROVE WithdrawnApprovalsDie'
  <2>1. rec' = [rec EXCEPT ![r].status = "approved"]
    BY <1>2 DEF Approve, WithStatus
  <2>2. ASSUME NEW q \in Recs, rec'[q].status \in {"none", "proposed", "rejected"}
        PROVE  Unspent(q)' = {}
    <3>1. q # r /\ rec'[q] = rec[q]
      BY <1>0, <2>1, <2>2 DEF Recommendation
    <3>2. ASSUME NEW t \in DOMAIN tokens', tokens'[t].rec = q, tokens'[t].state = "unspent"
          PROVE  FALSE
      <4>0. PICK n \in Nat :
              /\ DOMAIN tokens = 1..n /\ DOMAIN tokens' = 1..(n + 1)
              /\ \A u \in 1..n : tokens'[u] = tokens[u]
              /\ tokens'[n + 1].rec = r
        <5> HIDE DEF WithdrawnApprovalsDie, Unspent
        <5> QED BY <1>2, ApproveEffect
      <4>1. t # n + 1
        BY <3>1, <3>2, <4>0
      <4>2. t \in DOMAIN tokens /\ tokens'[t] = tokens[t]
        BY <4>0, <4>1
      <4>3. QED
        BY <1>0, <2>2, <3>1, <3>2, <4>2
    <3>3. QED
      BY <3>2
  <2>3. QED
    BY <2>2
<1>3. ASSUME NEW r \in Recs, RevokeFor(r),
             \A q \in Recs \ {r} : rec'[q] = rec[q]
      PROVE  WithdrawnApprovalsDie'
  <2>1. DOMAIN tokens' = DOMAIN tokens
        /\ \A t \in DOMAIN tokens :
             /\ tokens'[t].rec = tokens[t].rec
             /\ tokens'[t].state = IF t \in Unspent(r) THEN "revoked" ELSE tokens[t].state
    BY <1>0, <1>3, RevokeForEffect
  <2>2. Unspent(r)' = {}
    BY <2>1
  <2>3. \A q \in Recs \ {r} : Unspent(q)' \subseteq Unspent(q)
    BY <2>1
  <2>4. QED
    BY <1>0, <1>3, <2>2, <2>3
<1>4. ASSUME NEW r \in Recs, Reject(r) PROVE WithdrawnApprovalsDie'
  BY <1>0, <1>3, <1>4 DEF Reject, WithStatus
<1>5. ASSUME NEW r \in Recs, NEW p \in Payload, NEW f \in Fields, NEW v \in Values,
             Edit(r, p, f, v)
      PROVE  WithdrawnApprovalsDie'
  BY <1>0, <1>3, <1>5 DEF Edit
<1>6. ASSUME NEW s \in Submitters, NEW st \in {"executed", "failed"},
             WithStatus(sub[s].rec, st), UNCHANGED tokens
      PROVE  WithdrawnApprovalsDie'
  BY <1>0, <1>6 DEF WithStatus, Recommendation
<1>7. ASSUME NEW s \in Submitters, Execute(s) PROVE WithdrawnApprovalsDie'
  <2>1. CASE PreconditionsFail(s)
    BY <1>6, <2>1 DEF PreconditionsFail
  <2>2. CASE Record(s)
    BY <1>6, <2>2 DEF Record, RecordedStatus
  <2>3. CASE Spend(s)
    <3>1. \A q \in Recs : Unspent(q)' \subseteq Unspent(q)
      BY <2>3, SpendEffect
    <3>2. QED
      BY <1>0, <2>3, <3>1 DEF Spend
  <2>4. CASE PreconditionsHold(s) \/ RefuseUnsent(s) \/ Abort(s) \/ \E o \in Outcome : Send(s, o)
    BY <1>0, <2>4 DEF PreconditionsHold, RefuseUnsent, Abort, Send
  <2>5. QED
    BY <1>7, <2>1, <2>2, <2>3, <2>4 DEF Execute
<1>8. CASE ExpireStale
  BY <1>0, <1>8 DEF ExpireStale, ExpireOnly, Recommendation
<1>9. CASE \/ \E r \in Recs : Render(r)
           \/ \E s \in Submitters, r \in Recs, t \in DOMAIN tokens : Load(s, r, t)
           \/ Tick \/ UNCHANGED vars
  BY <1>0, <1>9 DEF Render, Load, Tick, vars
<1>10. QED
  BY <1>1, <1>2, <1>4, <1>5, <1>7, <1>8, <1>9 DEF Next, Decide

\* What any step does to the tokens: rows are never removed nor rebound, a spent
\* one stays spent, none becomes unspent again; only Approve adds one.
LEMMA TokensPersist ==
  ASSUME TypeOK, [Next]_vars
  PROVE  /\ DOMAIN tokens \subseteq DOMAIN tokens'
         /\ \A t \in DOMAIN tokens :
              /\ tokens'[t].rec = tokens[t].rec
              /\ tokens'[t].payload = tokens[t].payload
              /\ tokens'[t].expires = tokens[t].expires
              /\ tokens[t].state = "spent" => tokens'[t].state = "spent"
              /\ tokens'[t].state = "unspent" => tokens[t].state = "unspent"
         /\ DOMAIN tokens' = DOMAIN tokens \/ \E r \in Recs : Approve(r)
<1>1. CASE \E r \in Recs : Approve(r)
  <2>1. PICK r \in Recs : Approve(r)
    BY <1>1
  <2>2. PICK n \in Nat :
          /\ DOMAIN tokens = 1..n /\ DOMAIN tokens' = 1..(n + 1)
          /\ \A u \in 1..n : tokens'[u] = tokens[u]
    BY <2>1, ApproveEffect
  <2>3. QED
    BY <1>1, <2>2
<1>2. ASSUME NEW r \in Recs, RevokeFor(r)
      PROVE  /\ DOMAIN tokens' = DOMAIN tokens
             /\ \A t \in DOMAIN tokens :
                  /\ tokens'[t].rec = tokens[t].rec
                  /\ tokens'[t].payload = tokens[t].payload
                  /\ tokens'[t].expires = tokens[t].expires
                  /\ tokens[t].state = "spent" => tokens'[t].state = "spent"
                  /\ tokens'[t].state = "unspent" => tokens[t].state = "unspent"
  <2>1. /\ DOMAIN tokens' = DOMAIN tokens
        /\ \A t \in DOMAIN tokens :
             /\ tokens'[t].rec = tokens[t].rec
             /\ tokens'[t].payload = tokens[t].payload
             /\ tokens'[t].expires = tokens[t].expires
             /\ tokens'[t].state = IF t \in Unspent(r) THEN "revoked" ELSE tokens[t].state
    BY <1>2, RevokeForEffect DEF TypeOK
  <2>2. QED
    BY <2>1 DEF Unspent
<1>3. CASE \E s \in Submitters : Spend(s)
  <2>1. PICK s \in Submitters : Spend(s)
    BY <1>3
  <2>2. tokens[sub[s].token].state = "unspent"
    BY <2>1 DEF Spend, Spendable
  <2>3. QED
    BY <2>1, <2>2, SpendEffect
<1>4. CASE UNCHANGED tokens
  BY <1>4
<1>5. \/ \E r \in Recs : Approve(r) \/ RevokeFor(r)
      \/ \E s \in Submitters : Spend(s)
      \/ UNCHANGED tokens
  <2>1. CASE \E r \in Recs : Decide(r)
    BY <2>1 DEF Decide, Propose, Render, Reject, Edit
  <2>2. CASE \E s \in Submitters : Execute(s)
    BY <2>2 DEF Execute, PreconditionsFail, PreconditionsHold, RefuseUnsent, Send, Record,
           Abort
  <2>3. CASE \E s \in Submitters, r \in Recs, t \in DOMAIN tokens : Load(s, r, t)
    BY <2>3 DEF Load
  <2>4. CASE ExpireStale \/ Tick \/ UNCHANGED vars
    BY <2>4 DEF ExpireStale, ExpireOnly, Tick, vars
  <2>5. QED
    BY <2>1, <2>2, <2>3, <2>4 DEF Next
<1>6. QED
  BY <1>1, <1>2, <1>3, <1>4, <1>5

\* set_status changes one status and nothing else.
LEMMA WithStatusEffect ==
  ASSUME TypeOK, NEW r \in Recs, NEW st, WithStatus(r, st)
  PROVE  /\ rec'[r].status = st
         /\ \A q \in Recs : /\ q # r => rec'[q] = rec[q]
                            /\ rec'[q].expires = rec[q].expires
                            /\ rec'[q].payload = rec[q].payload
BY DEF TypeOK, WithStatus, Recommendation

\* What any step does to the recommendations: one that exists keeps its expiry,
\* and the clock never runs backwards.
LEMMA RecsPersist ==
  ASSUME TypeOK, [Next]_vars
  PROVE  /\ now' >= now
         /\ \A r \in Recs : rec[r].status # "none" =>
              rec'[r].status # "none" /\ rec'[r].expires = rec[r].expires
<1>0. now \in Nat /\ rec \in [Recs -> Recommendation] /\ sub \in [Submitters -> Submission]
  BY ConstantsAssumption DEF TypeOK
<1> DEFINE Persist == \A r \in Recs : rec[r].status # "none" =>
                        rec'[r].status # "none" /\ rec'[r].expires = rec[r].expires
<1>1. ASSUME NEW r \in Recs, NEW st, st # "none", WithStatus(r, st)
      PROVE  Persist
  BY <1>1, WithStatusEffect
<1>2. CASE \E r \in Recs : Decide(r)
  <2>1. PICK r \in Recs : Decide(r)
    BY <1>2
  <2>2. now' = now
    BY <2>1 DEF Decide, Propose, Render, Approve, Reject, Edit
  <2>3. CASE Approve(r) \/ Reject(r)
    BY <1>0, <1>1, <2>2, <2>3 DEF Approve, Reject
  <2>4. CASE Render(r)
    BY <1>0, <2>2, <2>4 DEF Render
  <2>5. CASE \E p \in Payload : Propose(r, p)
    BY <1>0, <2>5 DEF Propose
  <2>6. CASE \E p \in Payload, f \in Fields, v \in Values : Edit(r, p, f, v)
    BY <1>0, <2>6 DEF Edit, Recommendation
  <2>7. QED
    BY <1>0, <2>1, <2>2, <2>3, <2>4, <2>5, <2>6 DEF Decide
<1>3. CASE \E s \in Submitters : Execute(s)
  <2>1. PICK s \in Submitters : Execute(s)
    BY <1>3
  <2>2. sub[s].rec \in Recs
    BY <1>0 DEF Submission
  <2>3. now' = now
    BY <2>1 DEF Execute, PreconditionsFail, PreconditionsHold, RefuseUnsent, Spend, Send, Record,
           Abort
  <2>4. CASE PreconditionsFail(s)
    BY <1>0, <1>1, <2>2, <2>3, <2>4 DEF PreconditionsFail
  <2>5. CASE Record(s)
    BY <1>0, <1>1, <2>2, <2>3, <2>5 DEF Record, RecordedStatus
  <2>6. CASE PreconditionsHold(s) \/ RefuseUnsent(s) \/ Spend(s) \/ Abort(s)
             \/ \E o \in Outcome : Send(s, o)
    <3>1. UNCHANGED rec
      BY <2>6 DEF PreconditionsHold, RefuseUnsent, Spend, Send, Abort
    <3>2. QED
      BY <1>0, <2>3, <3>1
  <2>7. QED
    BY <1>0, <2>1, <2>3, <2>4, <2>5, <2>6 DEF Execute
<1>4. CASE \E s \in Submitters, r \in Recs, t \in DOMAIN tokens : Load(s, r, t)
  BY <1>0, <1>4 DEF Load
<1>5. CASE ExpireStale \/ Tick \/ UNCHANGED vars
  BY <1>0, <1>5 DEF ExpireStale, ExpireOnly, Tick, vars, Recommendation
<1>6. QED
  BY <1>2, <1>3, <1>4, <1>5 DEF Next

LEMMA TokensOrderedStep == IInv /\ TypeOK /\ [Next]_vars => TokensOrdered'
<1> SUFFICES ASSUME IInv, TypeOK, [Next]_vars PROVE TokensOrdered'
  OBVIOUS
<1>0. /\ TokensOrdered /\ rec \in [Recs -> Recommendation] /\ now \in Nat
      /\ TTL \in Nat /\ now' \in Nat /\ rec' \in [Recs -> Recommendation]
      /\ \A t \in DOMAIN tokens : tokens[t].rec \in Recs /\ tokens[t].expires \in Nat
  <2>1. TypeOK'
    BY NextType
  <2>2. \A t \in DOMAIN tokens : tokens[t] \in Token
    BY LenProperties, ElementOfSeq DEF TypeOK
  <2>3. QED
    BY <2>1, <2>2, ConstantsAssumption DEF IInv, TypeOK, Token
<1>1. CASE DOMAIN tokens' = DOMAIN tokens
  <2>1. /\ now' >= now
        /\ \A r \in Recs : rec[r].status # "none" =>
             rec'[r].status # "none" /\ rec'[r].expires = rec[r].expires
    BY RecsPersist
  <2>2. \A t \in DOMAIN tokens : tokens'[t].rec = tokens[t].rec
                                 /\ tokens'[t].expires = tokens[t].expires
    BY TokensPersist
  <2>3. QED
    BY <1>0, <1>1, <2>1, <2>2 DEF TokensOrdered
<1>2. ASSUME NEW r \in Recs, Approve(r) PROVE TokensOrdered'
  <2>1. PICK n \in Nat :
          /\ DOMAIN tokens = 1..n /\ DOMAIN tokens' = 1..(n + 1)
          /\ \A t \in 1..n : tokens'[t] = tokens[t]
          /\ tokens'[n + 1].rec = r /\ tokens'[n + 1].expires = TokenExpiry(r)
    BY <1>2, ApproveEffect
  <2>2. /\ now' = now /\ rec'[r].status = "approved"
        /\ rec[r].expires \in Nat
        /\ \A q \in Recs : rec'[q].expires = rec[q].expires
        /\ \A q \in Recs : rec[q].status # "none" => rec'[q].status # "none"
    BY <1>0, <1>2 DEF Approve, WithStatus, Recommendation
  <2>3. /\ TokenExpiry(r) <= rec[r].expires /\ TokenExpiry(r) <= now + TTL
        /\ \A x \in Nat : x <= rec[r].expires /\ x <= now + TTL => x <= TokenExpiry(r)
    BY <1>0, <2>2 DEF TokenExpiry
  <2> DEFINE Ordered(t) ==
        /\ rec'[tokens'[t].rec].status # "none"
        /\ tokens'[t].expires <= rec'[tokens'[t].rec].expires
        /\ tokens'[t].expires <= now' + TTL
  <2>4. \A t \in 1..n : Ordered(t)
    BY <1>0, <2>1, <2>2 DEF TokensOrdered
  <2>5. Ordered(n + 1)
    BY <2>1, <2>2, <2>3
  <2>6. \A t, u \in 1..(n + 1) : t < u /\ tokens'[t].rec = tokens'[u].rec =>
                                   tokens'[t].expires <= tokens'[u].expires
    <3>1. ASSUME NEW t \in 1..n, tokens[t].rec = r PROVE tokens[t].expires <= TokenExpiry(r)
      BY <1>0, <2>1, <2>3, <3>1 DEF TokensOrdered
    <3>2. ASSUME NEW t \in 1..n, NEW u \in 1..n, t < u, tokens[t].rec = tokens[u].rec
          PROVE  tokens[t].expires <= tokens[u].expires
      BY <1>0, <2>1, <3>2 DEF TokensOrdered
    <3> HIDE DEF Ordered
    <3>3. ASSUME NEW t \in 1..(n + 1), NEW u \in 1..(n + 1), t < u,
                 tokens'[t].rec = tokens'[u].rec
          PROVE  tokens'[t].expires <= tokens'[u].expires
      <4>1. t \in 1..n /\ tokens'[t] = tokens[t]
        BY <2>1, <3>3
      <4>2. CASE u \in 1..n
        BY <2>1, <3>2, <3>3, <4>1, <4>2
      <4>3. CASE u = n + 1
        BY <2>1, <3>1, <3>3, <4>1, <4>3
      <4>4. QED
        BY <4>2, <4>3
    <3>4. QED
      BY <3>3
  <2>7. QED
    BY <2>1, <2>4, <2>5, <2>6 DEF TokensOrdered
<1>3. QED
  BY <1>1, <1>2, TokensPersist

\* The argument of the guard of approve: of the live approvals of r there is at
\* most one, expiries grow with the row, so it is the newest unspent one, the
\* one latest_for returns. When latest_for returns nothing, none is live.
LEMMA LatestForIsLive ==
  ASSUME NEW r \in Recs, NEW t \in Unspent(r), TypeOK, TokensOrdered,
         AtMostOneLiveApproval, now < tokens[t].expires
  PROVE  t \in LatestFor(r)
<1>1. /\ now \in Nat
      /\ \A u \in DOMAIN tokens : u \in Nat /\ tokens[u].expires \in Nat
  <2>1. \A u \in DOMAIN tokens : u \in Nat /\ tokens[u] \in Token
    BY LenProperties, ElementOfSeq DEF TypeOK
  <2>2. QED
    BY <2>1, ConstantsAssumption DEF TypeOK, Token
<1>2. ASSUME NEW u \in Unspent(r) PROVE u <= t
  <2>1. SUFFICES ASSUME t < u PROVE FALSE
    BY <1>1 DEF Unspent
  <2>2. tokens[t].expires <= tokens[u].expires
    BY <2>1 DEF TokensOrdered, Unspent
  <2>3. now < tokens[u].expires
    BY <1>1, <2>2 DEF Unspent
  <2>4. t = u
    BY <2>3 DEF AtMostOneLiveApproval
  <2>5. QED
    BY <1>1, <2>1, <2>4 DEF Unspent
<1>3. QED
  BY <1>2 DEF LatestFor

LEMMA AtMostOneStep == IInv /\ TypeOK /\ [Next]_vars => AtMostOneLiveApproval'
<1> SUFFICES ASSUME IInv, TypeOK, [Next]_vars,
                    NEW r \in Recs, NEW t \in Unspent(r)', NEW u \in Unspent(r)',
                    now' < tokens'[t].expires, now' < tokens'[u].expires
             PROVE  t = u
  BY DEF AtMostOneLiveApproval
<1>0. /\ AtMostOneLiveApproval /\ TokensOrdered /\ WithdrawnApprovalsDie
      /\ now \in Nat /\ now' \in Nat /\ now' >= now
      /\ \A v \in DOMAIN tokens : tokens[v].expires \in Nat
  <2>1. TypeOK'
    BY NextType
  <2>2. \A v \in DOMAIN tokens : tokens[v] \in Token
    BY LenProperties, ElementOfSeq DEF TypeOK
  <2>3. QED
    BY <2>1, <2>2, RecsPersist, ConstantsAssumption DEF IInv, TypeOK, Token
<1>1. ASSUME NEW v \in Unspent(r)', v \in DOMAIN tokens, now' < tokens'[v].expires
      PROVE  v \in Unspent(r) /\ now < tokens[v].expires
  <2>1. /\ tokens'[v].rec = tokens[v].rec /\ tokens'[v].expires = tokens[v].expires
        /\ tokens'[v].state = "unspent" => tokens[v].state = "unspent"
    BY <1>1, TokensPersist
  <2>2. QED
    BY <1>0, <1>1, <2>1 DEF Unspent
<1>2. CASE DOMAIN tokens' = DOMAIN tokens
  BY <1>0, <1>1, <1>2 DEF AtMostOneLiveApproval, Unspent
<1>3. ASSUME NEW q \in Recs, Approve(q) PROVE t = u
  <2>1. PICK n \in Nat :
          /\ DOMAIN tokens = 1..n /\ DOMAIN tokens' = 1..(n + 1)
          /\ tokens'[n + 1].rec = q
    BY <1>3, ApproveEffect
  <2>2. t \in 1..(n + 1) /\ u \in 1..(n + 1)
    BY <2>1 DEF Unspent
  <2>3. CASE t \in DOMAIN tokens /\ u \in DOMAIN tokens
    BY <1>0, <1>1, <2>3 DEF AtMostOneLiveApproval
  <2>4. ASSUME NEW v \in Unspent(r)', v \in DOMAIN tokens, now' < tokens'[v].expires, q = r
        PROVE  FALSE
    <3>1. v \in Unspent(r) /\ now < tokens[v].expires
      BY <1>1, <2>4
    <3>2. v \in LatestFor(r)
      BY <1>0, <3>1, LatestForIsLive
    <3>3. rec[r].status # "proposed"
      BY <1>0, <3>1 DEF WithdrawnApprovalsDie
    <3>4. QED
      BY <1>3, <2>4, <3>2, <3>3 DEF Approve
  <2>5. CASE t \notin DOMAIN tokens \/ u \notin DOMAIN tokens
    <3>1. q = r
      BY <2>1, <2>2, <2>5 DEF Unspent
    <3>2. t \notin DOMAIN tokens /\ u \notin DOMAIN tokens
      BY <2>4, <2>5, <3>1
    <3>3. QED
      BY <2>1, <2>2, <3>2
  <2>6. QED
    BY <2>3, <2>5
<1>4. QED
  BY <1>2, <1>3, TokensPersist

\* Nothing sent is unsent, nothing audited is erased; only Send sends.
LEMMA RecordsPersist ==
  ASSUME TypeOK, [Next]_vars
  PROVE  /\ audit \subseteq audit'
         /\ DOMAIN writes \subseteq DOMAIN writes'
         /\ \A i \in DOMAIN writes : writes'[i] = writes[i]
         /\ UNCHANGED writes \/ \E s \in Submitters, o \in Outcome : Send(s, o)
<1>1. CASE \E s \in Submitters, o \in Outcome : Send(s, o)
  <2>1. PICK s \in Submitters, o \in Outcome : Send(s, o)
    BY <1>1
  <2>2. PICK n \in Nat : /\ DOMAIN writes = 1..n /\ DOMAIN writes' = 1..(n + 1)
                         /\ \A i \in 1..n : writes'[i] = writes[i]
    BY <2>1, SendEffect
  <2>3. audit' = audit
    BY <2>1 DEF Send
  <2>4. QED
    BY <1>1, <2>2, <2>3
<1>2. ASSUME ~ \E s \in Submitters, o \in Outcome : Send(s, o)
      PROVE  UNCHANGED writes /\ audit \subseteq audit'
  <2>1. CASE \E r \in Recs : Decide(r)
    BY <2>1 DEF Decide, Propose, Render, Approve, Reject, Edit
  <2>2. CASE \E s \in Submitters : Execute(s)
    BY <1>2, <2>2
       DEF Execute, PreconditionsFail, PreconditionsHold, RefuseUnsent, Spend, Record, Abort
  <2>3. CASE \E s \in Submitters, r \in Recs, t \in DOMAIN tokens : Load(s, r, t)
    BY <2>3 DEF Load
  <2>4. CASE ExpireStale \/ Tick \/ UNCHANGED vars
    BY <2>4 DEF ExpireStale, ExpireOnly, Tick, vars
  <2>5. QED
    BY <2>1, <2>2, <2>3, <2>4 DEF Next
<1>3. QED
  BY <1>1, <1>2

\* What a step can do to one executor.
LEMMA SubmitterMoves ==
  ASSUME TypeOK, [Next]_vars, NEW q \in Submitters
  PROVE  \/ sub'[q] = sub[q]
         \/ sub'[q].pc = "idle"
         \/ \E r \in Recs, t \in DOMAIN tokens : Load(q, r, t)
         \/ PreconditionsHold(q)
         \/ Spend(q)
         \/ \E o \in Outcome : Send(q, o)
<1>0. sub \in [Submitters -> Submission] /\ Blank.pc = "idle"
  BY DEF TypeOK, Blank
<1>1. CASE \E r \in Recs : Decide(r)
  BY <1>1 DEF Decide, Propose, Render, Approve, Reject, Edit
<1>2. CASE \E s \in Submitters : Execute(s)
  <2>1. PICK s \in Submitters : Execute(s)
    BY <1>2
  <2>2. CASE s = q
    <3>1. CASE PreconditionsFail(q) \/ RefuseUnsent(q) \/ Record(q) \/ Abort(q)
      BY <1>0, <3>1 DEF PreconditionsFail, RefuseUnsent, Record, Abort, Return
    <3>2. QED
      BY <2>1, <2>2, <3>1 DEF Execute
  <2>3. CASE s # q
    BY <1>0, <2>1, <2>3 DEF Execute, PreconditionsFail, PreconditionsHold, RefuseUnsent,
                           Spend, Send, Record, Abort, Step, Return
  <2>4. QED
    BY <2>2, <2>3
<1>3. CASE \E s \in Submitters, r \in Recs, t \in DOMAIN tokens : Load(s, r, t)
  <2>1. PICK s \in Submitters, r \in Recs, t \in DOMAIN tokens : Load(s, r, t)
    BY <1>3
  <2>2. CASE s # q
    BY <1>0, <2>1, <2>2 DEF Load
  <2>3. QED
    BY <2>1, <2>2
<1>4. CASE ExpireStale \/ Tick \/ UNCHANGED vars
  BY <1>0, <1>4 DEF ExpireStale, ExpireOnly, Tick, vars
<1>5. QED
  BY <1>1, <1>2, <1>3, <1>4 DEF Next

\* An executor that does not move keeps what it knows: a row it spent is spent
\* by nobody else, and no write is sent for it but its own.
LEMMA HoldsUnmoved ==
  ASSUME IInv, TypeOK, [Next]_vars, NEW q \in Submitters, sub'[q] = sub[q]
  PROVE  Holds(q)'
<1>0. /\ Holds(q)
      /\ sub \in [Submitters -> Submission]
  BY DEF IInv, TypeOK
<1>1. /\ DOMAIN tokens \subseteq DOMAIN tokens'
      /\ \A t \in DOMAIN tokens :
           /\ tokens'[t].rec = tokens[t].rec
           /\ tokens'[t].payload = tokens[t].payload
           /\ tokens[t].state = "spent" => tokens'[t].state = "spent"
  BY TokensPersist
<1>2. /\ audit \subseteq audit'
      /\ DOMAIN writes \subseteq DOMAIN writes'
      /\ \A i \in DOMAIN writes : writes'[i] = writes[i]
      /\ UNCHANGED writes \/ \E s \in Submitters, o \in Outcome : Send(s, o)
  BY RecordsPersist
<1>3. ASSUME sub[q].pc = "spent" PROVE \A i \in DOMAIN writes' : writes'[i].token # sub[q].token
  <2>1. CASE UNCHANGED writes
    BY <1>0, <1>3, <2>1 DEF Holds
  <2>2. ASSUME NEW s \in Submitters, NEW o \in Outcome, Send(s, o)
        PROVE  \A i \in DOMAIN writes' : writes'[i].token # sub[q].token
    <3>1. s # q /\ sub[s].pc = "spent"
      BY <1>0, <1>3, <2>2 DEF Send, Submission
    <3>2. sub[s].token # sub[q].token
      BY <1>0, <1>3, <3>1 DEF Holds
    <3>3. PICK n \in Nat : /\ DOMAIN writes = 1..n /\ DOMAIN writes' = 1..(n + 1)
                           /\ \A i \in 1..n : writes'[i] = writes[i]
                           /\ writes'[n + 1].token = sub[s].token
      BY <2>2, SendEffect
    <3>4. \A i \in 1..n : writes[i].token # sub[q].token
      BY <1>0, <1>3, <3>3 DEF Holds
    <3>5. QED
      BY <3>2, <3>3, <3>4
  <2>3. QED
    BY <1>2, <2>1, <2>2
<1>4. ASSUME sub[q].pc = "spent",
             NEW p \in Submitters, sub'[p].pc = "spent", sub'[p].token = sub[q].token
      PROVE  p = q
  <2>1. CASE sub'[p] = sub[p]
    BY <1>0, <1>4, <2>1 DEF Holds
  <2>2. CASE Spend(p)
    <3>1. tokens[sub[p].token].state = "unspent" /\ sub'[p].token = sub[p].token
      BY <1>0, <2>2 DEF Spend, Spendable, Step, Submission
    <3>2. tokens[sub[q].token].state = "spent"
      BY <1>0, <1>4 DEF Holds
    <3>3. QED
      BY <1>4, <3>1, <3>2
  <2>3. ~ PreconditionsHold(p)
    BY <1>0, <1>4 DEF PreconditionsHold, Step, Submission
  <2>4. ASSUME NEW o \in Outcome, Send(p, o) PROVE FALSE
    <3>1. sub'[p].pc = "sent"
      BY <1>0, <2>4 DEF Send, Submission
    <3>2. QED
      BY <1>4, <3>1
  <2>5. ~ (\E r \in Recs, t \in DOMAIN tokens : Load(p, r, t))
    BY <1>0, <1>4 DEF Load
  <2>6. QED
    BY <1>4, <2>1, <2>2, <2>3, <2>4, <2>5, SubmitterMoves
<1>5. QED
  BY <1>0, <1>1, <1>2, <1>3, <1>4 DEF Holds

LEMMA HoldsStep ==
  ASSUME IInv, TypeOK, [Next]_vars, NEW q \in Submitters
  PROVE  Holds(q)'
<1>0. /\ Holds(q)
      /\ sub \in [Submitters -> Submission]
  BY DEF IInv, TypeOK
<1>1. CASE sub'[q] = sub[q]
  BY <1>1, HoldsUnmoved
<1>2. CASE sub'[q].pc = "idle"
  BY <1>2 DEF Holds
<1>3. ASSUME NEW r \in Recs, NEW t \in DOMAIN tokens, Load(q, r, t) PROVE Holds(q)'
  BY <1>0, <1>3 DEF Load, Holds
<1>4. CASE PreconditionsHold(q)
  <2>1. sub[q].pc = "loaded" /\ sub'[q].pc = "ready"
        /\ sub'[q].token = sub[q].token /\ sub'[q].rec = sub[q].rec
    BY <1>0, <1>4 DEF PreconditionsHold, Step, Submission
  <2>2. tokens' = tokens
        /\ [token |-> sub[q].token, outcome |-> "submitting"] \in audit'
    BY <1>4 DEF PreconditionsHold
  <2>3. QED
    BY <1>0, <2>1, <2>2 DEF Holds
<1>5. CASE Spend(q)
  <2>1. /\ sub[q].pc = "ready" /\ sub'[q].pc = "spent"
        /\ sub'[q].token = sub[q].token /\ sub'[q].rec = sub[q].rec
        /\ sub'[q].payload = sub[q].payload
        /\ \A p \in Submitters : p # q => sub'[p] = sub[p]
    BY <1>0, <1>5 DEF Spend, Step, Submission
  <2>2. /\ audit' = audit /\ writes' = writes
        /\ sub[q].token \in DOMAIN tokens
        /\ tokens[sub[q].token].state = "unspent"
        /\ tokens[sub[q].token].payload = sub[q].payload
    BY <1>5 DEF Spend, Spendable
  <2>3. /\ DOMAIN tokens' = DOMAIN tokens
        /\ tokens'[sub[q].token].state = "spent"
        /\ tokens'[sub[q].token].rec = tokens[sub[q].token].rec
        /\ tokens'[sub[q].token].payload = tokens[sub[q].token].payload
    BY <1>5, <2>2, SpendEffect
  <2>4. \A i \in DOMAIN writes : writes[i].token # sub[q].token
    BY <2>2 DEF IInv, WritesAuthorised
  <2>5. \A p \in Submitters :
          sub[p].pc = "spent" /\ sub[p].token = sub[q].token => p = q
    BY <2>2 DEF IInv, Holds
  <2>6. QED
    BY <1>0, <2>1, <2>2, <2>3, <2>4, <2>5 DEF Holds
<1>6. ASSUME NEW o \in Outcome, Send(q, o) PROVE Holds(q)'
  <2>1. /\ sub[q].pc = "spent" /\ sub'[q].pc = "sent"
        /\ sub'[q].token = sub[q].token /\ sub'[q].rec = sub[q].rec
        /\ sub'[q].outcome = o
        /\ audit' = audit /\ tokens' = tokens
    BY <1>0, <1>6 DEF Send, Submission
  <2>2. PICK n \in Nat : /\ DOMAIN writes' = 1..(n + 1)
                         /\ writes'[n + 1].rec = sub[q].rec
                         /\ writes'[n + 1].token = sub[q].token
                         /\ writes'[n + 1].outcome = o
    BY <1>6, SendEffect
  <2>3. \E i \in DOMAIN writes' : /\ writes'[i].rec = sub[q].rec
                                  /\ writes'[i].token = sub[q].token
                                  /\ writes'[i].outcome = o
    BY <2>2
  <2>4. QED
    BY <1>0, <2>1, <2>3 DEF Holds
<1>7. QED
  BY <1>1, <1>2, <1>3, <1>4, <1>5, <1>6, SubmitterMoves

LEMMA WritesAuthorisedStep == IInv /\ TypeOK /\ [Next]_vars => WritesAuthorised'
<1> SUFFICES ASSUME IInv, TypeOK, [Next]_vars PROVE WritesAuthorised'
  OBVIOUS
<1> DEFINE Authorised(i) ==
      /\ writes[i].token \in DOMAIN tokens
      /\ tokens[writes[i].token].state = "spent"
      /\ tokens[writes[i].token].rec = writes[i].rec
      /\ tokens[writes[i].token].payload = writes[i].payload
      /\ [token |-> writes[i].token, outcome |-> "submitting"] \in audit
<1>0. \A i \in DOMAIN writes :
        Authorised(i) /\ \A j \in DOMAIN writes : writes[j].token = writes[i].token => j = i
  BY DEF IInv, WritesAuthorised
<1>1. \A i \in DOMAIN writes : writes'[i] = writes[i] => Authorised(i)'
  BY <1>0, TokensPersist, RecordsPersist
<1>2. CASE UNCHANGED writes
  BY <1>0, <1>1, <1>2 DEF WritesAuthorised
<1>3. ASSUME NEW s \in Submitters, NEW o \in Outcome, Send(s, o) PROVE WritesAuthorised'
  <2>1. PICK n \in Nat : /\ DOMAIN writes = 1..n /\ DOMAIN writes' = 1..(n + 1)
                         /\ \A i \in 1..n : writes'[i] = writes[i]
                         /\ writes'[n + 1].rec = sub[s].rec
                         /\ writes'[n + 1].payload = sub[s].payload
                         /\ writes'[n + 1].token = sub[s].token
    BY <1>3, SendEffect
  <2>2. /\ sub[s].token \in DOMAIN tokens
        /\ tokens[sub[s].token].rec = sub[s].rec
        /\ tokens[sub[s].token].state = "spent"
        /\ tokens[sub[s].token].payload = sub[s].payload
        /\ [token |-> sub[s].token, outcome |-> "submitting"] \in audit
        /\ \A i \in DOMAIN writes : writes[i].token # sub[s].token
    BY <1>3 DEF Send, IInv, Holds
  <2>3. tokens' = tokens /\ audit' = audit
    BY <1>3 DEF Send
  <2>4. Authorised(n + 1)'
    BY <2>1, <2>2, <2>3
  <2>5. \A i \in 1..n : Authorised(i)' /\ writes'[i].token # sub[s].token
    BY <1>1, <2>1, <2>2
  <2> HIDE DEF Authorised
  <2>6. ASSUME NEW i \in 1..(n + 1), NEW j \in 1..(n + 1), writes'[j].token = writes'[i].token
        PROVE  j = i
    <3>1. CASE i \in 1..n /\ j \in 1..n
      BY <1>0, <2>1, <2>6, <3>1
    <3>2. i \in 1..n \/ i = n + 1
      OBVIOUS
    <3>3. j \in 1..n \/ j = n + 1
      OBVIOUS
    <3>4. QED
      BY <2>1, <2>5, <2>6, <3>1, <3>2, <3>3
  <2>7. \A i \in 1..(n + 1) : i \in 1..n \/ i = n + 1
    OBVIOUS
  <2>8. \A i \in DOMAIN writes' : Authorised(i)' /\
          \A j \in DOMAIN writes' : writes'[j].token = writes'[i].token => j = i
    BY <2>1, <2>4, <2>5, <2>6, <2>7
  <2>9. QED
    BY <2>8 DEF WritesAuthorised, Authorised
<1>4. QED
  BY <1>2, <1>3, RecordsPersist

LEMMA ExecutedStep == IInv /\ TypeOK /\ [Next]_vars => ExecutedWasAccepted'
<1> SUFFICES ASSUME IInv, TypeOK, [Next]_vars,
                    NEW r \in Recs, rec'[r].status = "executed"
             PROVE  \E i \in DOMAIN writes' :
                      /\ writes'[i].rec = r /\ writes'[i].outcome = "accepted"
                      /\ [token |-> writes'[i].token, outcome |-> "submitted"] \in audit'
  BY DEF ExecutedWasAccepted
<1>0. rec \in [Recs -> Recommendation] /\ sub \in [Submitters -> Submission]
  BY DEF TypeOK
<1>1. CASE rec[r].status = "executed"
  <2>1. PICK i \in DOMAIN writes :
          /\ writes[i].rec = r /\ writes[i].outcome = "accepted"
          /\ [token |-> writes[i].token, outcome |-> "submitted"] \in audit
    BY <1>1 DEF IInv, ExecutedWasAccepted
  <2>2. i \in DOMAIN writes' /\ writes'[i] = writes[i] /\ audit \subseteq audit'
    BY RecordsPersist
  <2>3. QED
    BY <2>1, <2>2
<1>2. ASSUME NEW s \in Submitters, Record(s), rec[r].status # "executed"
      PROVE  \E i \in DOMAIN writes' :
                      /\ writes'[i].rec = r /\ writes'[i].outcome = "accepted"
                      /\ [token |-> writes'[i].token, outcome |-> "submitted"] \in audit'
  <2>1. sub[s].rec \in Recs /\ WithStatus(sub[s].rec, RecordedStatus(sub[s].outcome))
    BY <1>0, <1>2 DEF Record, Submission
  <2>2. sub[s].rec = r /\ RecordedStatus(sub[s].outcome) = "executed"
    BY <1>2, <2>1, WithStatusEffect
  <2>3. sub[s].outcome = "accepted"
    BY <2>2 DEF RecordedStatus
  <2>4. PICK i \in DOMAIN writes : /\ writes[i].rec = r /\ writes[i].token = sub[s].token
                                   /\ writes[i].outcome = "accepted"
    <3>1. sub[s].pc = "sent" /\ Holds(s)
      BY <1>2 DEF IInv, Record, Return
    <3>2. QED
      BY <2>2, <2>3, <3>1 DEF Holds
  <2>5. writes' = writes /\ [token |-> sub[s].token, outcome |-> "submitted"] \in audit'
    BY <1>2, <2>3 DEF Record
  <2>6. QED
    BY <2>4, <2>5
<1>3. ASSUME rec[r].status # "executed" PROVE \E s \in Submitters : Record(s)
  <2>1. CASE \E q \in Recs : Decide(q)
    <3>1. PICK q \in Recs : Decide(q)
      BY <2>1
    <3>2. CASE Approve(q) \/ Reject(q)
      BY <1>3, <3>2, WithStatusEffect DEF Approve, Reject
    <3>3. CASE Render(q) \/ \E p \in Payload : Propose(q, p)
      BY <1>0, <1>3, <3>3 DEF Render, Propose
    <3>4. CASE \E p \in Payload, f \in Fields, v \in Values : Edit(q, p, f, v)
      BY <1>0, <1>3, <3>4 DEF Edit, Recommendation
    <3>5. QED
      BY <3>1, <3>2, <3>3, <3>4 DEF Decide
  <2>2. CASE \E s \in Submitters : Execute(s)
    <3>1. PICK s \in Submitters : Execute(s)
      BY <2>2
    <3>2. sub[s].rec \in Recs
      BY <1>0 DEF Submission
    <3>3. CASE PreconditionsFail(s)
      BY <1>3, <3>2, <3>3, WithStatusEffect DEF PreconditionsFail
    <3>4. CASE UNCHANGED rec
      BY <1>3, <3>4
    <3>5. QED
      BY <3>1, <3>3, <3>4 DEF Execute, PreconditionsHold, RefuseUnsent, Spend, Send, Abort
  <2>3. CASE UNCHANGED rec
    BY <1>3, <2>3
  <2>4. CASE ExpireStale
    BY <1>0, <1>3, <2>4 DEF ExpireStale, ExpireOnly, Recommendation
  <2>5. QED
    BY <2>1, <2>2, <2>3, <2>4 DEF Next, Load, Tick, vars
<1>4. QED
  BY <1>1, <1>2, <1>3

-----------------------------------------------------------------------------
(* The safety theorems.                                                    *)

LEMMA InitInductive == Init => IInv
<1> SUFFICES ASSUME Init PROVE IInv
  OBVIOUS
<1>1. DOMAIN tokens = {} /\ DOMAIN writes = {}
  BY DEF Init
<1>2. WithdrawnApprovalsDie /\ AtMostOneLiveApproval /\ TokensOrdered /\ WritesAuthorised
  BY <1>1 DEF WithdrawnApprovalsDie, AtMostOneLiveApproval, TokensOrdered,
              WritesAuthorised, Unspent
<1>3. \A s \in Submitters : Holds(s)
  BY DEF Init, Holds, Blank
<1>4. ExecutedWasAccepted
  BY DEF Init, ExecutedWasAccepted
<1>5. QED
  BY <1>2, <1>3, <1>4 DEF IInv

\* The inductive invariant: together with the types it is kept by every step.
THEOREM Inductive == Spec => [](TypeOK /\ IInv)
<1>1. Init => TypeOK /\ IInv
  BY InitType, InitInductive
<1>2. TypeOK /\ IInv /\ [Next]_vars => (TypeOK /\ IInv)'
  <2> SUFFICES ASSUME TypeOK, IInv, [Next]_vars PROVE TypeOK' /\ IInv'
    OBVIOUS
  <2>1. \A s \in Submitters : Holds(s)'
    BY HoldsStep
  <2>2. QED
    BY <2>1, NextType, WithdrawnStep, TokensOrderedStep, AtMostOneStep,
       WritesAuthorisedStep, ExecutedStep DEF IInv
<1>3. QED
  BY <1>1, <1>2, PTL DEF Spec

\* Every POST is driven by one approval of exactly that action, never by one
\* that drove another, and is on the audit record.
THEOREM WritesAreAuthorised == Spec => []WritesAuthorised
<1>1. IInv => WritesAuthorised
  BY DEF IInv
<1>2. QED
  BY <1>1, Inductive, PTL

\* Rejecting or editing leaves no approval that could still be spent.
THEOREM WithdrawalHolds == Spec => []WithdrawnApprovalsDie
<1>1. IInv => WithdrawnApprovalsDie
  BY DEF IInv
<1>2. QED
  BY <1>1, Inductive, PTL

\* There is never a second live approval of one recommendation.
THEOREM OneLiveApproval == Spec => []AtMostOneLiveApproval
<1>1. IInv => AtMostOneLiveApproval
  BY DEF IInv
<1>2. QED
  BY <1>1, Inductive, PTL

\* "executed" is recorded only for an accepted and audited write.
THEOREM ExecutedMeansAccepted == Spec => []ExecutedWasAccepted
<1>1. IInv => ExecutedWasAccepted
  BY DEF IInv
<1>2. QED
  BY <1>1, Inductive, PTL

-----------------------------------------------------------------------------
(* A decided recommendation is never live again.                           *)

LEMMA DecidedStep ==
  ASSUME TypeOK, [Next]_vars, NEW r \in Recs, rec[r].status \in Terminal
  PROVE  rec'[r].status \in Terminal
<1>0. rec \in [Recs -> Recommendation] /\ sub \in [Submitters -> Submission]
  BY DEF TypeOK
<1>1. CASE \E q \in Recs : Decide(q)
  <2>1. PICK q \in Recs : Decide(q)
    BY <1>1
  <2>2. CASE Approve(q) \/ Reject(q)
    <3>1. q # r
      BY <2>2 DEF Approve, Reject, Undecided, Terminal, Live
    <3>2. QED
      BY <2>2, <3>1, WithStatusEffect DEF Approve, Reject
  <2>3. CASE \E p \in Payload, f \in Fields, v \in Values : Edit(q, p, f, v)
    <3>1. q # r
      BY <2>3 DEF Edit, Undecided, Terminal, Live
    <3>2. QED
      BY <1>0, <2>3, <3>1 DEF Edit
  <2>4. CASE \E p \in Payload : Propose(q, p)
    BY <1>0, <2>4 DEF Propose, Terminal
  <2>5. CASE Render(q)
    BY <2>5 DEF Render
  <2>6. QED
    BY <2>1, <2>2, <2>3, <2>4, <2>5 DEF Decide
<1>2. CASE \E s \in Submitters : Execute(s)
  <2>1. PICK s \in Submitters : Execute(s)
    BY <1>2
  <2>2. sub[s].rec \in Recs
    BY <1>0 DEF Submission
  <2>3. ASSUME NEW st \in Terminal, WithStatus(sub[s].rec, st)
        PROVE  rec'[r].status \in Terminal
    BY <2>2, <2>3, WithStatusEffect
  <2>4. CASE PreconditionsFail(s) \/ Record(s)
    BY <2>3, <2>4 DEF PreconditionsFail, Record, RecordedStatus, Terminal
  <2>5. CASE UNCHANGED rec
    BY <2>5
  <2>6. QED
    BY <2>1, <2>4, <2>5 DEF Execute, PreconditionsHold, RefuseUnsent, Spend, Send, Abort
<1>3. CASE ExpireStale
  BY <1>0, <1>3 DEF ExpireStale, ExpireOnly, Recommendation, Terminal
<1>4. CASE UNCHANGED rec
  BY <1>4
<1>5. QED
  BY <1>1, <1>2, <1>3, <1>4 DEF Next, Load, Tick, vars

\* No late edit, approval or executor makes a decided recommendation live again.
THEOREM DecidedStaysDecided == Spec => DecisionsAreFinal
<1>1. TypeOK /\ [Next]_vars =>
        [\A r \in Recs : rec[r].status \in Terminal => rec'[r].status \in Terminal]_vars
  BY DecidedStep
<1>2. QED
  BY <1>1, TypeCorrect, PTL DEF Spec, DecisionsAreFinal

-----------------------------------------------------------------------------
(* The approval flow implements WriteAuthority.                            *)

\* A function that is s with one more element e is Append(s, e).
LEMMA AppendIs ==
  ASSUME NEW n \in Nat, NEW s, NEW e, NEW f,
         s = [i \in 1..n |-> s[i]], f = [i \in 1..(n + 1) |-> f[i]],
         \A i \in 1..n : f[i] = s[i], f[n + 1] = e
  PROVE  f = Append(s, e)
<1> DEFINE S == {s[i] : i \in 1..n} \union {e}
<1>1. s \in [1..n -> S]
  OBVIOUS
<1>2. s \in Seq(S) /\ e \in S
  BY <1>1, SeqDef
<1>3. Len(s) = n
  BY <1>1
<1> HIDE DEF S
<1>4. /\ Append(s, e) \in Seq(S) /\ Len(Append(s, e)) = n + 1
      /\ \A i \in 1..n : Append(s, e)[i] = s[i]
      /\ Append(s, e)[n + 1] = e
  BY <1>2, <1>3, AppendProperties
<1>5. Append(s, e) \in [1..(n + 1) -> S]
  BY <1>4, LenProperties
<1>6. \A i \in 1..(n + 1) : f[i] = Append(s, e)[i]
  <2>1. \A i \in 1..(n + 1) : i \in 1..n \/ i = n + 1
    OBVIOUS
  <2>2. QED
    BY <1>4, <2>1
<1>7. QED
  BY <1>5, <1>6

LEMMA AppendGrant ==
  ASSUME NEW r \in Recs, TypeOK, Approve(r)
  PROVE  Grants' = Append(Grants, [rec |-> r, payload |-> rec[r].payload, state |-> "open"])
<1> DEFINE k == [rec |-> r, payload |-> rec[r].payload,
                 expires |-> TokenExpiry(r), state |-> "unspent"]
           g == [rec |-> r, payload |-> rec[r].payload, state |-> "open"]
<1>1. GrantOf(k) = g
  BY DEF GrantOf
<1>2. TokenExpiry(r) \in Nat
  BY ConstantsAssumption DEF TokenExpiry, Recommendation, TypeOK
<1>3. k \in Token /\ tokens \in Seq(Token)
  BY <1>2 DEF Token, Recommendation, TypeOK
<1>4. tokens' = Append(tokens, k)
  BY DEF Approve
<1> HIDE DEF k, g
<1>5. PICK n \in Nat : /\ DOMAIN tokens = 1..n /\ DOMAIN tokens' = 1..(n + 1)
                       /\ \A t \in 1..n : tokens'[t] = tokens[t]
                       /\ tokens'[n + 1] = k
  <2>1. /\ tokens' \in Seq(Token) /\ Len(tokens') = Len(tokens) + 1
        /\ \A i \in 1..Len(tokens) : tokens'[i] = tokens[i]
        /\ tokens'[Len(tokens) + 1] = k
    BY <1>3, <1>4, AppendProperties
  <2>2. /\ Len(tokens) \in Nat
        /\ DOMAIN tokens = 1..Len(tokens) /\ DOMAIN tokens' = 1..(Len(tokens) + 1)
    BY <1>3, <2>1, LenProperties
  <2>3. QED
    BY <2>1, <2>2
<1>6. Grants = [t \in 1..n |-> GrantOf(tokens[t])]
      /\ Grants' = [t \in 1..(n + 1) |-> GrantOf(tokens'[t])]
  BY <1>5 DEF Grants, GrantOf
<1>7. /\ Grants = [t \in 1..n |-> Grants[t]]
      /\ Grants' = [t \in 1..(n + 1) |-> Grants'[t]]
      /\ \A t \in 1..n : Grants'[t] = Grants[t]
      /\ Grants'[n + 1] = g
  BY <1>1, <1>5, <1>6
<1>8. QED
  BY <1>7, AppendIs DEF g

LEMMA AppendPerformed ==
  ASSUME NEW s \in Submitters, NEW o \in Outcome, TypeOK, Send(s, o)
  PROVE  Performed' = Append(Performed, [rec |-> sub[s].rec, payload |-> sub[s].payload,
                                         grant |-> sub[s].token])
<1> DEFINE p == [rec |-> sub[s].rec, payload |-> sub[s].payload, grant |-> sub[s].token]
<1>1. PICK n \in Nat : /\ DOMAIN writes = 1..n /\ DOMAIN writes' = 1..(n + 1)
                       /\ \A i \in 1..n : writes'[i] = writes[i]
                       /\ writes'[n + 1].rec = sub[s].rec
                       /\ writes'[n + 1].payload = sub[s].payload
                       /\ writes'[n + 1].token = sub[s].token
  BY SendEffect
<1>2. /\ Performed = [i \in 1..n |-> [rec |-> writes[i].rec, payload |-> writes[i].payload,
                                      grant |-> writes[i].token]]
      /\ Performed' = [i \in 1..(n + 1) |->
                         [rec |-> writes'[i].rec, payload |-> writes'[i].payload,
                          grant |-> writes'[i].token]]
  BY <1>1 DEF Performed
<1>3. /\ Performed = [i \in 1..n |-> Performed[i]]
      /\ Performed' = [i \in 1..(n + 1) |-> Performed'[i]]
      /\ \A i \in 1..n : Performed'[i] = Performed[i]
      /\ Performed'[n + 1] = p
  BY <1>1, <1>2
<1> HIDE DEF p
<1>4. Performed' = Append(Performed, p)
  BY <1>3, AppendIs
<1>5. QED
  BY <1>4 DEF p

\* A decision to reject or edit takes back the open grants of its action.
LEMMA RevokeWithdraws ==
  ASSUME TypeOK, NEW r \in Recs, RevokeFor(r), UNCHANGED writes
  PROVE  Promise!Withdraw
<1>1. /\ DOMAIN tokens' = DOMAIN tokens
      /\ \A t \in DOMAIN tokens :
           /\ tokens'[t].rec = tokens[t].rec
           /\ tokens'[t].payload = tokens[t].payload
           /\ tokens'[t].state = IF t \in Unspent(r) THEN "revoked" ELSE tokens[t].state
  BY RevokeForEffect DEF TypeOK
<1>2. \A t \in DOMAIN tokens : tokens[t].state \in {"unspent", "spent", "revoked"}
  <2>1. \A t \in DOMAIN tokens : tokens[t] \in Token
    BY LenProperties, ElementOfSeq DEF TypeOK
  <2>2. QED
    BY <2>1 DEF Token
<1>3. /\ DOMAIN Grants = DOMAIN tokens
      /\ \A t \in DOMAIN tokens : Grants[t] = GrantOf(tokens[t])
      /\ Grants' = [t \in DOMAIN tokens |-> GrantOf(tokens'[t])]
  BY <1>1 DEF Grants, GrantOf
<1>4. ASSUME NEW t \in DOMAIN tokens
      PROVE  GrantOf(tokens'[t]) = IF Grants[t].rec = r /\ Grants[t].state = "open"
                                   THEN [Grants[t] EXCEPT !.state = "void"]
                                   ELSE Grants[t]
  <2>1. /\ Grants[t].rec = tokens[t].rec
        /\ Grants[t].state = "open" <=> tokens[t].state = "unspent"
    BY <1>2, <1>3 DEF GrantOf
  <2>2. CASE t \in Unspent(r)
    <3>1. /\ tokens'[t].state = "revoked" /\ tokens'[t].rec = tokens[t].rec
          /\ tokens'[t].payload = tokens[t].payload
      BY <1>1, <2>2
    <3>2. GrantOf(tokens'[t]) = [rec |-> tokens[t].rec, payload |-> tokens[t].payload,
                                 state |-> "void"]
      BY <3>1 DEF GrantOf
    <3>3. [Grants[t] EXCEPT !.state = "void"] =
            [rec |-> tokens[t].rec, payload |-> tokens[t].payload, state |-> "void"]
      BY <1>3 DEF GrantOf
    <3>4. QED
      BY <2>1, <2>2, <3>2, <3>3 DEF Unspent
  <2>3. CASE t \notin Unspent(r)
    <3>1. GrantOf(tokens'[t]) = Grants[t]
      BY <1>1, <1>3, <2>3 DEF GrantOf
    <3>2. QED
      BY <2>1, <2>3, <3>1 DEF Unspent
  <2>4. QED
    BY <2>2, <2>3
<1>5. Grants' = [t \in DOMAIN Grants |->
                   IF Grants[t].rec = r /\ Grants[t].state = "open"
                   THEN [Grants[t] EXCEPT !.state = "void"] ELSE Grants[t]]
  BY <1>3, <1>4
<1>6. Performed' = Performed
  BY DEF Performed
<1>7. QED
  BY <1>5, <1>6 DEF Promise!Withdraw

\* Consuming a token commits its grant.
LEMMA SpendUses ==
  ASSUME TypeOK, NEW s \in Submitters, Spend(s)
  PROVE  Promise!Use
<1> DEFINE k == sub[s].token
<1>1. k \in DOMAIN tokens /\ tokens[k].state = "unspent" /\ UNCHANGED writes
  BY DEF Spend, Spendable
<1>2. /\ DOMAIN tokens' = DOMAIN tokens
      /\ \A t \in DOMAIN tokens :
           /\ tokens'[t].rec = tokens[t].rec
           /\ tokens'[t].payload = tokens[t].payload
           /\ tokens'[t].state = IF t = k THEN "spent" ELSE tokens[t].state
  BY SpendEffect
<1> HIDE DEF k
<1>3. /\ DOMAIN Grants = DOMAIN tokens
      /\ Grants = [t \in DOMAIN tokens |-> Grants[t]]
      /\ \A t \in DOMAIN tokens : Grants[t] = GrantOf(tokens[t])
      /\ Grants' = [t \in DOMAIN tokens |-> GrantOf(tokens'[t])]
  BY <1>2 DEF Grants, GrantOf
<1>4. Grants[k].state = "open"
  BY <1>1, <1>3 DEF GrantOf
<1>5. GrantOf(tokens'[k]) = [Grants[k] EXCEPT !.state = "used"]
  <2>1. GrantOf(tokens'[k]) = [rec |-> tokens[k].rec, payload |-> tokens[k].payload,
                               state |-> "used"]
    BY <1>1, <1>2 DEF GrantOf
  <2>2. Grants[k] = [rec |-> tokens[k].rec, payload |-> tokens[k].payload, state |-> "open"]
    BY <1>1, <1>3 DEF GrantOf
  <2>3. QED
    BY <2>1, <2>2
<1>6. \A t \in DOMAIN tokens : t # k => GrantOf(tokens'[t]) = Grants[t]
  BY <1>2, <1>3 DEF GrantOf
<1>7. Grants' = [Grants EXCEPT ![k].state = "used"]
  BY <1>1, <1>3, <1>5, <1>6
<1>8. Performed' = Performed
  BY <1>1 DEF Performed
<1>9. QED
  BY <1>1, <1>3, <1>4, <1>7, <1>8 DEF Promise!Use

\* The POST performs the write its grant was committed to, for the first time.
LEMMA SendPerforms ==
  ASSUME TypeOK, IInv, NEW s \in Submitters, NEW o \in Outcome, Send(s, o)
  PROVE  Promise!Perform
<1> DEFINE k == sub[s].token
<1>1. /\ k \in DOMAIN tokens /\ tokens[k].state = "spent"
      /\ tokens[k].rec = sub[s].rec /\ tokens[k].payload = sub[s].payload
      /\ \A i \in DOMAIN writes : writes[i].token # k
      /\ tokens' = tokens
  BY DEF Send, IInv, Holds
<1>2. Performed' = Append(Performed, [rec |-> sub[s].rec, payload |-> sub[s].payload,
                                      grant |-> k])
  BY AppendPerformed
<1> HIDE DEF k
<1>3. /\ DOMAIN Grants = DOMAIN tokens
      /\ Grants[k].state = "used" /\ Grants[k].rec = sub[s].rec
      /\ Grants[k].payload = sub[s].payload
      /\ Grants' = Grants
  BY <1>1 DEF Grants, GrantOf
<1>4. \A i \in DOMAIN Performed : Performed[i].grant # k
  BY <1>1 DEF Performed
<1>5. QED
  BY <1>1, <1>2, <1>3, <1>4 DEF Promise!Perform

\* The mechanism implements its promise: every behaviour of the approval flow is
\* one in which writes are performed only under grants of the user's, once each.
THEOREM FlowImplementsAuthority == Spec => ImplementsAuthority
<1>1. Init => Promise!AuthorityInit
  <2> SUFFICES ASSUME Init PROVE Grants = <<>> /\ Performed = <<>>
    BY DEF Promise!AuthorityInit
  <2>1. DOMAIN tokens = {} /\ DOMAIN writes = {}
    BY DEF Init
  <2>2. QED
    BY <2>1 DEF Grants, Performed
<1>2. TypeOK /\ IInv /\ [Next]_vars => [Promise!AuthorityNext]_(Promise!authority)
  <2> SUFFICES ASSUME TypeOK, IInv, [Next]_vars
               PROVE  Promise!AuthorityNext \/ (Grants' = Grants /\ Performed' = Performed)
    BY DEF Promise!authority
  <2>1. CASE UNCHANGED <<tokens, writes>>
    BY <2>1 DEF Grants, Performed, GrantOf
  <2>2. CASE \E r \in Recs : Approve(r)
    <3>1. PICK r \in Recs : Approve(r)
      BY <2>2
    <3>2. Grants' = Append(Grants, [rec |-> r, payload |-> rec[r].payload,
                                    state |-> "open"])
      BY <3>1, AppendGrant
    <3>3. rec[r].payload \in Payload /\ Performed' = Performed
      BY <3>1 DEF Approve, Performed, TypeOK, Recommendation
    <3>4. QED
      BY <3>2, <3>3 DEF Promise!AuthorityNext, Promise!Give
  <2>3. CASE \E r \in Recs : RevokeFor(r) /\ UNCHANGED writes
    BY <2>3, RevokeWithdraws DEF Promise!AuthorityNext
  <2>4. CASE \E s \in Submitters : Spend(s)
    BY <2>4, SpendUses DEF Promise!AuthorityNext
  <2>5. CASE \E s \in Submitters, o \in Outcome : Send(s, o)
    BY <2>5, SendPerforms DEF Promise!AuthorityNext
  <2>6. CASE \E r \in Recs : Decide(r)
    BY <2>1, <2>2, <2>3, <2>6 DEF Decide, Propose, Render, Reject, Edit
  <2>7. CASE \E s \in Submitters : Execute(s)
    BY <2>1, <2>4, <2>5, <2>7
       DEF Execute, PreconditionsFail, PreconditionsHold, RefuseUnsent, Record, Abort
  <2>8. CASE \E s \in Submitters, r \in Recs, t \in DOMAIN tokens : Load(s, r, t)
    BY <2>1, <2>8 DEF Load
  <2>9. CASE ExpireStale \/ Tick \/ UNCHANGED vars
    BY <2>1, <2>9 DEF ExpireStale, ExpireOnly, Tick, vars
  <2>10. QED
    BY <2>6, <2>7, <2>8, <2>9 DEF Next
<1>3. QED
  BY <1>1, <1>2, Inductive, PTL DEF Spec, ImplementsAuthority, Promise!AuthoritySpec
=============================================================================
