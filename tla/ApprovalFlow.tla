---------------------------- MODULE ApprovalFlow ----------------------------
(***************************************************************************)
(* A recommendation from proposal to MFL write.                            *)
(*                                                                         *)
(* One server process: the dashboard, the Discord bot, the scheduler and   *)
(* the job worker are threads over one database connection, and            *)
(* Database.transaction() holds the connection's lock for its whole block. *)
(* So a decision (approve, reject, edit) is one step, and an executor is   *)
(* one step per database or network call, interleaved with everything.     *)
(*                                                                         *)
(*   rec     the recommendations table        (recommend/store.py)         *)
(*   pages   what some surface has displayed and may still act on: a       *)
(*           browser tab, a Discord card, a CLI prompt                     *)
(*   tokens  the approval_tokens table, oldest first  (approval/token.py)  *)
(*   sub     one executor per thread that submits   (execute/executor.py)  *)
(*   audit   the audit rows of submissions; rows of refusals send nothing  *)
(*           and are left out                                              *)
(*   writes  what was POSTed to MFL's import endpoint, in order            *)
(*   now     the clock; MaxTime bounds it, MaxTokens bounds the tokens     *)
(***************************************************************************)
EXTENDS Naturals, Sequences, FiniteSets

CONSTANTS
  Recs,        \* recommendation ids
  Fields,      \* the editable fields of a payload
  Values,      \* the values a field can take
  Submitters,  \* threads that can run an executor at the same time
  TTL,         \* TokenService.ttl
  Lifetime,    \* how long after its creation a recommendation expires
  MaxTime,     \* bound: the clock stops here
  MaxTokens    \* bound: approvals given in one behaviour

ASSUME ConstantsAssumption ==
  /\ TTL \in Nat \ {0}
  /\ Lifetime \in Nat \ {0}
  /\ MaxTime \in Nat
  /\ MaxTokens \in Nat
  /\ Recs # {} /\ Fields # {} /\ Values # {}

VARIABLES now, rec, pages, tokens, sub, audit, writes

vars == <<now, rec, pages, tokens, sub, audit, writes>>

Payload == [Fields -> Values]
Live == {"proposed", "approved"}
Terminal == {"rejected", "executed", "failed", "expired"}
Status == {"none"} \union Live \union Terminal
\* "failed": MFL refused the request, or the network did and nobody knows
\* whether it arrived (TransportError). The executor treats the two alike.
Outcome == {"accepted", "failed"}

Recommendation == [status : Status, payload : Payload, expires : Nat]
Token == [rec : Recs, payload : Payload, expires : Nat,
          state : {"unspent", "spent", "revoked"}]
Submission == [pc : {"idle", "loaded", "ready", "spent", "sent"},
               rec : Recs, payload : Payload, token : Nat, outcome : Outcome]
MFLWrite == [rec : Recs, payload : Payload, token : Nat, outcome : Outcome]
AuditRow == [token : Nat, outcome : {"submitting", "submitted", "failed"}]

TypeOK ==
  /\ now \in 0..MaxTime
  /\ rec \in [Recs -> Recommendation]
  /\ pages \in [Recs -> SUBSET Payload]
  /\ tokens \in Seq(Token)
  /\ sub \in [Submitters -> Submission]
  /\ audit \subseteq AuditRow
  /\ writes \in Seq(MFLWrite)

-----------------------------------------------------------------------------
(* Reading the tables.                                                     *)

Elapsed(r) == now >= rec[r].expires

Unspent(r) == {t \in DOMAIN tokens : tokens[t].rec = r /\ tokens[t].state = "unspent"}

\* Slip: approve does not look for a live approval.
LatestForNever(r) == {}
\* TokenService.latest_for: the newest unspent token, unless it has expired.
LatestFor(r) == {t \in Unspent(r) : /\ \A u \in Unspent(r) : u <= t
                                    /\ now < tokens[t].expires}

\* Slip: _require_live dropped.
UndecidedAlways(r) == rec[r].status # "none"
\* _require_live
Undecided(r) == rec[r].status \in Live

\* TokenService.verify and the guarded UPDATE of consume; the signature stands
\* for the token having been minted here.
\* Slip: the guarded UPDATE forgets consumed_at.
SpendableTwice(t, p) ==
  /\ t \in DOMAIN tokens
  /\ tokens[t].payload = p
  /\ tokens[t].state # "revoked"
  /\ now < tokens[t].expires
Spendable(t, p) ==
  /\ t \in DOMAIN tokens
  /\ tokens[t].payload = p
  /\ tokens[t].state = "unspent"
  /\ now < tokens[t].expires

WithStatus(r, s) == rec' = [rec EXCEPT ![r].status = s]

\* TokenService.revoke_for
\* Slip: reject and edit leave the token to its expiry.
RevokeNothing(r) == UNCHANGED tokens
RevokeFor(r) ==
  tokens' = [t \in DOMAIN tokens |->
               IF t \in Unspent(r) THEN [tokens[t] EXCEPT !.state = "revoked"]
                                   ELSE tokens[t]]

-----------------------------------------------------------------------------
(* Proposals, pages and decisions.                                         *)

\* RecommendationStore.save of a fresh recommendation. Bound: only while the
\* clock still has room to pass its expiry.
Propose(r, p) ==
  /\ now + Lifetime < MaxTime
  /\ rec[r].status = "none"
  /\ rec' = [rec EXCEPT ![r] = [status |-> "proposed", payload |-> p,
                                expires |-> now + Lifetime]]
  /\ UNCHANGED <<now, pages, tokens, sub, audit, writes>>

\* A surface reads the recommendation to display it. What it shows stays on
\* the screen while the table moves on.
Render(r) ==
  /\ rec[r].status # "none"
  /\ pages' = [pages EXCEPT ![r] = @ \union {rec[r].payload}]
  /\ UNCHANGED <<now, rec, tokens, sub, audit, writes>>

TokenExpiry(r) ==
  IF now + TTL <= rec[r].expires THEN now + TTL ELSE rec[r].expires

\* CLIApprovalChannel.approve with TokenService.issue, one transaction.
Approve(r) ==
  /\ Len(tokens) < MaxTokens
  /\ \/ rec[r].status = "proposed"
     \/ rec[r].status = "approved" /\ LatestFor(r) = {}
  /\ ~Elapsed(r)
  /\ tokens' = Append(tokens, [rec |-> r, payload |-> rec[r].payload,
                               expires |-> TokenExpiry(r), state |-> "unspent"])
  /\ WithStatus(r, "approved")
  /\ UNCHANGED <<now, pages, sub, audit, writes>>

\* CLIApprovalChannel.reject, one transaction.
Reject(r) ==
  /\ Undecided(r)
  /\ RevokeFor(r)
  /\ WithStatus(r, "rejected")
  /\ UNCHANGED <<now, pages, sub, audit, writes>>

\* CLIApprovalChannel.edit. The edited payload is computed from the payload
\* read when the form was filled (p), before the transaction that stores it.
Edit(r, p, f, v) ==
  /\ p \in pages[r]
  /\ Undecided(r)
  /\ RevokeFor(r)
  /\ rec' = [rec EXCEPT ![r].payload = [p EXCEPT ![f] = v],
                        ![r].status = "proposed"]
  /\ UNCHANGED <<now, pages, sub, audit, writes>>

\* RecommendationStore.expire_stale: strictly past the expiry, in one UPDATE.
Stale == {r \in Recs : rec[r].status \in Live /\ rec[r].expires < now}
StaleUnapproved == {r \in Recs : rec[r].status = "proposed" /\ rec[r].expires < now}

ExpireOnly(S) ==
  /\ S # {}
  /\ rec' = [r \in Recs |-> IF r \in S THEN [rec[r] EXCEPT !.status = "expired"]
                                       ELSE rec[r]]
  /\ UNCHANGED <<now, pages, tokens, sub, audit, writes>>

\* Slip: only what is still proposed expires.
ExpireUnapproved == ExpireOnly(StaleUnapproved)
ExpireStale == ExpireOnly(Stale)

Tick ==
  /\ now < MaxTime
  /\ now' = now + 1
  /\ UNCHANGED <<rec, pages, tokens, sub, audit, writes>>

-----------------------------------------------------------------------------
(* Executor.execute, one thread: s.                                        *)

NoPayload == CHOOSE p \in Payload : TRUE
Blank == [pc |-> "idle", rec |-> CHOOSE r \in Recs : TRUE, payload |-> NoPayload,
          token |-> 0, outcome |-> "failed"]

Step(s, from, to) == sub[s].pc = from /\ sub' = [sub EXCEPT ![s].pc = to]
Return(s, from) == sub[s].pc = from /\ sub' = [sub EXCEPT ![s] = Blank]

\* The stored recommendation is re-read and authorisation_refusal finds no
\* objection. The token was chosen before a login over the network (the one
\* just minted, latest_for's, or any id given to `bot execute`): any of them.
Load(s, r, t) ==
  /\ sub[s].pc = "idle"
  /\ rec[r].status = "approved"
  /\ tokens[t].rec = r
  /\ sub' = [sub EXCEPT ![s] = [pc |-> "loaded", rec |-> r, token |-> t,
                                payload |-> rec[r].payload, outcome |-> "failed"]]
  /\ UNCHANGED <<now, rec, pages, tokens, audit, writes>>

\* check_preconditions found the world moved (a live read says so or fails),
\* or the recommendation elapsed; the status is then written unconditionally.
PreconditionsFail(s) ==
  /\ Return(s, "loaded")
  /\ WithStatus(sub[s].rec, "failed")
  /\ UNCHANGED <<now, pages, tokens, audit, writes>>

PreconditionsHold(s) ==
  /\ Step(s, "loaded", "ready")
  /\ ~Elapsed(sub[s].rec)
  /\ audit' = audit \union {[token |-> sub[s].token, outcome |-> "submitting"]}
  /\ UNCHANGED <<now, rec, pages, tokens, writes>>

\* MFLWriteClient.submit raised before the token was spent: consume refused
\* it, or the endpoint, the session or the payload is unfit. Status unchanged.
RefuseUnsent(s) ==
  /\ Return(s, "ready")
  /\ UNCHANGED <<now, rec, pages, tokens, audit, writes>>

\* TokenService.consume
Spend(s) ==
  /\ Step(s, "ready", "spent")
  /\ Spendable(sub[s].token, sub[s].payload)
  /\ tokens' = [tokens EXCEPT ![sub[s].token].state = "spent"]
  /\ UNCHANGED <<now, rec, pages, audit, writes>>

\* What is sent: the payload read by Load, the one the token was checked for.
\* Slip: the payload is re-read when it is sent.
RequestStored(s) == rec[sub[s].rec].payload
Request(s) == sub[s].payload

\* The POST and its answer.
Send(s, outcome) ==
  /\ sub[s].pc = "spent"
  /\ sub' = [sub EXCEPT ![s].pc = "sent", ![s].outcome = outcome]
  /\ writes' = Append(writes, [rec |-> sub[s].rec, payload |-> Request(s),
                               token |-> sub[s].token, outcome |-> outcome])
  /\ UNCHANGED <<now, rec, pages, tokens, audit>>

\* Slip: the answer is not looked at.
RecordedExecuted(outcome) == "executed"
\* Slip: the outcome's own word is stored.
RecordedRaw(outcome) == outcome
RecordedStatus(outcome) == IF outcome = "accepted" THEN "executed" ELSE "failed"

\* The confirming read, the final audit row ("confirmed" is one more word for
\* "submitted" here) and the unconditional set_status.
Record(s) ==
  /\ Return(s, "sent")
  /\ audit' = audit \union
       {[token   |-> sub[s].token,
         outcome |-> IF sub[s].outcome = "accepted" THEN "submitted" ELSE "failed"]}
  /\ WithStatus(sub[s].rec, RecordedStatus(sub[s].outcome))
  /\ UNCHANGED <<now, pages, tokens, writes>>

\* The thread ends where it stands: the process dies (all of them, one after the
\* other) or a database call raises. The tables and the pages survive.
Abort(s) ==
  /\ sub[s].pc # "idle"
  /\ sub' = [sub EXCEPT ![s] = Blank]
  /\ UNCHANGED <<now, rec, pages, tokens, audit, writes>>

-----------------------------------------------------------------------------
Init ==
  /\ now = 0
  /\ rec = [r \in Recs |-> [status |-> "none", payload |-> NoPayload, expires |-> 0]]
  /\ pages = [r \in Recs |-> {}]
  /\ tokens = <<>>
  /\ sub = [s \in Submitters |-> Blank]
  /\ audit = {}
  /\ writes = <<>>

Decide(r) ==
  \/ \E p \in Payload : Propose(r, p)
  \/ Render(r)
  \/ Approve(r)
  \/ Reject(r)
  \/ \E p \in Payload, f \in Fields, v \in Values : Edit(r, p, f, v)

Execute(s) ==
  \/ PreconditionsFail(s)
  \/ PreconditionsHold(s)
  \/ RefuseUnsent(s)
  \/ Spend(s)
  \/ \E outcome \in Outcome : Send(s, outcome)
  \/ Record(s)
  \/ Abort(s)

Next ==
  \/ \E r \in Recs : Decide(r)
  \/ \E s \in Submitters, r \in Recs, t \in DOMAIN tokens : Load(s, r, t)
  \/ \E s \in Submitters : Execute(s)
  \/ ExpireStale
  \/ Tick

Spec == Init /\ [][Next]_vars

\* Time passes; and expire_stale runs over and over: the publisher runs it every
\* publish_seconds, the scheduler has a job for it, most pages run it first.
FairSpec == Spec /\ WF_vars(Tick) /\ WF_vars(ExpireStale)

-----------------------------------------------------------------------------
(* Safety.                                                                 *)

\* Every POST was driven by an approval of the user's for that recommendation
\* and exactly that payload, the approval is spent, no other POST was driven by
\* it, and the attempt was on the audit record (token.py:3-22).
WritesAuthorised ==
  \A i \in DOMAIN writes :
    LET w == writes[i] IN
    /\ w.token \in DOMAIN tokens
    /\ tokens[w.token].state = "spent"
    /\ tokens[w.token].rec = w.rec
    /\ tokens[w.token].payload = w.payload
    /\ [token |-> w.token, outcome |-> "submitting"] \in audit
    /\ \A j \in DOMAIN writes : writes[j].token = w.token => j = i

\* While the user has not approved, or has taken an approval back by rejecting
\* or editing, no token for that recommendation can be spent, whatever tab or
\* executor still holds one (token.py:21-23, "Changing your mind revokes").
WithdrawnApprovalsDie ==
  \A r \in Recs : rec[r].status \in {"none", "proposed", "rejected"} => Unspent(r) = {}

\* At any moment at most one approval of a recommendation can still be spent
\* (cli_channel.py:101-109), although expired ones stay in the table unspent.
AtMostOneLiveApproval ==
  \A r \in Recs : \A t, u \in Unspent(r) :
    now < tokens[t].expires /\ now < tokens[u].expires => t = u

\* The status "executed" is never shown for an action MFL did not accept, and
\* the accepting write is on the audit record.
ExecutedWasAccepted ==
  \A r \in Recs : rec[r].status = "executed" =>
    \E i \in DOMAIN writes :
      /\ writes[i].rec = r /\ writes[i].outcome = "accepted"
      /\ [token |-> writes[i].token, outcome |-> "submitted"] \in audit

\* A decided, finished or expired recommendation is a record: no late edit,
\* approval or executor makes it live again (cli_channel.py:181-183, 201-210).
DecisionsAreFinal ==
  [][\A r \in Recs : rec[r].status \in Terminal => rec'[r].status \in Terminal]_vars

\* The mechanism implements its promise: the tokens are the user's grants.
GrantOf(k) ==
  [rec |-> k.rec, payload |-> k.payload,
   state |-> CASE k.state = "unspent" -> "open"
               [] k.state = "spent"   -> "used"
               [] k.state = "revoked" -> "void"]
Grants == [t \in DOMAIN tokens |-> GrantOf(tokens[t])]
Performed == [i \in DOMAIN writes |->
                [rec |-> writes[i].rec, payload |-> writes[i].payload,
                 grant |-> writes[i].token]]
Promise == INSTANCE WriteAuthority WITH grants <- Grants, performed <- Performed

\* Every behaviour of the approval flow is one WriteAuthority allows: one
\* approval, at most one write, of the approved payload (token.py:3-22).
ImplementsAuthority == Promise!AuthoritySpec

\* A recommendation nobody acts on to the end does not stay open for ever: it
\* ends up decided, executed, failed or expired (store.py:161-168).
EveryRecommendationSettles ==
  \A r \in Recs : rec[r].status \in Live ~> rec[r].status \in Terminal

-----------------------------------------------------------------------------
(* The strengthening that makes the safety invariants inductive.           *)

\* Expiries: a token never outlives its recommendation nor now + TTL, and a
\* later approval of a recommendation never expires before an earlier one.
TokensOrdered ==
  \A t \in DOMAIN tokens :
    /\ rec[tokens[t].rec].status # "none"
    /\ tokens[t].expires <= rec[tokens[t].rec].expires
    /\ tokens[t].expires <= now + TTL
    /\ \A u \in DOMAIN tokens :
         t < u /\ tokens[t].rec = tokens[u].rec => tokens[t].expires <= tokens[u].expires

\* What an executor knows at each point of its run is on record.
Holds(s) ==
  /\ sub[s].pc # "idle" =>
       sub[s].token \in DOMAIN tokens /\ tokens[sub[s].token].rec = sub[s].rec
  /\ sub[s].pc \in {"ready", "spent", "sent"} =>
       [token |-> sub[s].token, outcome |-> "submitting"] \in audit
  /\ sub[s].pc = "spent" =>
       /\ tokens[sub[s].token].state = "spent"
       /\ tokens[sub[s].token].payload = sub[s].payload
       /\ \A i \in DOMAIN writes : writes[i].token # sub[s].token
       /\ \A q \in Submitters :
            sub[q].pc = "spent" /\ sub[q].token = sub[s].token => q = s
  /\ sub[s].pc = "sent" =>
       \E i \in DOMAIN writes : /\ writes[i].rec = sub[s].rec
                                /\ writes[i].token = sub[s].token
                                /\ writes[i].outcome = sub[s].outcome

IInv ==
  /\ WithdrawnApprovalsDie
  /\ TokensOrdered
  /\ AtMostOneLiveApproval
  /\ \A s \in Submitters : Holds(s)
  /\ WritesAuthorised
  /\ ExecutedWasAccepted

-----------------------------------------------------------------------------
(* What a comment or a message says and the code does not do.              *)

\* cli_channel.py:101-104: approving again is allowed only once the earlier
\* approval expired before submission; a second is "a second authorisation
\* for the same action". So one recommendation is sent at most once.
OneWritePerRecommendation ==
  \A i, j \in DOMAIN writes : writes[i].rec = writes[j].rec => i = j
=============================================================================
