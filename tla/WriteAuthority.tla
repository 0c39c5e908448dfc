--------------------------- MODULE WriteAuthority ---------------------------
(***************************************************************************)
(* What the approval machinery promises, with none of its mechanism: no    *)
(* write reaches the league host without a grant of the user's for exactly *)
(* that action, and one grant drives at most one write.                    *)
(*                                                                         *)
(*   "A write to MFL requires a token. A token can only be minted by an    *)
(*    approval channel acting on an explicit user decision. A token is     *)
(*    bound to one exact payload, is valid once, and expires."             *)
(*                                        (approval/token.py, module doc)  *)
(*                                                                         *)
(* ApprovalFlow implements it: its tokens are the grants.                  *)
(***************************************************************************)
EXTENDS Naturals, Sequences

CONSTANTS
  Recs,      \* recommendations
  Payload    \* the literal requests a recommendation can carry

VARIABLES
  grants,    \* grants given by the user, oldest first
  performed  \* writes sent, oldest first

Grant == [rec : Recs, payload : Payload, state : {"open", "used", "void"}]
Write == [rec : Recs, payload : Payload, grant : Nat]

authority == <<grants, performed>>

AuthorityInit == grants = <<>> /\ performed = <<>>

\* The user decides on one action: one more grant, for that action only.
Give == \E r \in Recs, p \in Payload :
  /\ grants' = Append(grants, [rec |-> r, payload |-> p, state |-> "open"])
  /\ UNCHANGED performed

\* The user changes their mind on one action: its open grants become void.
Withdraw == \E r \in Recs :
  /\ grants' = [g \in DOMAIN grants |->
                  IF grants[g].rec = r /\ grants[g].state = "open"
                  THEN [grants[g] EXCEPT !.state = "void"] ELSE grants[g]]
  /\ UNCHANGED performed

\* An open grant is committed to one write.
Use == \E g \in DOMAIN grants :
  /\ grants[g].state = "open"
  /\ grants' = [grants EXCEPT ![g].state = "used"]
  /\ UNCHANGED performed

\* The write it was given for, at most once.
Perform == \E g \in DOMAIN grants :
  /\ grants[g].state = "used"
  /\ \A i \in DOMAIN performed : performed[i].grant # g
  /\ performed' = Append(performed, [rec     |-> grants[g].rec,
                                     payload |-> grants[g].payload,
                                     grant   |-> g])
  /\ UNCHANGED grants

AuthorityNext == Give \/ Withdraw \/ Use \/ Perform

AuthoritySpec == AuthorityInit /\ [][AuthorityNext]_authority
=============================================================================
