-------------------------- MODULE MCEndpointLock ---------------------------
(* The instance of EndpointLock for TLC: the lineup, whose starters nobody  *)
(* can map but the user, and the answer to a trade offer.                  *)
EXTENDS EndpointLock, TLC

ProcSymmetry == Permutations(Procs)

MCFields == [lineup |-> {"week", "starters"}, response |-> {"offer"}]

MCObvious(f) == CASE f = "week" -> <<"W", "WEEK">>
                  [] f = "offer" -> <<"TRADE_ID">>
                  [] OTHER -> <<>>

MCOwn == [starters |-> "STARTERS"]

MCPages ==
  {[lineup |-> Undocumented, response |-> {"TRADE_ID"}],
   [lineup |-> {"W", "STARTERS"}, response |-> {"TRADE_ID"}],
   [lineup |-> {"WEEK", "STARTERS"}, response |-> Undocumented]}

Pinned(map) == [pinned |-> TRUE, map |-> map]

\* No file, or the one the repository comes with.
MCShipped ==
  {Unpinned,
   [lineup |-> Pinned([week |-> "W", starters |-> "STARTERS"]),
    response |-> Pinned([offer |-> "TRADE_ID"])]}
=============================================================================
