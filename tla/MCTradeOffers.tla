--------------------------- MODULE MCTradeOffers ---------------------------
(* Instances of TradeOffers for TLC. *)
EXTENDS TradeOffers
=============================================================================
