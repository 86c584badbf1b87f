---------------------------- MODULE MCMarketFeed ----------------------------
(* MarketFeed as TLC checks it: the cfg files give every constant its value. *)
EXTENDS MarketFeed
=============================================================================
