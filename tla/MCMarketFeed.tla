---------------------------- MODULE MCMarketFeed ----------------------------
(* Two symbols polled one after the other. *)
EXTENDS MarketFeed

CONSTANTS BTC, ETH

MCTrading == <<BTC, ETH>>
=============================================================================
