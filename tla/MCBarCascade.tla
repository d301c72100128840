---------------------------- MODULE MCBarCascade ----------------------------
(* Two symbols that share the bus, the regime and EntryGroup. *)
EXTENDS BarCascade, TLC

CONSTANTS BTC, ETH

MCSymbols == {BTC, ETH}
=============================================================================
