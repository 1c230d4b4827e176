---------------------------- MODULE MCTradeHistory ----------------------------
(* Instances of TradeHistory for TLC.                                      *)
EXTENDS TradeHistory
=============================================================================
