--------------------------- MODULE MCOrderManager ---------------------------
(* TLC instance of OrderManager: a purchase and a sale of one instrument.  *)
EXTENDS OrderManager

Purchase == [instrument |-> "i1", side |-> "Buy", qty |-> 2]
Sale == [instrument |-> "i1", side |-> "Sell", qty |-> 1]
MCIntents == {Purchase, Sale}
=============================================================================
