--------------------------- MODULE MCTradeSession ---------------------------
(* The requests of the trading client and the order the front insists on. *)
EXTENDS TradeSession

MCNeeds == [kind \in Steps |-> {"login"} \ {kind}]
MCRecords == [instrument |-> 2, account |-> 1, position |-> 1]
=============================================================================
