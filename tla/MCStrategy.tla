----------------------------- MODULE MCStrategy -----------------------------
(* Three prices, so that three in a row may rise or fall. *)
EXTENDS Strategy

MCPrices == 1 .. 3
=============================================================================
