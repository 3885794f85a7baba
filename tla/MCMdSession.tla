---------------------------- MODULE MCMdSession ----------------------------
(* The two requests of the market-data client. *)
EXTENDS MdSession

MCRequests == {"login", "subscribe"}
MCRecords == << >>
MCNeeds == [login |-> {}, subscribe |-> {"login"}]
=============================================================================
