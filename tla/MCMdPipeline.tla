---------------------------- MODULE MCMdPipeline ----------------------------
(* Quotes that reach both sides of every bound of the checks, in either      *)
(* column, and the price that is not given; or one that is as good as any.   *)
EXTENDS MdPipeline

MCQuotes ==
  {[last |-> -11, ask2 |-> 11], [last |-> -10, ask2 |-> 12], [last |-> 12, ask2 |-> -11],
   [last |-> 13, ask2 |-> -12], [last |-> 309, ask2 |-> 309]}
MCOneQuote == {[last |-> 4, ask2 |-> 4]}
=============================================================================
