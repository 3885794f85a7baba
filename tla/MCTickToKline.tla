--------------------------- MODULE MCTickToKline ---------------------------
(* Numbers and files for the configurations, which cannot write them. *)
EXTENDS TickToKline

MCPrices == 1 .. 2
MCSteps == {0, 1}

FileLine(fields, price, vol) == [fields |-> fields, price |-> price, volume |-> vol]

\* A file without lines, one with a tail and a day that ends in its bar, one
\* with lines of two and of three fields, one with a bar that has no volume.
MCFiles ==
  {<< >>,
   <<FileLine(4, 2, 1), FileLine(4, 1, 3), FileLine(4, 2, 0), FileLine(4, 2, 2)>>,
   <<FileLine(4, 1, 1), FileLine(2, 1, 9), FileLine(3, 2, 9), FileLine(4, 1, 2),
     FileLine(3, 2, 9)>>,
   <<FileLine(3, 2, 9), FileLine(3, 1, 9), FileLine(3, 2, 9), FileLine(4, 1, 1)>>}

\* One file of whole lines, with a tail.
MCWholeFile ==
  {<<FileLine(4, 2, 1), FileLine(4, 1, 3), FileLine(4, 2, 4), FileLine(4, 2, 5)>>}
=============================================================================
