------------------------------ MODULE Strategy ------------------------------
(***************************************************************************)
(* StrategyCheckAndTrade (StrategyTrade.cpp), called over and over by the  *)
(* trading thread, against the market-data thread that feeds the k-line    *)
(* helper of the instrument.  The strategy holds marketDataMutex while it  *)
(* copies the helper; KLineFromRealtimeData does not take it, so the copy  *)
(* takes time and a tick may come in the middle of it.                     *)
(*                                                                         *)
(* The call that feeds the helper is commented out (CustomMdSpi.cpp:       *)
(* 230-236); this module says what the strategy does where it is compiled  *)
(* in.  The helper is in the table: what happens when it is not is in      *)
(* TradeSession, together with the way to the first pass.                  *)
(***************************************************************************)
EXTENDS Integers, Sequences

CONSTANTS
  kDataLineNum,  \* ticks in a bar (120 in the code)
  Prices,        \* the prices of ticks
  MaxOrders      \* bound on the orders sent: the strategy rests after them

ASSUME StrategyAssumption ==
  /\ kDataLineNum \in Nat \ {0}
  /\ Prices \subseteq Int /\ Prices # {}
  /\ MaxOrders \in Nat

VARIABLES
  m_priceVec,  \* the prices of the bar in the making
  pass,        \* where the strategy is: "idle", "copying", "deciding", "dead"
  market,      \* history: the prices when the copying began
  torn,        \* whether a tick has come in since then, while copying
  priceVec,    \* the strategy's copy
  orders       \* the calls of ReqOrderInsert

vars == <<m_priceVec, pass, market, torn, priceVec, orders>>

Init ==
  /\ m_priceVec = << >>
  /\ pass = "idle"
  /\ market = << >>
  /\ torn = FALSE
  /\ priceVec = << >>
  /\ orders = << >>

-----------------------------------------------------------------------------
(* The market-data thread. *)

\* Seeded fault: a full bar is not cleared.
KLineNotCleared(p) ==
  /\ pass # "dead"
  /\ m_priceVec' = Append(m_priceVec, p)
  /\ torn' = (torn \/ pass = "copying")
  /\ UNCHANGED <<pass, market, priceVec, orders>>

KLineFromRealtimeData(p) ==
  /\ pass # "dead"
  /\ m_priceVec' = IF Len(m_priceVec) + 1 = kDataLineNum THEN << >> ELSE Append(m_priceVec, p)
  /\ torn' = (torn \/ pass = "copying")
  /\ UNCHANGED <<pass, market, priceVec, orders>>

-----------------------------------------------------------------------------
(* The trading thread. *)

CopyBegins ==
  /\ Len(orders) < MaxOrders
  /\ pass = "idle"
  /\ pass' = "copying"
  /\ market' = m_priceVec
  /\ UNCHANGED <<m_priceVec, torn, priceVec, orders>>

\* A vector that is written while it is copied is a data race: any prices, or
\* the end of the process.  Three prices are all the strategy looks at.
CopyEnds ==
  /\ pass = "copying"
  /\ pass' = "deciding"
  /\ priceVec' \in IF torn THEN [1 .. 3 -> Prices]
                           ELSE {market}
  /\ UNCHANGED <<m_priceVec, market, torn, orders>>

CopyDies ==
  /\ pass = "copying" /\ torn
  /\ pass' = "dead"
  /\ UNCHANGED <<m_priceVec, market, torn, priceVec, orders>>

\* The i-th of these prices from the end.
FromEnd(s, i) == s[Len(s) - i + 1]

Rising(s) == Len(s) >= 3 /\ FromEnd(s, 1) > FromEnd(s, 2) /\ FromEnd(s, 2) > FromEnd(s, 3)
Falling(s) == Len(s) >= 3 /\ FromEnd(s, 1) < FromEnd(s, 2) /\ FromEnd(s, 2) < FromEnd(s, 3)

\* The reference that the login gave; it is copied into every order and never
\* moved on.
order_ref == 1

\* What is said of an order: what it says itself, and the market it is sent on.
Orders == [OrderRef : {order_ref}, LimitPrice : Prices, Direction : {"buy", "sell"},
           market : Seq(Prices), torn : BOOLEAN]

\* reqOrderInsert, always for one lot.
reqOrderInsert(price, direction) ==
  orders' = Append(orders, [OrderRef |-> order_ref, LimitPrice |-> price,
                            Direction |-> direction, market |-> market, torn |-> torn])

\* The pass is over; its local variables are gone.
PassEnds ==
  /\ pass = "deciding"
  /\ pass' = "idle"
  /\ market' = << >> /\ torn' = FALSE /\ priceVec' = << >>
  /\ UNCHANGED m_priceVec

\* Seeded fault: the strategy works on the helper's vector, not on a copy.
StrategyOnReference ==
  /\ PassEnds
  /\ IF Rising(m_priceVec) \/ Falling(m_priceVec)
     THEN reqOrderInsert(FromEnd(m_priceVec, 1), "buy")
     ELSE UNCHANGED orders

\* The rest of the pass: both branches buy.
StrategyCheckAndTrade ==
  /\ PassEnds
  /\ \/ Rising(priceVec) /\ reqOrderInsert(FromEnd(priceVec, 1), "buy")
     \/ ~Rising(priceVec) /\ Falling(priceVec) /\ reqOrderInsert(FromEnd(priceVec, 1), "buy")
     \/ ~Rising(priceVec) /\ ~Falling(priceVec) /\ UNCHANGED orders

Next ==
  \/ \E p \in Prices : KLineFromRealtimeData(p)
  \/ CopyBegins
  \/ CopyEnds
  \/ CopyDies
  \/ StrategyCheckAndTrade

Spec == Init /\ [][Next]_vars

-----------------------------------------------------------------------------
(* Properties *)

\* The variables have their types; neither the helper nor an undisturbed copy
\* of it ever holds a full bar.
TypeOK ==
  /\ m_priceVec \in Seq(Prices) /\ Len(m_priceVec) < kDataLineNum
  /\ pass \in {"idle", "copying", "deciding", "dead"}
  /\ market \in Seq(Prices) /\ torn \in BOOLEAN
  /\ priceVec \in Seq(Prices)
  /\ pass = "deciding" /\ ~torn => Len(priceVec) < kDataLineNum
  /\ orders \in Seq(Orders) /\ Len(orders) <= MaxOrders

\* The order goes out at the last of three prices of the bar in the making that
\* rose or fell one after the other when the strategy looked at them.
Founded(o) ==
  LET m == o.market
      n == Len(m)
  IN  /\ n >= 3 /\ o.LimitPrice = m[n]
      /\ m[n - 1] # m[n] /\ m[n - 2] # m[n - 1]
      /\ m[n - 2] < m[n - 1] <=> m[n - 1] < m[n]

\* However the ticks fall between the steps of a pass, one of them after the
\* copy and before the order included, an order whose copy was not disturbed is
\* founded on the market (StrategyTrade.cpp:18-28).
OrdersFounded == \A i \in DOMAIN orders : ~orders[i].torn => Founded(orders[i])

\* A falling market is sold, not bought (the comment at StrategyTrade.cpp:24).
FallingIsSold ==
  \A i \in DOMAIN orders :
    ~orders[i].torn /\ Falling(orders[i].market) => orders[i].Direction = "sell"

\* No two orders go out under one reference: the front refuses the second
\* (error.xml:27).
OrderRefsDiffer ==
  \A i, j \in DOMAIN orders : orders[i].OrderRef = orders[j].OrderRef => i = j
=============================================================================
