--------------------------- MODULE StrategyProofs ---------------------------
(***************************************************************************)
(* The type invariant of Strategy and the foundation of its orders, for    *)
(* every length of a bar, every set of prices and every number of orders.  *)
(* Whatever the market-data thread does between two steps of a pass, what  *)
(* an undisturbed pass decides on is the market it noted at its start.     *)
(***************************************************************************)
EXTENDS Strategy, SequenceTheorems, TLAPS

\* A pass begins while there are orders left to send, and a copy that no tick
\* has come into is the market of its beginning.
PassInv ==
  /\ pass \in {"copying", "deciding"} => Len(orders) < MaxOrders
  /\ market # << >> => pass # "idle"
  /\ pass \in {"copying", "deciding"} /\ ~torn => Len(market) < kDataLineNum
  /\ pass = "deciding" /\ ~torn => priceVec = market

IInv == TypeOK /\ PassInv /\ OrdersFounded

\* An order at the last of three prices that rise or fall is founded on them
\* (StrategyTrade.cpp:21-28).
LEMMA TrendIsFoundation ==
  ASSUME NEW s \in Seq(Prices), Rising(s) \/ Falling(s),
         NEW o, o.market = s, o.LimitPrice = FromEnd(s, 1)
  PROVE  Founded(o)
<1>1. Len(s) \in Nat /\ Len(s) >= 3
  BY DEF Rising, Falling
<1>2. s[Len(s)] \in Int /\ s[Len(s) - 1] \in Int /\ s[Len(s) - 2] \in Int
  <2>1. /\ s[Len(s)] \in Prices /\ s[Len(s) - 1] \in Prices /\ s[Len(s) - 2] \in Prices
    BY <1>1, ElementOfSeq
  <2> QED BY <2>1, StrategyAssumption
<1>3. FromEnd(s, 1) = s[Len(s)] /\ FromEnd(s, 2) = s[Len(s) - 1] /\ FromEnd(s, 3) = s[Len(s) - 2]
  BY <1>1 DEF FromEnd
<1> QED BY <1>1, <1>2, <1>3 DEF Founded, Rising, Falling

\* The last three prices of a vector that has as many are prices.
LEMMA PriceTaken ==
  ASSUME NEW s \in Seq(Prices), Len(s) >= 3
  PROVE  FromEnd(s, 1) \in Prices
BY DEF FromEnd

\* Three prices are a sequence of prices.
LEMMA ThreePrices == [1 .. 3 -> Prices] \subseteq Seq(Prices)
<1>1. Seq(Prices) = UNION {[1 .. n -> Prices] : n \in Nat}
  BY SeqDef
<1>2. [1 .. 3 -> Prices] \in {[1 .. n -> Prices] : n \in Nat}
  BY 3 \in Nat, Zenon
<1> QED BY <1>1, <1>2, Zenon

\* The first state.
LEMMA InitInv == Init => IInv
<1> SUFFICES ASSUME Init PROVE IInv
  OBVIOUS
<1>1. /\ << >> \in Seq(Prices) /\ Len(<< >>) = 0 /\ << >> \in Seq(Orders)
      /\ DOMAIN << >> = {}
  BY EmptySeq, LenProperties
<1>2. m_priceVec \in Seq(Prices) /\ Len(m_priceVec) < kDataLineNum
  BY <1>1, StrategyAssumption DEF Init
<1>3. orders \in Seq(Orders) /\ Len(orders) <= MaxOrders
  BY <1>1, StrategyAssumption DEF Init
<1>4. PassInv
  BY DEF Init, PassInv
<1>5. TypeOK
  BY <1>1, <1>2, <1>3 DEF Init, TypeOK
<1>6. OrdersFounded
  BY <1>1 DEF Init, OrdersFounded
<1> QED BY <1>4, <1>5, <1>6 DEF IInv

\* The end of a pass sends no order or one order at the last price of the copy.
LEMMA PassEnd ==
  ASSUME TypeOK, StrategyCheckAndTrade
  PROVE  \/ UNCHANGED orders
         \/ /\ Rising(priceVec) \/ Falling(priceVec)
            /\ reqOrderInsert(FromEnd(priceVec, 1), "buy")
BY DEF StrategyCheckAndTrade

\* Every step keeps the types and what is known of a pass.
LEMMA TypeStep == IInv /\ [Next]_vars => TypeOK' /\ PassInv'
<1> SUFFICES ASSUME IInv, [Next]_vars PROVE TypeOK' /\ PassInv'
  OBVIOUS
<1> USE StrategyAssumption DEF IInv, TypeOK, PassInv
<1>1. ASSUME NEW p \in Prices, KLineFromRealtimeData(p) PROVE TypeOK' /\ PassInv'
  <2>1. CASE Len(m_priceVec) + 1 = kDataLineNum
    <3>1. m_priceVec' = << >> /\ UNCHANGED <<pass, market, priceVec, orders>>
          /\ torn' = (torn \/ pass = "copying") /\ pass # "dead"
      BY <1>1, <2>1 DEF KLineFromRealtimeData
    <3>2. << >> \in Seq(Prices) /\ Len(<< >>) = 0 /\ 0 < kDataLineNum
      BY EmptySeq
    <3> QED BY <3>1, <3>2
  <2>2. CASE Len(m_priceVec) + 1 # kDataLineNum
    <3>1. /\ Append(m_priceVec, p) \in Seq(Prices) /\ Len(m_priceVec) \in Nat
          /\ Len(Append(m_priceVec, p)) = Len(m_priceVec) + 1
      BY AppendProperties, LenProperties
    <3> QED BY <1>1, <2>2, <3>1 DEF KLineFromRealtimeData
  <2> QED BY <2>1, <2>2
<1>2. CASE CopyBegins
  BY <1>2 DEF CopyBegins
<1>3. CASE CopyEnds
  <2>1. [1 .. 3 -> Prices] \subseteq Seq(Prices)
    BY ThreePrices
  <2>2. /\ pass = "copying" /\ pass' = "deciding"
        /\ priceVec' \in Seq(Prices) /\ (~torn => priceVec' = market)
        /\ UNCHANGED <<m_priceVec, market, torn, orders>>
    BY <1>3, <2>1 DEF CopyEnds
  <2>3. PassInv'
    BY <2>2
  <2>4. torn \in BOOLEAN /\ (pass' = "deciding" /\ ~torn' => Len(priceVec') < kDataLineNum)
    BY <2>2
  <2> QED BY <2>2, <2>3, <2>4
<1>4. CASE CopyDies
  BY <1>4 DEF CopyDies
<1>5. CASE StrategyCheckAndTrade
  <2> USE EmptySeq
  <2>1. CASE UNCHANGED orders
    BY <1>5, <2>1 DEF StrategyCheckAndTrade, PassEnds
  <2>2. CASE /\ Rising(priceVec) \/ Falling(priceVec)
             /\ reqOrderInsert(FromEnd(priceVec, 1), "buy")
    <3>1. FromEnd(priceVec, 1) \in Prices
      BY <2>2, PriceTaken DEF Rising, Falling
    <3> DEFINE o == [OrderRef |-> order_ref, LimitPrice |-> FromEnd(priceVec, 1),
                     Direction |-> "buy", market |-> market, torn |-> torn]
    <3>2. o \in Orders
      BY <3>1 DEF Orders
    <3>3. orders' = Append(orders, o)
      BY <2>2 DEF reqOrderInsert
    <3> HIDE DEF o
    <3>4. orders' \in Seq(Orders) /\ Len(orders') = Len(orders) + 1
      BY <3>2, <3>3, AppendProperties
    <3>5. Len(orders) < MaxOrders /\ Len(orders) \in Nat
      BY <1>5, LenProperties DEF StrategyCheckAndTrade, PassEnds
    <3>6. /\ pass' = "idle" /\ UNCHANGED m_priceVec
          /\ market' = << >> /\ torn' = FALSE /\ priceVec' = << >>
      BY <1>5 DEF StrategyCheckAndTrade, PassEnds
    <3>7. PassInv'
      BY <3>6
    <3>8. orders' \in Seq(Orders) /\ Len(orders') <= MaxOrders
      BY <3>4, <3>5, StrategyAssumption
    <3>9. /\ m_priceVec' \in Seq(Prices) /\ Len(m_priceVec') < kDataLineNum
          /\ market' \in Seq(Prices) /\ priceVec' \in Seq(Prices)
      BY <3>6, EmptySeq
    <3> QED BY <3>6, <3>7, <3>8, <3>9
  <2> QED BY <1>5, <2>1, <2>2, PassEnd
<1>6. CASE UNCHANGED vars
  BY <1>6 DEF vars
<1> QED BY <1>1, <1>2, <1>3, <1>4, <1>5, <1>6 DEF Next

\* Every step keeps the orders sent, and one that is added is founded.
LEMMA FoundedStep == IInv /\ [Next]_vars => OrdersFounded'
<1> SUFFICES ASSUME IInv, [Next]_vars PROVE OrdersFounded'
  OBVIOUS
<1>1. CASE UNCHANGED orders
  BY <1>1 DEF IInv, OrdersFounded, Founded
<1>2. CASE StrategyCheckAndTrade /\ ~UNCHANGED orders
  <2> DEFINE o == [OrderRef |-> order_ref, LimitPrice |-> FromEnd(priceVec, 1),
                   Direction |-> "buy", market |-> market, torn |-> torn]
  <2>1. orders' = Append(orders, o) /\ (Rising(priceVec) \/ Falling(priceVec))
    BY <1>2, PassEnd DEF IInv, reqOrderInsert
  <2>2. ~torn => priceVec = market
    BY <1>2 DEF IInv, PassInv, StrategyCheckAndTrade, PassEnds
  <2>3. ~torn => Founded(o)
    BY <2>1, <2>2, TrendIsFoundation DEF IInv, TypeOK
  <2>4. ASSUME NEW i \in DOMAIN orders', ~orders'[i].torn PROVE Founded(orders'[i])
    <3>1. CASE i \in DOMAIN orders
      <4>1. orders'[i] = orders[i]
        BY <2>1, <3>1 DEF IInv, TypeOK
      <4> QED BY <2>4, <3>1, <4>1 DEF IInv, OrdersFounded
    <3>2. CASE i \notin DOMAIN orders
      <4>1. orders'[i] = o
        BY <2>1, <2>4, <3>2 DEF IInv, TypeOK
      <4>2. o.torn = torn
        OBVIOUS
      <4> QED BY <2>3, <2>4, <4>1, <4>2
    <3> QED BY <3>1, <3>2
  <2> QED BY <2>4 DEF OrdersFounded
<1> QED BY <1>1, <1>2 DEF Next, KLineFromRealtimeData, CopyBegins, CopyEnds, CopyDies, vars

\* IInv is an inductive invariant of the specification.
THEOREM Invariant == Spec => []IInv
BY InitInv, TypeStep, FoundedStep, PTL DEF Spec, IInv

\* The variables keep their types, and a copy that was not disturbed never
\* holds a full bar (TickToKlineHelper.cpp:85-113).
THEOREM TypeCorrect == Spec => []TypeOK
BY Invariant, PTL DEF IInv

\* An order whose copy was not disturbed is founded on the market the pass
\* looked at, whatever ticks come between its steps (StrategyTrade.cpp:18-28).
THEOREM OrdersAreFounded == Spec => []OrdersFounded
BY Invariant, PTL DEF IInv
=============================================================================
