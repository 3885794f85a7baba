-------------------------- MODULE MdSessionProofs --------------------------
(***************************************************************************)
(* For any number of breaks, of ticks and of threads: the market-data      *)
(* session never gets stuck on a link, since on one that is up without the *)
(* subscription some step towards it is always under way; and every tick   *)
(* the front has sent is in one place, and in order.  Each of the two is   *)
(* inductive together with the types.                                      *)
(***************************************************************************)
EXTENDS MdSession, CtpFrontProofs

\* What the front sends unasked.
Notes == {TickNote(t) : t \in Ticks}

IInv == TypeOK /\ NeverStuck /\ TicksInOrder

-----------------------------------------------------------------------------
(* The types. *)

\* The front's part of the types is kept by the end of every callback: one
\* event less, and perhaps a request more.
LEMMA DeliverSound ==
  ASSUME FrontTypeOK(Notes), NEW kind, Deliver(kind)
  PROVE  /\ events # << >> /\ Head(events).of = kind /\ Head(events) \in Events \cup Notes
         /\ Range(events) = {Head(events)} \cup Range(events')
         /\ events' \in Seq(Events \cup Notes)
         /\ UNCHANGED <<link, granted, drops, sent>>
BY HeadRange DEF FrontTypeOK, Deliver

\* The pool's part of the types when a task is added, started and finished.
LEMMA PoolSound ==
  ASSUME Pool!TypeOK
  PROVE  /\ \A t \in Ticks : Pool!Submit(t) => Pool!TypeOK'
         /\ Pool!Start => Pool!TypeOK'
         /\ \A t \in Ticks : Pool!Finish(t) => Pool!TypeOK'
<1>1. ASSUME NEW t \in Ticks, Pool!Submit(t) PROVE Pool!TypeOK'
  BY <1>1, AppendProperties DEF Pool!Submit, Pool!TypeOK
<1>2. ASSUME Pool!Start PROVE Pool!TypeOK'
  BY <1>2, HeadTailProperties DEF Pool!Start, Pool!TypeOK
<1>3. ASSUME NEW t \in Ticks, Pool!Finish(t) PROVE Pool!TypeOK'
  BY <1>3 DEF Pool!Finish, Pool!TypeOK
<1> QED BY <1>1, <1>2, <1>3

\* A tick that comes in a callback is one of the front's.
LEMMA TickOfNote ==
  ASSUME MdAssumption, NEW e \in Events \cup Notes, e.of = "tick"
  PROVE  e.tick \in Ticks
<1>1. e \notin Events
  BY DEF Events, Connected, Disconnected, MdAssumption
<1>2. PICK t \in Ticks : e = TickNote(t)
  BY <1>1 DEF Notes
<1> QED BY <1>2 DEF TickNote

LEMMA InitInv == Init => IInv
<1> SUFFICES ASSUME Init PROVE IInv
  OBVIOUS
<1>1. << >> \in Seq(Requests) /\ << >> \in Seq(Events \cup Notes) /\ << >> \in Seq(Ticks)
  BY EmptySeq
<1>2. FrontTypeOK(Notes)
  <2>1. 0 \in 0 .. MaxDrops
    BY FrontAssumption
  <2>2. requests \in Seq(Requests) /\ events \in Seq(Events \cup Notes)
    BY <1>1 DEF Init, FrontInit
  <2>3. link = "down" /\ granted = {} /\ drops = 0 /\ failed = FALSE /\ requests = << >>
    BY DEF Init, FrontInit
  <2> QED BY <2>1, <2>2, <2>3 DEF FrontTypeOK
<1>3. sent \in 0 .. MaxTicks
  BY MdAssumption DEF Init
<1>4. Pool!TypeOK
  BY <1>1 DEF Init, Pool!Init, Pool!TypeOK
<1>5. TicksInOrder
  <2>1. /\ sent = 0 /\ active = {} /\ finished = {} /\ pending = << >> /\ events = << >>
        /\ DOMAIN << >> = {} /\ Range(<< >>) = {}
    BY EmptyRange DEF Init, FrontInit, Pool!Init
  <2>2. 1 .. 0 = {}
    OBVIOUS
  <2> QED BY <2>1, <2>2 DEF TicksInOrder, Undelivered
<1>6. TypeOK /\ NeverStuck
  BY <1>2, <1>3, <1>4 DEF TypeOK, Notes, NeverStuck, Init, FrontInit
<1> QED BY <1>5, <1>6 DEF IInv

\* Every step keeps the types.
LEMMA TypeStep == TypeOK /\ [Next]_vars => TypeOK'
<1> SUFFICES ASSUME TypeOK, [Next]_vars PROVE TypeOK'
  OBVIOUS
<1>0. FrontTypeOK(Notes) /\ sent \in 0 .. MaxTicks /\ Pool!TypeOK
  BY DEF TypeOK, Notes
<1>a. ASSUME FrontTypeOK(Notes)', sent' = sent, UNCHANGED poolVars PROVE TypeOK'
  BY <1>0, <1>a DEF TypeOK, Notes, poolVars, Pool!TypeOK
<1>b. ASSUME NEW kind, Deliver(kind),
             requests' \in Seq(Requests), failed' \in BOOLEAN,
             link = "down" => requests' = requests
      PROVE  FrontTypeOK(Notes)' /\ sent' = sent
  BY <1>0, <1>b, DeliverSound DEF FrontTypeOK
<1>c. UNCHANGED <<requests, failed>> =>
        requests' \in Seq(Requests) /\ failed' \in BOOLEAN /\ (link = "down" => requests' = requests)
  BY <1>0 DEF FrontTypeOK
<1>d. "login" \in Requests /\ "subscribe" \in Requests
  BY MdAssumption
<1>1. CASE Front
  <2>1. FrontTypeOK(Notes)'
    BY <1>0, <1>1, FrontAssumption, LinkUpSound, LinkDownSound, AnswerRequestSound DEF Front
  <2> QED BY <1>1, <1>a, <2>1 DEF Front
<1>2. CASE PushTick
  <2>1. sent + 1 \in Ticks /\ sent' \in 0 .. MaxTicks
    BY <1>0, <1>2, MdAssumption DEF PushTick, Ticks
  <2>2. FrontTypeOK(Notes)'
    BY <1>0, <1>2, <2>1, NotifySound DEF PushTick, Notes
  <2>3. Pool!TypeOK'
    BY <1>0, <1>2 DEF PushTick, poolVars, Pool!TypeOK
  <2> QED BY <2>1, <2>2, <2>3 DEF TypeOK, Notes
<1>3. CASE OnFrontConnected
  BY <1>0, <1>3, <1>a, <1>b, <1>d, RequestSound DEF OnFrontConnected
<1>4. CASE OnFrontDisconnected
  BY <1>4, <1>a, <1>b, <1>c DEF OnFrontDisconnected
<1>5. CASE OnRspUserLogin
  <2>1. requests' \in Seq(Requests) /\ failed' \in BOOLEAN /\ (link = "down" => requests' = requests)
    BY <1>0, <1>5, <1>c, <1>d, RequestSound DEF OnRspUserLogin
  <2> QED BY <1>5, <2>1, <1>a, <1>b DEF OnRspUserLogin
<1>6. CASE OnRspSubMarketData
  BY <1>6, <1>a, <1>b, <1>c DEF OnRspSubMarketData
<1>7. CASE OnRtnDepthMarketData
  <2>1. FrontTypeOK(Notes)' /\ sent' = sent
    BY <1>7, <1>b, <1>c DEF OnRtnDepthMarketData
  <2>2. Head(events).tick \in Ticks
    BY <1>0, <1>7, DeliverSound, TickOfNote, MdAssumption DEF OnRtnDepthMarketData
  <2>3. Pool!TypeOK'
    <3>1. PICK t \in Ticks : t = Head(events).tick
      BY <2>2
    <3>2. Pool!Submit(t)
      BY <1>7, <3>1 DEF OnRtnDepthMarketData
    <3> QED BY <1>0, <3>2, PoolSound
  <2> QED BY <1>0, <2>1, <2>3 DEF TypeOK, Notes
<1>8. CASE Start
  <2>1. Pool!TypeOK'
    BY <1>0, <1>8, PoolSound DEF Start
  <2> QED BY <1>0, <1>8, <2>1 DEF Start, frontVars, TypeOK, FrontTypeOK
<1>9. ASSUME NEW t \in Ticks, Finish(t) PROVE TypeOK'
  <2>1. Pool!TypeOK'
    BY <1>0, <1>9, PoolSound DEF Finish
  <2> QED BY <1>0, <1>9, <2>1 DEF Finish, frontVars, TypeOK, FrontTypeOK
<1>10. CASE UNCHANGED vars
  BY <1>10 DEF vars, frontVars, poolVars, TypeOK, FrontTypeOK, Pool!TypeOK
<1> QED BY <1>1, <1>2, <1>3, <1>4, <1>5, <1>6, <1>7, <1>8, <1>9, <1>10 DEF Next, Callback
-----------------------------------------------------------------------------
(* What is under way. *)

\* A step that takes away no request, no callback and nothing granted, and that
\* neither raises the link nor clears a failure, leaves under way what was.
LEMMA NothingLost ==
  ASSUME NeverStuck, link' = link, failed' = FALSE => failed = FALSE,
         failed \in BOOLEAN, failed' \in BOOLEAN,
         granted \subseteq granted', Range(requests) \subseteq Range(requests'),
         Range(events) \subseteq Range(events')
  PROVE  NeverStuck'
BY DEF NeverStuck

\* A callback that is not the answer to a login, or announces a link, takes
\* nothing away that leads to the subscription.
LEMMA OtherCallback ==
  ASSUME IInv, NEW kind, Deliver(kind), kind \notin {"connected", "login"},
         UNCHANGED <<requests, failed>>
  PROVE  NeverStuck'
<1>1. Range(events) = {Head(events)} \cup Range(events') /\ Head(events).of = kind
  BY DeliverSound DEF IInv, TypeOK, Notes
<1>2. Connected.of = "connected"
  BY DEF Connected
<1>3. UNCHANGED <<link, granted>>
  BY DEF Deliver
<1> QED BY <1>1, <1>2, <1>3 DEF IInv, NeverStuck

\* Every step leaves something under way.
LEMMA StuckStep == IInv /\ [Next]_vars => NeverStuck'
<1> SUFFICES ASSUME IInv, [Next]_vars PROVE NeverStuck'
  OBVIOUS
<1>0. FrontTypeOK(Notes) /\ NeverStuck /\ failed \in BOOLEAN /\ link \in {"up", "down"}
  BY DEF IInv, TypeOK, Notes, FrontTypeOK
<1>1. CASE LinkUp
  BY <1>0, <1>1, LinkUpSound DEF NeverStuck
<1>2. CASE LinkDown
  BY <1>2 DEF LinkDown, NeverStuck
<1>3. ASSUME NEW ok \in BOOLEAN, AnswerRequest(ok) PROVE NeverStuck'
  <2>1. /\ requests # << >> /\ Head(requests) \in Requests
        /\ Range(requests) = {Head(requests)} \cup Range(requests')
        /\ ok => Needs[Head(requests)] \subseteq granted
        /\ granted' = IF ok THEN granted \cup {Head(requests)} ELSE granted
    BY <1>0, <1>3, FrontAssumption, AnswerRequestSound
  <2>2. PICK a \in Seq(Events) :
          /\ Range(a) # {} /\ Range(events') = Range(events) \cup Range(a)
          /\ \A e \in Range(a) : e.of = Head(requests) /\ e.ok = ok /\ e.on = drops
    BY <1>0, <1>3, FrontAssumption, AnswerRequestSound
  <2>3. /\ link' = link
        /\ failed' = (failed \/ (Needs[Head(requests)] \subseteq granted /\ ~ok))
    BY <1>3 DEF AnswerRequest
  <2>4. granted \subseteq granted'
    BY <2>1
  <2>5. CASE Head(requests) = "login"
    <3>1. Needs["login"] \subseteq granted
      BY MdAssumption
    <3>2. CASE ok
      <4>1. "login" \in granted'
        BY <2>1, <2>5, <3>2
      <4>2. \E e \in Range(events') : e.of = "login" /\ e.ok
        BY <2>2, <2>5, <3>2
      <4> QED BY <4>1, <4>2 DEF NeverStuck
    <3>3. CASE ~ok
      BY <2>3, <2>5, <3>1, <3>3 DEF NeverStuck
    <3> QED BY <3>2, <3>3
  <2>6. CASE Head(requests) = "subscribe"
    <3>1. CASE ok
      BY <2>1, <2>6, <3>1 DEF NeverStuck
    <3>2. CASE ~ok /\ "login" \in granted
      <4>1. Needs["subscribe"] \subseteq granted
        BY <3>2, MdAssumption, FrontAssumption DEF FrontAssumption
      <4> QED BY <2>3, <2>6, <3>2, <4>1 DEF NeverStuck
    <3>3. CASE ~ok /\ "login" \notin granted
      <4>1. "login" \in Range(requests) => "login" \in Range(requests')
        BY <2>1, <2>6
      <4>2. granted' = granted /\ (Connected \in Range(events) => Connected \in Range(events'))
        BY <2>1, <2>2, <3>3
      <4>3. failed => failed'
        BY <2>3, <1>0
      <4> QED BY <1>0, <2>3, <3>3, <4>1, <4>2, <4>3 DEF NeverStuck
    <3> QED BY <3>1, <3>2, <3>3
  <2> QED BY <2>1, <2>5, <2>6, MdAssumption
<1>4. CASE PushTick
  <2>1. sent + 1 \in Ticks
    BY <1>4, MdAssumption DEF IInv, TypeOK, PushTick, Ticks
  <2>2. Range(events') = Range(events) \cup {TickNote(sent + 1)}
    BY <1>0, <1>4, <2>1, NotifySound DEF PushTick, Notes
  <2> QED BY <1>0, <1>4, <2>2, NothingLost DEF PushTick, Notify
<1>5. CASE OnFrontConnected
  <2>1. "login" \in Requests
    BY MdAssumption
  <2>2. (link = "up" => "login" \in Range(requests') \/ failed') /\ link' = link
    BY <1>0, <1>5, <2>1, RequestSound DEF OnFrontConnected, Deliver
  <2> QED BY <2>2 DEF NeverStuck
<1>6. CASE OnFrontDisconnected
  BY <1>6, OtherCallback DEF OnFrontDisconnected
<1>7. CASE OnRspUserLogin
  <2>1. /\ Range(events) = {Head(events)} \cup Range(events') /\ Head(events).of = "login"
        /\ UNCHANGED <<link, granted>>
    BY <1>0, <1>7, DeliverSound DEF OnRspUserLogin
  <2>2. Connected.of = "connected"
    BY DEF Connected
  <2>3. CASE Head(events).ok
    <3>1. "subscribe" \in Requests
      BY MdAssumption
    <3>2. /\ link = "up" => "subscribe" \in Range(requests') \/ failed'
          /\ Range(requests) \subseteq Range(requests')
          /\ failed => failed'
      BY <1>0, <1>7, <2>3, <3>1, RequestSound DEF OnRspUserLogin, Request
    <3> QED BY <1>0, <2>1, <2>2, <3>2 DEF NeverStuck
  <2>4. CASE ~Head(events).ok
    <3>1. UNCHANGED <<requests, failed>>
      BY <1>7, <2>4 DEF OnRspUserLogin
    <3> QED BY <1>0, <2>1, <2>2, <2>4, <3>1 DEF NeverStuck
  <2> QED BY <2>3, <2>4
<1>8. CASE OnRspSubMarketData
  BY <1>8, OtherCallback DEF OnRspSubMarketData
<1>9. CASE OnRtnDepthMarketData
  BY <1>9, OtherCallback DEF OnRtnDepthMarketData
<1>10. CASE UNCHANGED frontVars
  BY <1>0, <1>10 DEF frontVars, NeverStuck
<1> QED BY <1>1, <1>2, <1>3, <1>4, <1>5, <1>6, <1>7, <1>8, <1>9, <1>10
        DEF Next, Front, Callback, Start, Finish, vars

-----------------------------------------------------------------------------
(* The order of the ticks. *)

\* The ticks among some callbacks, and that they come in order.
TicksAmong(q) == {e.tick : e \in {f \in Range(q) : f.of = "tick"}}

TicksOrdered(q) ==
  \A i, j \in DOMAIN q :
    i < j /\ q[i].of = "tick" /\ q[j].of = "tick" => q[i].tick < q[j].tick

Increasing(q) == \A i, j \in DOMAIN q : i < j => q[i] < q[j]

\* Callbacks that carry no tick change nothing about the ticks.
LEMMA OthersAdded ==
  ASSUME NEW S, NEW q \in Seq(S), NEW r \in Seq(S), TicksOrdered(q),
         \A e \in Range(r) : e.of # "tick"
  PROVE  TicksOrdered(q \o r) /\ TicksAmong(q \o r) = TicksAmong(q)
<1>1. /\ q \o r \in Seq(S) /\ Len(q \o r) = Len(q) + Len(r)
      /\ \A i \in 1 .. Len(q) + Len(r) :
           (q \o r)[i] = IF i <= Len(q) THEN q[i] ELSE r[i - Len(q)]
  BY ConcatProperties
<1>2. /\ Len(q) \in Nat /\ Len(r) \in Nat
      /\ DOMAIN q = 1 .. Len(q) /\ DOMAIN r = 1 .. Len(r)
      /\ DOMAIN (q \o r) = 1 .. Len(q) + Len(r)
  BY <1>1, LenProperties
<1>3. ASSUME NEW i \in DOMAIN (q \o r), (q \o r)[i].of = "tick"
      PROVE  i \in DOMAIN q /\ (q \o r)[i] = q[i]
  <2>1. CASE i <= Len(q)
    BY <1>1, <1>2, <2>1
  <2>2. CASE ~(i <= Len(q))
    <3>1. i - Len(q) \in DOMAIN r /\ (q \o r)[i] = r[i - Len(q)]
      BY <1>1, <1>2, <2>2
    <3> QED BY <1>3, <3>1 DEF Range
  <2> QED BY <2>1, <2>2
<1>4. TicksOrdered(q \o r)
  BY <1>3 DEF TicksOrdered
<1>5. Range(q \o r) = Range(q) \cup Range(r)
  BY ConcatRange
<1> QED BY <1>4, <1>5 DEF TicksAmong

\* One callback that carries no tick changes nothing about the ticks.
LEMMA OtherAdded ==
  ASSUME NEW S, NEW q \in Seq(S), NEW e \in S, TicksOrdered(q), e.of # "tick"
  PROVE  TicksOrdered(Append(q, e)) /\ TicksAmong(Append(q, e)) = TicksAmong(q)
<1>1. <<e>> \in Seq(S) /\ Append(q, e) = q \o <<e>>
  BY AppendIsConcat
<1>2. \A f \in Range(<<e>>) : f.of # "tick"
  BY DEF Range
<1> QED BY <1>1, <1>2, OthersAdded

\* An element behind those of a queue is the last of the longer queue.
LEMMA AppendedLast ==
  ASSUME NEW S, NEW q \in Seq(S), NEW x \in S
  PROVE  /\ DOMAIN Append(q, x) = DOMAIN q \cup {Len(q) + 1}
         /\ Append(q, x)[Len(q) + 1] = x
         /\ \A i \in DOMAIN q : Append(q, x)[i] = q[i] /\ i < Len(q) + 1 /\ i \in Nat
         /\ Len(q) \in Nat
BY AppendProperties, LenProperties

\* A tick that is later than those under way comes last.
LEMMA TickAdded ==
  ASSUME NEW S, NEW q \in Seq(S), NEW t \in Ticks, TickNote(t) \in S, TicksOrdered(q),
         \A u \in TicksAmong(q) : u < t
  PROVE  /\ TicksOrdered(Append(q, TickNote(t)))
         /\ TicksAmong(Append(q, TickNote(t))) = TicksAmong(q) \cup {t}
<1>1. PICK note \in S : note = TickNote(t)
  OBVIOUS
<1>2. note.of = "tick" /\ note.tick = t
  BY <1>1 DEF TickNote
<1> DEFINE longer == Append(q, note)
<1>3. /\ DOMAIN longer = DOMAIN q \cup {Len(q) + 1}
      /\ longer[Len(q) + 1] = note
      /\ \A i \in DOMAIN q : longer[i] = q[i] /\ i < Len(q) + 1 /\ i \in Nat
      /\ Len(q) \in Nat
  BY AppendedLast
<1>4. Range(longer) = Range(q) \cup {note}
  BY AppendRange
<1> HIDE DEF longer
<1>5. TicksAmong(longer) = TicksAmong(q) \cup {t}
  BY <1>2, <1>4 DEF TicksAmong
<1>6. ASSUME NEW i \in DOMAIN longer, NEW j \in DOMAIN longer, i < j,
             longer[i].of = "tick", longer[j].of = "tick"
      PROVE  longer[i].tick < longer[j].tick
  <2>1. i \in DOMAIN q /\ longer[i] = q[i]
    BY <1>3, <1>6
  <2>2. CASE j \in DOMAIN q
    BY <1>3, <1>6, <2>1, <2>2 DEF TicksOrdered
  <2>3. CASE j = Len(q) + 1
    <3>1. q[i].tick \in TicksAmong(q)
      BY <1>6, <2>1 DEF TicksAmong, Range
    <3> QED BY <1>2, <1>3, <2>1, <2>3, <3>1
  <2> QED BY <1>3, <2>2, <2>3
<1> QED BY <1>1, <1>5, <1>6 DEF TicksOrdered, longer

\* Behind the front of a queue is the rest of it, one place nearer.
LEMMA TailPlaces ==
  ASSUME NEW S, NEW q \in Seq(S), q # << >>
  PROVE  /\ 1 \in DOMAIN q /\ q[1] = Head(q)
         /\ \A i \in DOMAIN Tail(q) :
              i \in Nat \ {0} /\ i + 1 \in DOMAIN q /\ Tail(q)[i] = q[i + 1]
BY HeadTailProperties, EmptySeq, LenProperties

\* When a callback has been made the ticks of the others are in order, and if it
\* carried a tick that one came before theirs.
LEMMA CallbackMade ==
  ASSUME NEW S, NEW q \in Seq(S), q # << >>, TicksOrdered(q)
  PROVE  /\ TicksOrdered(Tail(q))
         /\ Head(q).of # "tick" => TicksAmong(Tail(q)) = TicksAmong(q)
         /\ Head(q).of = "tick" =>
              /\ TicksAmong(q) = {Head(q).tick} \cup TicksAmong(Tail(q))
              /\ \A u \in TicksAmong(Tail(q)) : Head(q).tick < u
<1>1. /\ 1 \in DOMAIN q /\ q[1] = Head(q)
      /\ \A i \in DOMAIN Tail(q) :
           i \in Nat \ {0} /\ i + 1 \in DOMAIN q /\ Tail(q)[i] = q[i + 1]
  BY TailPlaces
<1>2. Range(q) = {Head(q)} \cup Range(Tail(q))
  BY HeadRange
<1>3. TicksOrdered(Tail(q))
  <2> SUFFICES ASSUME NEW i \in DOMAIN Tail(q), NEW j \in DOMAIN Tail(q), i < j,
                      Tail(q)[i].of = "tick", Tail(q)[j].of = "tick"
               PROVE  Tail(q)[i].tick < Tail(q)[j].tick
    BY DEF TicksOrdered
  <2>1. i + 1 < j + 1
    BY <1>1
  <2> QED BY <1>1, <2>1 DEF TicksOrdered
<1>4. ASSUME Head(q).of = "tick", NEW u \in TicksAmong(Tail(q)) PROVE Head(q).tick < u
  <2>1. PICK i \in DOMAIN Tail(q) : Tail(q)[i].of = "tick" /\ u = Tail(q)[i].tick
    BY DEF TicksAmong, Range
  <2>2. 1 < i + 1
    BY <1>1
  <2> QED BY <1>1, <1>4, <2>1, <2>2 DEF TicksOrdered
<1> QED BY <1>2, <1>3, <1>4 DEF TicksAmong

\* A queue of increasing numbers stays one when a greater number is added.
LEMMA GreaterAdded ==
  ASSUME NEW q \in Seq(Nat), Increasing(q), NEW x \in Nat, \A u \in Range(q) : u < x
  PROVE  Increasing(Append(q, x))
<1>1. /\ DOMAIN Append(q, x) = DOMAIN q \cup {Len(q) + 1}
      /\ Append(q, x)[Len(q) + 1] = x
      /\ \A i \in DOMAIN q : Append(q, x)[i] = q[i] /\ i < Len(q) + 1 /\ i \in Nat
      /\ Len(q) \in Nat
  BY AppendedLast
<1>2. \A i \in DOMAIN q : q[i] < x
  BY DEF Range
<1> QED BY <1>1, <1>2 DEF Increasing

\* The front of a queue of increasing numbers is less than those behind it, which
\* go on increasing.
LEMMA LeastTaken ==
  ASSUME NEW q \in Seq(Nat), q # << >>, Increasing(q)
  PROVE  Increasing(Tail(q)) /\ \A u \in Range(Tail(q)) : Head(q) < u
<1>1. /\ 1 \in DOMAIN q /\ q[1] = Head(q)
      /\ \A i \in DOMAIN Tail(q) :
           i \in Nat \ {0} /\ i + 1 \in DOMAIN q /\ Tail(q)[i] = q[i + 1]
  BY TailPlaces
<1>2. Increasing(Tail(q))
  BY <1>1 DEF Increasing
<1>3. \A i \in DOMAIN Tail(q) : Head(q) < Tail(q)[i]
  BY <1>1 DEF Increasing
<1> QED BY <1>2, <1>3 DEF Range

\* The order as it is proved: where the ticks are, and that each queue is in order.
Places(begun, queued, late) ==
  /\ 1 .. sent = begun \cup queued \cup late
  /\ \A t \in begun : \A u \in queued : t < u
  /\ \A t \in begun \cup queued : \A u \in late : t < u

LEMMA OrderParts ==
  TicksInOrder <=> /\ Places(active \cup finished, Range(pending), TicksAmong(events))
                   /\ active \cap finished = {}
                   /\ Increasing(pending) /\ TicksOrdered(events)
BY DEF TicksInOrder, Undelivered, Places, TicksAmong, Increasing, TicksOrdered

\* The same of the next state.
LEMMA OrderMade ==
  ASSUME Places(active \cup finished, Range(pending), TicksAmong(events))',
         active' \cap finished' = {}, Increasing(pending'), TicksOrdered(events')
  PROVE  TicksInOrder'
BY DEF TicksInOrder, Undelivered, Places, TicksAmong, Increasing, TicksOrdered

\* Nothing that leaves the ticks where they are disturbs their order.
LEMMA OrderKept ==
  ASSUME TicksInOrder, TicksOrdered(events'), TicksAmong(events') = TicksAmong(events),
         sent' = sent, UNCHANGED poolVars
  PROVE  TicksInOrder'
<1>1. UNCHANGED <<pending, active, finished>>
  BY DEF poolVars
<1>2. /\ Places(active \cup finished, Range(pending), TicksAmong(events))
      /\ active \cap finished = {} /\ Increasing(pending)
  BY OrderParts
<1>3. (Places(active \cup finished, Range(pending), TicksAmong(events)))'
  BY <1>1, <1>2 DEF Places
<1> QED BY <1>1, <1>2, <1>3, OrderMade

\* Every step keeps the ticks in order.
LEMMA OrderStep == TypeOK /\ TicksInOrder /\ [Next]_vars => TicksInOrder'
<1> SUFFICES ASSUME TypeOK, TicksInOrder, [Next]_vars PROVE TicksInOrder'
  OBVIOUS
<1> DEFINE S == Events \cup Notes
<1>0. /\ FrontTypeOK(Notes) /\ events \in Seq(S) /\ TicksOrdered(events)
      /\ sent \in 0 .. MaxTicks /\ pending \in Seq(Ticks)
      /\ Places(active \cup finished, Range(pending), TicksAmong(events))
      /\ active \cap finished = {} /\ Increasing(pending)
      /\ active \subseteq Ticks /\ finished \subseteq Ticks
  BY OrderParts DEF TypeOK, Notes, FrontTypeOK, Pool!TypeOK
<1>t. Ticks \subseteq Nat /\ pending \in Seq(Nat)
  <2>1. Ticks \subseteq Nat
    BY DEF Ticks
  <2> QED BY <1>0, <2>1, SeqMonotonic
<1>a. ASSUME NEW e \in S, e.of # "tick", events' = Append(events, e),
             sent' = sent, UNCHANGED poolVars
      PROVE  TicksInOrder'
  BY <1>0, <1>a, OtherAdded, OrderKept
<1>b. ASSUME NEW kind, kind # "tick", Deliver(kind), UNCHANGED poolVars
      PROVE  TicksInOrder'
  <2>1. events # << >> /\ Head(events).of # "tick" /\ events' = Tail(events) /\ sent' = sent
    BY <1>b DEF Deliver
  <2>2. TicksOrdered(events') /\ TicksAmong(events') = TicksAmong(events)
    BY <1>0, <2>1, CallbackMade
  <2> QED BY <1>b, <2>1, <2>2, OrderKept
<1>1. CASE Front
  <2>0. sent' = sent /\ UNCHANGED poolVars
    BY <1>1 DEF Front
  <2>1. CASE LinkUp
    <3>1. Connected \in S /\ Connected.of # "tick"
      BY DEF Events, Connected
    <3> QED BY <1>a, <2>0, <2>1, <3>1 DEF LinkUp
  <2>2. CASE LinkDown
    <3>1. Disconnected \in S /\ Disconnected.of # "tick"
      BY DEF Events, Disconnected
    <3> QED BY <1>a, <2>0, <2>2, <3>1 DEF LinkDown
  <2>3. ASSUME NEW ok \in BOOLEAN, AnswerRequest(ok) PROVE TicksInOrder'
    <3>1. requests # << >> /\ Head(requests) \in Requests
      BY <1>0, <2>3, FrontAssumption, AnswerRequestSound
    <3>2. PICK a \in Answers(Head(requests), ok) : events' = events \o a
      BY <2>3 DEF AnswerRequest
    <3>3. a \in Seq(Events) /\ \A e \in Range(a) : e.of = Head(requests)
      BY <1>0, <3>1, FrontAssumption, AnswersSound DEF FrontTypeOK
    <3>4. a \in Seq(S) /\ \A e \in Range(a) : e.of # "tick"
      BY <3>1, <3>3, SeqMonotonic, MdAssumption
    <3>5. TicksOrdered(events') /\ TicksAmong(events') = TicksAmong(events)
      BY <1>0, <3>2, <3>4, OthersAdded
    <3> QED BY <2>0, <3>5, OrderKept
  <2> QED BY <1>1, <2>1, <2>2, <2>3 DEF Front
<1>2. CASE PushTick
  <2>1. PICK t \in Ticks : t = sent + 1 /\ TickNote(t) \in S
    BY <1>0, <1>2, MdAssumption DEF PushTick, Ticks, Notes
  <2>2. events' = Append(events, TickNote(t)) /\ sent' = t /\ UNCHANGED <<pending, active, finished>>
    BY <1>2, <2>1 DEF PushTick, Notify, poolVars
  <2>3. \A u \in active \cup finished \cup Range(pending) \cup TicksAmong(events) : u < t
    BY <1>0, <2>1 DEF Places
  <2>4. TicksOrdered(events') /\ TicksAmong(events') = TicksAmong(events) \cup {t}
    <3>1. \A u \in TicksAmong(events) : u < t
      BY <2>3
    <3>2. events \in Seq(S) /\ TicksOrdered(events) /\ TickNote(t) \in S
      BY <1>0, <2>1
    <3> HIDE DEF S
    <3> QED BY <2>2, <3>1, <3>2, TickAdded
  <2>5. 1 .. t = (1 .. sent) \cup {t}
    BY <1>0, <2>1
  <2>6. Places(active \cup finished, Range(pending), TicksAmong(events))'
    BY <1>0, <2>2, <2>3, <2>4, <2>5 DEF Places
  <2> QED BY <1>0, <2>2, <2>4, <2>6, OrderMade
<1>3. CASE OnFrontConnected
  BY <1>3, <1>b DEF OnFrontConnected
<1>4. CASE OnFrontDisconnected
  BY <1>4, <1>b DEF OnFrontDisconnected
<1>5. CASE OnRspUserLogin
  BY <1>5, <1>b DEF OnRspUserLogin
<1>6. CASE OnRspSubMarketData
  BY <1>6, <1>b DEF OnRspSubMarketData
<1>7. CASE OnRtnDepthMarketData
  <2>1. /\ events # << >> /\ Head(events).of = "tick" /\ events' = Tail(events) /\ sent' = sent
        /\ Head(events) \in S
    BY <1>0, <1>7, DeliverSound DEF OnRtnDepthMarketData, Deliver
  <2>2. PICK t \in Ticks : t = Head(events).tick
    BY <1>0, <2>1, TickOfNote, MdAssumption
  <2>3. pending' = Append(pending, t) /\ UNCHANGED <<active, finished>>
    BY <1>7, <2>2 DEF OnRtnDepthMarketData, Pool!Submit
  <2>4. /\ TicksOrdered(events') /\ TicksAmong(events) = {t} \cup TicksAmong(events')
        /\ \A u \in TicksAmong(events') : t < u
    BY <1>0, <2>1, <2>2, CallbackMade
  <2>5. Range(pending') = Range(pending) \cup {t}
    BY <1>0, <2>3, AppendRange
  <2>6. \A u \in active \cup finished \cup Range(pending) : u < t
    BY <1>0, <2>4 DEF Places
  <2>7. Increasing(pending')
    BY <1>0, <1>t, <2>3, <2>6, GreaterAdded
  <2>8. Places(active \cup finished, Range(pending), TicksAmong(events))'
    BY <1>0, <2>1, <2>3, <2>4, <2>5, <2>6 DEF Places
  <2> QED BY <1>0, <2>3, <2>4, <2>7, <2>8, OrderMade
<1>8. CASE Start
  <2>1. /\ pending # << >> /\ pending' = Tail(pending)
        /\ active' = active \cup {Head(pending)} /\ finished' = finished
        /\ UNCHANGED <<events, sent>>
    BY <1>8 DEF Start, Pool!Start, frontVars
  <2>2. /\ Range(pending) = {Head(pending)} \cup Range(pending')
        /\ Increasing(pending') /\ \A u \in Range(pending') : Head(pending) < u
    BY <1>0, <1>t, <2>1, HeadRange, LeastTaken
  <2>3. Head(pending) \notin finished
    <3>1. Head(pending) \in Range(pending) /\ Head(pending) \in Nat
      BY <1>t, <2>1, HeadRange
    <3>2. \A t \in finished : t < Head(pending)
      BY <1>0, <3>1 DEF Places
    <3> QED BY <3>1, <3>2
  <2>4. Places(active \cup finished, Range(pending), TicksAmong(events))'
    BY <1>0, <2>1, <2>2 DEF Places
  <2> QED BY <1>0, <2>1, <2>2, <2>3, <2>4, OrderMade
<1>9. ASSUME NEW t \in Ticks, Finish(t) PROVE TicksInOrder'
  <2>1. /\ t \in active /\ active' = active \ {t} /\ finished' = finished \cup {t}
        /\ UNCHANGED <<events, sent, pending>>
    BY <1>9 DEF Finish, Pool!Finish, frontVars
  <2>2. active' \cup finished' = active \cup finished /\ active' \cap finished' = {}
    BY <1>0, <2>1
  <2>3. Places(active \cup finished, Range(pending), TicksAmong(events))'
    BY <1>0, <2>1, <2>2 DEF Places
  <2> QED BY <1>0, <2>1, <2>2, <2>3, OrderMade
<1>10. CASE UNCHANGED vars
  BY <1>0, <1>10, OrderKept DEF vars, frontVars
<1> QED BY <1>1, <1>2, <1>3, <1>4, <1>5, <1>6, <1>7, <1>8, <1>9, <1>10 DEF Next, Callback

\* IInv is an inductive invariant of the specification.
THEOREM Invariant == Spec => []IInv
BY InitInv, TypeStep, StuckStep, OrderStep, PTL DEF Spec, SafeSpec, IInv

\* What the front, the library and the pool hold has its type.
THEOREM TypeCorrect == Spec => []TypeOK
BY Invariant, PTL DEF IInv

\* On a link that is up without the subscription, and on which no request has
\* failed, something that will lead to it is under way, however often the link
\* has broken and however late its callbacks come (CustomMdSpi.cpp:23-78).
THEOREM NotStuck == Spec => []NeverStuck
BY Invariant, PTL DEF IInv

\* However often the link breaks, and however many threads take the ticks up, no
\* tick the front has sent is lost, taken twice or overtaken on its way into the
\* pool (CustomMdSpi.cpp:173-228).
THEOREM TicksStayInOrder == Spec => []TicksInOrder
BY Invariant, PTL DEF IInv
=============================================================================
