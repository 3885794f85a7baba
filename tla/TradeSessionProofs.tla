------------------------- MODULE TradeSessionProofs -------------------------
(***************************************************************************)
(* The trading session, for any number of breaks of the link and of        *)
(* records.  Three things have to be known of everything under way, of     *)
(* requests on their way to the front as of callbacks yet to be made:      *)
(*                                                                         *)
(*   ChainInv   the steps before it have been confirmed, on whatever link; *)
(*   NumberInv  an answer of an earlier link has the news of the break     *)
(*              behind it in the queue;                                    *)
(*   LinkInv    unless a login was hasty, there is no such news once the   *)
(*              client has asked for a login on the present link, so what  *)
(*              a late answer has set off goes before that login, and is   *)
(*              refused; of everything else on this link the steps before  *)
(*              it have been granted there.                                *)
(***************************************************************************)
EXTENDS TradeSession, CtpFrontProofs

\* The steps before a step.
Before(kind) ==
  CASE kind = "settlement" -> {"login"}
    [] kind = "instrument" -> {"login", "settlement"}
    [] kind = "account" -> {"login", "settlement", "instrument"}
    [] kind = "position" -> {"login", "settlement", "instrument", "account"}
    [] OTHER -> {}

ChainInv ==
  /\ \A k \in Range(requests) : Before(k) \subseteq confirmed
  /\ \A e \in Range(events) : e.of \in Steps => Before(e.of) \subseteq confirmed
  /\ "login" \in confirmed => order_ref # 0 /\ session_id # 0

\* In the queue q every answer of another link than the n-th is followed by the
\* news of a broken link.
Covered(q, n) ==
  \A i \in DOMAIN q : q[i].of \in Steps /\ q[i].on # n =>
    \E j \in DOMAIN q : i < j /\ q[j] = Disconnected

NumberInv ==
  /\ session_id <= Session(drops)
  /\ \A e \in Range(events) : e.of \in Steps => e.on <= drops
  /\ Covered(events, drops)
  /\ link = "down" =>
       /\ session_id # Session(drops)
       /\ \A e \in Range(events) : e.of \in Steps => e.on # drops

\* Of every request in q either the steps before it have been granted, or it goes
\* before any login and will be refused.
Due(q, g) ==
  \A i \in DOMAIN q :
    \/ Before(q[i]) \subseteq g
    \/ "login" \notin g /\ \A j \in 1 .. i : q[j] # "login"

\* The front has been asked for a login, or has granted one, and no news of a
\* broken link is left.
NewsInv == "login" \in granted \cup Range(requests) => Disconnected \notin Range(events)

\* What has been answered on this link has been granted, with the steps before it.
GrantInv ==
  \A e \in Range(events) : e.of \in Steps /\ e.ok /\ e.on = drops =>
    Before(e.of) \cup {e.of} \subseteq granted

LinkInv ==
  ~hasty =>
    /\ Due(requests, granted)
    /\ NewsInv
    /\ GrantInv
    /\ session_id = Session(drops) => "login" \in granted

IInv ==
  TypeOK /\ ChainInv /\ NumberInv /\ LinkInv /\ StrategyAfterChain /\ SettledOnItsLink

-----------------------------------------------------------------------------
(* Requests and answers. *)

\* Each step comes after those before the step it follows, and that step.
LEMMA BeforeSteps ==
  /\ Before("login") = {}
  /\ Before("settlement") = Before("login") \cup {"login"}
  /\ Before("instrument") = Before("settlement") \cup {"settlement"}
  /\ Before("account") = Before("instrument") \cup {"instrument"}
  /\ Before("position") = Before("account") \cup {"account"}
  /\ Before("position") \cup {"position"} = Steps
BY DEF Before, Steps

\* The answer to a step is an answer, which bears the number of its link.
LEMMA StepAnswer ==
  ASSUME NEW e \in Events, e.of \in Steps
  PROVE  e.on \in 0 .. MaxDrops /\ e.ok \in BOOLEAN /\ e # Disconnected
<1>1. Connected.of = "connected" /\ Disconnected.of = "disconnected"
  BY DEF Connected, Disconnected
<1>2. e # Connected /\ e # Disconnected
  BY <1>1 DEF Steps
<1>3. e \in [of : Requests, ok : BOOLEAN, data : BOOLEAN, on : 0 .. MaxDrops]
  BY <1>2 DEF Events
<1> QED BY <1>2, <1>3

\* The types of the two queues.
LEMMA Queues ==
  ASSUME TypeOK
  PROVE  events \in Seq(Events) /\ requests \in Seq(Requests) /\ FrontTypeOK({})
<1>1. Events \cup {} = Events
  OBVIOUS
<1> QED BY <1>1, Zenon DEF TypeOK, FrontTypeOK

\* A callback takes the first event, and leaves the front alone.
LEMMA DeliverSound ==
  ASSUME TypeOK, NEW kind, Deliver(kind)
  PROVE  /\ events # << >> /\ Head(events).of = kind /\ Head(events) \in Events
         /\ Head(events) \in Range(events)
         /\ Range(events) = {Head(events)} \cup Range(events')
         /\ events' \in Seq(Events) /\ events' = Tail(events)
         /\ ~trading /\ death = "none"
         /\ UNCHANGED <<link, granted, drops>>
BY Queues, HeadRange DEF Deliver

\* The numbers of links and sessions.
LEMMA SessionNumbers ==
  ASSUME TypeOK, NumberInv
  PROVE  /\ drops \in Nat /\ MaxDrops \in Nat /\ drops <= MaxDrops
         /\ Session(drops) = drops + 1 /\ Session(MaxDrops) = MaxDrops + 1
         /\ session_id \in 0 .. Session(drops)
         /\ 0 .. Session(drops) \subseteq 0 .. Session(MaxDrops)
         /\ \A i \in 0 .. Session(drops) : i <= Session(drops)
<1>1. MaxDrops \in Nat
  BY FrontAssumption DEF FrontAssumption
<1>2. drops \in 0 .. MaxDrops
  BY DEF TypeOK, FrontTypeOK
<1>3. Session(drops) = drops + 1 /\ Session(MaxDrops) = MaxDrops + 1
  BY DEF Session
<1>4. session_id \in 0 .. Session(MaxDrops) /\ session_id <= Session(drops)
  BY DEF TypeOK, NumberInv
<1> QED BY <1>1, <1>2, <1>3, <1>4

-----------------------------------------------------------------------------
(* The queue of callbacks. *)

\* A queue that has grown by answers of the n-th link and other callbacks is
\* covered as it was.
LEMMA CoveredGrown ==
  ASSUME NEW S, NEW q \in Seq(S), NEW r \in Seq(S), NEW n, Covered(q, n),
         Len(q) <= Len(r), \A i \in 1 .. Len(q) : r[i] = q[i],
         \A i \in 1 .. Len(r) : Len(q) < i /\ r[i].of \in Steps => r[i].on = n
  PROVE  Covered(r, n)
<1>1. /\ DOMAIN q = 1 .. Len(q) /\ DOMAIN r = 1 .. Len(r) /\ Len(q) \in Nat /\ Len(r) \in Nat
  BY LenProperties
<1> SUFFICES ASSUME NEW i \in DOMAIN r, r[i].of \in Steps, r[i].on # n
             PROVE  \E j \in DOMAIN r : i < j /\ r[j] = Disconnected
  BY DEF Covered
<1>2. i \in DOMAIN q /\ q[i] = r[i]
  BY <1>1
<1>3. PICK j \in DOMAIN q : i < j /\ q[j] = Disconnected
  BY <1>2 DEF Covered
<1>4. j \in DOMAIN r /\ r[j] = Disconnected
  BY <1>1, <1>3
<1> QED BY <1>3, <1>4

\* The news of a broken link covers all before it.
LEMMA CoveredByNews ==
  ASSUME NEW S, NEW q \in Seq(S), Disconnected \in S, NEW n
  PROVE  Covered(Append(q, Disconnected), n)
<1> DEFINE r == Append(q, Disconnected)
<1>1. /\ DOMAIN r = 1 .. Len(q) + 1 /\ Len(q) \in Nat /\ r[Len(q) + 1] = Disconnected
  BY AppendProperties, LenProperties
<1>2. Disconnected.of \notin Steps
  BY DEF Disconnected, Steps
<1> HIDE DEF r
<1>3. ASSUME NEW i \in DOMAIN r, r[i].of \in Steps
      PROVE  \E j \in DOMAIN r : i < j /\ r[j] = Disconnected
  <2>1. i # Len(q) + 1
    BY <1>1, <1>2, <1>3
  <2>2. Len(q) + 1 \in DOMAIN r /\ i < Len(q) + 1
    BY <1>1, <2>1
  <2> QED BY <1>1, <2>2
<1>4. Covered(r, n)
  BY <1>3 DEF Covered
<1> QED BY <1>4 DEF r

\* A queue without its front is covered, and the front by what is left.
LEMMA CoveredTail ==
  ASSUME NEW S, NEW q \in Seq(S), q # << >>, NEW n, Covered(q, n)
  PROVE  /\ Covered(Tail(q), n)
         /\ Head(q).of \in Steps /\ Head(q).on # n => Disconnected \in Range(Tail(q))
<1> DEFINE r == Tail(q)
<1>1. /\ r \in Seq(S) /\ Len(r) = Len(q) - 1 /\ \A i \in 1 .. Len(r) : r[i] = q[i + 1]
      /\ Len(q) \in Nat /\ Len(q) # 0
  BY HeadTailProperties, EmptySeq, LenProperties
<1>2. DOMAIN q = 1 .. Len(q) /\ DOMAIN r = 1 .. Len(q) - 1 /\ Head(q) = q[1]
  BY <1>1, LenProperties
<1> HIDE DEF r
<1>3. ASSUME NEW i \in DOMAIN q, q[i].of \in Steps, q[i].on # n
      PROVE  \E j \in DOMAIN r : i < j + 1 /\ r[j] = Disconnected
  <2>1. PICK j \in DOMAIN q : i < j /\ q[j] = Disconnected
    BY <1>3 DEF Covered
  <2>2. j - 1 \in DOMAIN r /\ r[j - 1] = Disconnected /\ i < (j - 1) + 1
    BY <1>1, <1>2, <2>1
  <2> QED BY <2>2
<1>4. ASSUME NEW i \in DOMAIN r, r[i].of \in Steps, r[i].on # n
      PROVE  \E j \in DOMAIN r : i < j /\ r[j] = Disconnected
  <2>1. i + 1 \in DOMAIN q /\ q[i + 1] = r[i]
    BY <1>1, <1>2
  <2>2. PICK j \in DOMAIN r : i + 1 < j + 1 /\ r[j] = Disconnected
    BY <1>3, <1>4, <2>1
  <2> QED BY <1>1, <1>2, <2>2
<1>5. Covered(r, n)
  BY <1>4 DEF Covered
<1>6. Head(q).of \in Steps /\ Head(q).on # n => Disconnected \in Range(r)
  BY <1>1, <1>2, <1>3 DEF Range
<1> QED BY <1>5, <1>6 DEF r

-----------------------------------------------------------------------------
(* The queue of requests. *)

\* A request put behind the others is due, if those before it have been granted
\* or there is no login in sight.
LEMMA DueAppend ==
  ASSUME NEW S, NEW q \in Seq(S), NEW k \in S, NEW g, Due(q, g),
         \/ Before(k) \subseteq g
         \/ k # "login" /\ "login" \notin g \cup Range(q)
  PROVE  Due(Append(q, k), g)
<1> DEFINE r == Append(q, k)
<1>1. /\ DOMAIN r = 1 .. Len(q) + 1 /\ DOMAIN q = 1 .. Len(q) /\ Len(q) \in Nat
      /\ r[Len(q) + 1] = k /\ \A i \in 1 .. Len(q) : r[i] = q[i]
  BY AppendProperties, LenProperties
<1> HIDE DEF r
<1>2. ASSUME NEW i \in DOMAIN r
      PROVE  Before(r[i]) \subseteq g \/ ("login" \notin g /\ \A j \in 1 .. i : r[j] # "login")
  <2>1. CASE i \in DOMAIN q
    <3>1. r[i] = q[i] /\ \A j \in 1 .. i : r[j] = q[j]
      BY <1>1, <2>1
    <3> QED BY <2>1, <3>1 DEF Due
  <2>2. CASE i = Len(q) + 1
    <3>1. CASE Before(k) \subseteq g
      BY <1>1, <2>2, <3>1
    <3>2. CASE k # "login" /\ "login" \notin g \cup Range(q)
      <4>1. ASSUME NEW j \in 1 .. i PROVE r[j] # "login"
        <5>1. j \in DOMAIN q \/ j = Len(q) + 1
          BY <1>1, <2>2
        <5> QED BY <1>1, <3>2, <5>1 DEF Range
      <4> QED BY <3>2, <4>1
    <3> QED BY <3>1, <3>2
  <2> QED BY <1>1, <2>1, <2>2
<1>3. Due(r, g)
  BY <1>2 DEF Due
<1> QED BY <1>3 DEF r

\* The requests behind the first stay due when that is granted or refused; and if
\* it needs a login that it does not find, it is refused.
LEMMA DueTail ==
  ASSUME NEW S, NEW q \in Seq(S), q # << >>, NEW g, Due(q, g),
         NEW h, h = g \/ h = g \cup {Head(q)}
  PROVE  /\ Before(Head(q)) \subseteq g \/ ("login" \notin g /\ Head(q) # "login")
         /\ Due(Tail(q), h)
<1> DEFINE r == Tail(q)
<1>1. /\ r \in Seq(S) /\ Len(r) = Len(q) - 1 /\ \A i \in 1 .. Len(r) : r[i] = q[i + 1]
      /\ Len(q) \in Nat /\ Len(q) # 0
  BY HeadTailProperties, EmptySeq, LenProperties
<1>2. /\ DOMAIN q = 1 .. Len(q) /\ DOMAIN r = 1 .. Len(q) - 1
      /\ Head(q) = q[1] /\ 1 \in DOMAIN q /\ 1 \in 1 .. 1
  BY <1>1, LenProperties
<1> HIDE DEF r
<1>3. Before(Head(q)) \subseteq g \/ ("login" \notin g /\ Head(q) # "login")
  BY <1>2 DEF Due
<1>4. ASSUME NEW i \in DOMAIN r
      PROVE  Before(r[i]) \subseteq h \/ ("login" \notin h /\ \A j \in 1 .. i : r[j] # "login")
  <2>1. i + 1 \in DOMAIN q /\ q[i + 1] = r[i]
    BY <1>1, <1>2
  <2>2. CASE Before(q[i + 1]) \subseteq g
    BY <2>1, <2>2
  <2>3. CASE "login" \notin g /\ \A j \in 1 .. i + 1 : q[j] # "login"
    <3>1. q[1] # "login"
      <4>1. 1 \in 1 .. i + 1
        BY <1>2
      <4> QED BY <2>3, <4>1
    <3>2. ASSUME NEW j \in 1 .. i PROVE r[j] # "login"
      <4>1. j + 1 \in 1 .. i + 1 /\ r[j] = q[j + 1]
        BY <1>1, <1>2
      <4> QED BY <2>3, <4>1
    <3> QED BY <1>2, <2>3, <3>1, <3>2
  <2> QED BY <2>1, <2>2, <2>3 DEF Due
<1>5. Due(r, h)
  BY <1>4 DEF Due
<1> QED BY <1>3, <1>5 DEF r

-----------------------------------------------------------------------------
(* The callbacks. *)

\* When a callback may ask for step k: for a login if no news of a broken link is
\* left, for another step if those before it have been granted, or if the front
\* will refuse it for want of a login.
MayAsk(k) ==
  IF k = "login" THEN Disconnected \notin Range(events')
  ELSE Before(k) \subseteq granted \/ "login" \notin granted \cup Range(requests)

\* A request that may be made keeps the requests due.
LEMMA AskedInTime ==
  ASSUME TypeOK, LinkInv, ~hasty, NEW k \in Steps, Request(k), MayAsk(k),
         Range(events') \subseteq Range(events)
  PROVE  /\ Due(requests', granted)
         /\ "login" \in granted \cup Range(requests') => Disconnected \notin Range(events')
<1>1. requests \in Seq(Requests) /\ k \in Requests
  BY Queues, TradeAssumption DEF TradeAssumption
<1>2. Due(requests, granted) /\ NewsInv
  BY DEF LinkInv
<1>3. CASE requests' = Append(requests, k)
  <2>1. Before(k) \subseteq granted \/ (k # "login" /\ "login" \notin granted \cup Range(requests))
    BY BeforeSteps DEF MayAsk
  <2>2. Due(Append(requests, k), granted)
    BY <1>1, <1>2, <2>1, DueAppend
  <2>3. Range(Append(requests, k)) = Range(requests) \cup {k}
    BY <1>1, AppendRange
  <2> QED BY <1>2, <1>3, <2>2, <2>3 DEF NewsInv, MayAsk
<1>4. CASE requests' = requests
  BY <1>2, <1>4 DEF NewsInv
<1> QED BY <1>3, <1>4 DEF Request

\* A callback keeps the invariant if the request it may make follows what has
\* been confirmed and granted, and if it enters the strategy only at the end of
\* the chain.
LEMMA CallbackKeeps ==
  ASSUME IInv, NEW kind, Deliver(kind),
         NEW k \in Steps,
         NoRequest \/ (Request(k) /\ Before(k) \subseteq confirmed' /\ (~hasty' => MayAsk(k))),
         confirmed \subseteq confirmed', confirmed' \subseteq Steps,
         hasty' \in BOOLEAN, hasty => hasty',
         loginFlag' \in BOOLEAN, order_ref' \in {0, MaxOrderRef},
         session_id' \in 0 .. Session(drops),
         session_id' = Session(drops) => link # "down" /\ (~hasty' => "login" \in granted),
         "login" \in confirmed' => order_ref' # 0 /\ session_id' # 0,
         trading' \in BOOLEAN, trading' => confirmed' = Steps,
         trading' /\ session_id' = Session(drops) /\ ~hasty' => Steps \subseteq granted,
         death' \in {"none", "out_of_range", "null record"}
  PROVE  IInv'
<1>1. TypeOK /\ NumberInv /\ ChainInv /\ LinkInv /\ FrontTypeOK({})
  BY Queues DEF IInv
<1>2. /\ Range(events') \subseteq Range(events) /\ events' \in Seq(Events) /\ events' = Tail(events)
      /\ events \in Seq(Events) /\ events # << >>
      /\ ~trading /\ UNCHANGED <<link, granted, drops>>
  BY <1>1, DeliverSound, Queues
<1>3. k \in Requests
  BY TradeAssumption DEF TradeAssumption
<1>4. /\ requests' \in Seq(Requests) /\ failed' \in BOOLEAN
      /\ Range(requests') \subseteq Range(requests) \cup {k}
      /\ link = "down" => requests' = requests
      /\ Range(requests') \subseteq Range(requests) \/ Before(k) \subseteq confirmed'
  <2>1. CASE NoRequest
    BY <1>1, <2>1 DEF NoRequest, FrontTypeOK
  <2>2. CASE Request(k) /\ Before(k) \subseteq confirmed'
    BY <1>1, <1>3, <2>2, RequestSound
  <2> QED BY <2>1, <2>2
<1>5. FrontTypeOK({})'
  <2>1. Events \cup {} = Events
    OBVIOUS
  <2> QED BY <1>1, <1>2, <1>4, <2>1 DEF FrontTypeOK
<1>6. TypeOK'
  <2>1. session_id' \in 0 .. Session(MaxDrops)
    BY <1>1, SessionNumbers
  <2> QED BY <1>5, <2>1 DEF TypeOK
<1>7. ChainInv'
  BY <1>1, <1>2, <1>4 DEF ChainInv
<1>8. NumberInv'
  <2>1. session_id' <= Session(drops')
    <3>1. session_id' <= Session(drops)
      BY <1>1, SessionNumbers, Zenon
    <3> QED BY <1>2, <3>1
  <2>2. Covered(events', drops')
    <3>1. Covered(Tail(events), drops)
      BY <1>1, <1>2, CoveredTail DEF NumberInv
    <3> QED BY <1>2, <3>1
  <2> QED BY <1>1, <1>2, <2>1, <2>2 DEF NumberInv
<1>9. LinkInv'
  <2> SUFFICES ASSUME ~hasty'
               PROVE  /\ Due(requests', granted') /\ NewsInv' /\ GrantInv'
                      /\ session_id' = Session(drops') => "login" \in granted'
    BY DEF LinkInv
  <2>1. ~hasty /\ Due(requests, granted) /\ NewsInv /\ GrantInv
    BY <1>1 DEF LinkInv
  <2>2. /\ Due(requests', granted)
        /\ "login" \in granted \cup Range(requests') => Disconnected \notin Range(events')
    <3>1. CASE NoRequest
      BY <1>2, <2>1, <3>1 DEF NoRequest, NewsInv
    <3>2. CASE Request(k) /\ MayAsk(k)
      BY <1>1, <1>2, <2>1, <3>2, AskedInTime
    <3> QED BY <3>1, <3>2
  <2>3. GrantInv'
    BY <1>2, <2>1 DEF GrantInv
  <2>4. session_id' = Session(drops') => "login" \in granted'
    BY <1>2
  <2> QED BY <1>2, <2>2, <2>3, <2>4 DEF NewsInv
<1>10. StrategyAfterChain' /\ SettledOnItsLink'
  BY <1>2 DEF StrategyAfterChain, SettledOnItsLink, Steps
<1> QED BY <1>6, <1>7, <1>8, <1>9, <1>10 DEF IInv

\* A callback that changes nothing of the client but, perhaps, death.
LEMMA QuietCallback ==
  ASSUME IInv, NEW kind, Deliver(kind),
         NoRequest \/ (Request("login") /\ (~hasty' => MayAsk("login"))),
         UNCHANGED <<sessionVars, confirmed, trading>>,
         hasty' \in BOOLEAN, hasty => hasty',
         death' \in {"none", "out_of_range", "null record"}
  PROVE  IInv'
<1>1. TypeOK /\ NumberInv /\ ~trading
  BY DeliverSound DEF IInv
<1>2. "login" \in Steps /\ Before("login") \subseteq confirmed'
  BY BeforeSteps DEF Steps
<1>3. /\ confirmed \subseteq confirmed' /\ confirmed' \subseteq Steps
      /\ loginFlag' \in BOOLEAN /\ order_ref' \in {0, MaxOrderRef}
      /\ "login" \in confirmed' => order_ref' # 0 /\ session_id' # 0
      /\ trading' = FALSE
  BY <1>1 DEF IInv, TypeOK, ChainInv, sessionVars
<1>4. session_id' \in 0 .. Session(drops) /\ session_id' = session_id
  BY <1>1, SessionNumbers DEF sessionVars
<1>5. session_id' = Session(drops) => link # "down" /\ (~hasty' => "login" \in granted)
  BY <1>4 DEF IInv, NumberInv, LinkInv
<1> QED BY <1>2, <1>3, <1>4, <1>5, CallbackKeeps

\* An answer without error to a step confirms it after all before it.  If it is of
\* this link, all of them are granted there, unless a login was hasty; if it is
\* of an earlier one, no login is in sight on this link.
LEMMA ConfirmedSound ==
  ASSUME IInv, NEW kind \in Steps, Confirmed(kind)
  PROVE  /\ Deliver(kind) /\ ~trading
         /\ confirmed' = confirmed \cup {kind}
         /\ confirmed \subseteq confirmed' /\ confirmed' \subseteq Steps
         /\ Before(kind) \cup {kind} \subseteq confirmed'
         /\ hasty' \in BOOLEAN /\ hasty' = hasty
         /\ Head(events).on \in 0 .. drops
         /\ link = "down" => Head(events).on # drops
         /\ ~hasty => \/ Head(events).on = drops /\ Before(kind) \cup {kind} \subseteq granted
                      \/ Head(events).on # drops /\ "login" \notin granted \cup Range(requests)
         /\ death' = death
<1>1. /\ Deliver(kind) /\ Head(events).ok /\ confirmed' = confirmed \cup {kind}
      /\ UNCHANGED <<hasty, death>>
  BY DEF Confirmed, isErrorRspInfo
<1>2. /\ TypeOK /\ NumberInv /\ events \in Seq(Events)
  BY Queues DEF IInv
<1>3. /\ Head(events) \in Range(events) /\ Head(events).of = kind /\ ~trading
      /\ Head(events) \in Events /\ events # << >>
      /\ Range(events) = {Head(events)} \cup Range(events') /\ events' = Tail(events)
  BY <1>1, <1>2, DeliverSound
<1>4. Head(events).on \in 0 .. drops
  <2>1. Head(events).on \in 0 .. MaxDrops /\ Head(events).on <= drops
    BY <1>2, <1>3, StepAnswer DEF NumberInv
  <2> QED BY <1>2, <2>1, SessionNumbers
<1>5. link = "down" => Head(events).on # drops
  BY <1>2, <1>3 DEF NumberInv
<1>6. Before(kind) \cup {kind} \subseteq confirmed' /\ confirmed' \subseteq Steps
  BY <1>1, <1>3 DEF IInv, ChainInv, TypeOK
<1>7. ASSUME ~hasty, Head(events).on = drops
      PROVE  Before(kind) \cup {kind} \subseteq granted
  BY <1>1, <1>3, <1>7 DEF IInv, LinkInv, GrantInv
<1>8. ASSUME ~hasty, Head(events).on # drops
      PROVE  "login" \notin granted \cup Range(requests)
  <2>1. Disconnected \in Range(Tail(events))
    BY <1>2, <1>3, <1>8, CoveredTail DEF NumberInv
  <2> QED BY <1>3, <1>8, <2>1 DEF IInv, LinkInv, NewsInv
<1>9. hasty' \in BOOLEAN
  BY <1>1 DEF IInv, TypeOK
<1> QED BY <1>1, <1>3, <1>4, <1>5, <1>6, <1>7, <1>8, <1>9

\* A step that asks for the next one.
LEMMA NextStep ==
  ASSUME IInv, NEW kind \in Steps \ {"login"}, Confirmed(kind),
         NEW k \in Steps \ {"login"}, Request(k), Before(k) = Before(kind) \cup {kind},
         UNCHANGED <<sessionVars, trading>>
  PROVE  IInv'
<1>1. TypeOK /\ NumberInv
  BY DEF IInv
<1>2. /\ Deliver(kind) /\ ~trading
      /\ confirmed' = confirmed \cup {kind}
      /\ confirmed \subseteq confirmed' /\ confirmed' \subseteq Steps /\ Before(k) \subseteq confirmed'
      /\ hasty' \in BOOLEAN /\ hasty' = hasty /\ death' = death
      /\ ~hasty => Before(k) \subseteq granted \/ "login" \notin granted \cup Range(requests)
  BY ConfirmedSound
<1>3. ~hasty' => MayAsk(k)
  BY <1>2 DEF MayAsk
<1>4. session_id' \in 0 .. Session(drops) /\ session_id' = session_id
  BY <1>1, SessionNumbers DEF sessionVars
<1>5. session_id' = Session(drops) => link # "down" /\ (~hasty' => "login" \in granted)
  BY <1>2, <1>4 DEF IInv, NumberInv, LinkInv
<1>6. /\ loginFlag' \in BOOLEAN /\ order_ref' \in {0, MaxOrderRef}
      /\ "login" \in confirmed' => order_ref' # 0 /\ session_id' # 0
      /\ death' \in {"none", "out_of_range", "null record"} /\ trading' = FALSE
  BY <1>2 DEF IInv, TypeOK, ChainInv, sessionVars
<1> QED BY <1>2, <1>3, <1>4, <1>5, <1>6, CallbackKeeps

\* The answer to a login gives the client the session of its link.
LEMMA LoginStep == IInv /\ OnRspUserLogin => IInv'
<1> SUFFICES ASSUME IInv, OnRspUserLogin PROVE IInv'
  OBVIOUS
<1>1. TypeOK /\ NumberInv
  BY DEF IInv
<1>2. Confirmed("login") /\ Request("settlement") /\ KeepSession
  BY DEF OnRspUserLogin, reqSettlementInfoConfirm
<1>3. /\ "login" \in Steps /\ "settlement" \in Steps
      /\ Before("settlement") = {"login"} /\ Before("login") = {}
  BY BeforeSteps DEF Steps
<1>4. /\ Deliver("login") /\ ~trading
      /\ confirmed' = confirmed \cup {"login"}
      /\ confirmed \subseteq confirmed' /\ confirmed' \subseteq Steps
      /\ Before("settlement") \subseteq confirmed'
      /\ hasty' \in BOOLEAN /\ hasty' = hasty /\ death' = death
      /\ Head(events).on \in 0 .. drops
      /\ link = "down" => Head(events).on # drops
      /\ ~hasty => \/ Head(events).on = drops /\ "login" \in granted
                   \/ Head(events).on # drops /\ "login" \notin granted \cup Range(requests)
  BY <1>2, <1>3, ConfirmedSound
<1>5. ~hasty' => MayAsk("settlement")
  BY <1>3, <1>4 DEF MayAsk
<1>6. /\ session_id' \in 0 .. Session(drops) /\ session_id' # 0
      /\ session_id' = Session(drops) => Head(events).on = drops
  <2>1. drops \in Nat /\ session_id' = Head(events).on + 1 /\ Session(drops) = drops + 1
    BY <1>1, <1>2, SessionNumbers DEF KeepSession, Session
  <2> QED BY <1>4, <2>1
<1>7. session_id' = Session(drops) => link # "down" /\ (~hasty' => "login" \in granted)
  BY <1>4, <1>6
<1>8. /\ loginFlag' \in BOOLEAN /\ order_ref' \in {0, MaxOrderRef} /\ order_ref' # 0
      /\ trading' = FALSE /\ death' \in {"none", "out_of_range", "null record"}
  <2>1. loginFlag' = TRUE /\ order_ref' = MaxOrderRef /\ trading' = trading
    BY <1>2 DEF KeepSession
  <2>2. trading = FALSE /\ death \in {"none", "out_of_range", "null record"}
    BY <1>1, <1>4 DEF TypeOK
  <2>3. death' = death
    BY <1>4
  <2>4. MaxOrderRef # 0
    BY DEF MaxOrderRef
  <2> QED BY <2>1, <2>2, <2>3, <2>4
<1> QED BY <1>2, <1>3, <1>4, <1>5, <1>6, <1>7, <1>8, CallbackKeeps

\* The answer to the last query enters the strategy.  If the session is that of
\* the present link then a login has been granted there, so the answer is not of
\* an earlier one.
LEMMA LastStep == IInv /\ OnRspQryInvestorPosition => IInv'
<1> SUFFICES ASSUME IInv, OnRspQryInvestorPosition PROVE IInv'
  OBVIOUS
<1>1. TypeOK /\ NumberInv
  BY DEF IInv
<1>2. Confirmed("position") /\ NoRequest /\ trading' = loginFlag /\ UNCHANGED sessionVars
  BY DEF OnRspQryInvestorPosition
<1>3. /\ "login" \in Steps /\ "position" \in Steps
      /\ Before("position") \cup {"position"} = Steps
  BY BeforeSteps DEF Steps
<1>4. /\ Deliver("position") /\ ~trading
      /\ confirmed' = confirmed \cup {"position"}
      /\ confirmed \subseteq confirmed' /\ confirmed' \subseteq Steps /\ Steps \subseteq confirmed'
      /\ hasty' \in BOOLEAN /\ hasty' = hasty /\ death' = death
      /\ ~hasty => Steps \subseteq granted \/ "login" \notin granted
  BY <1>2, <1>3, ConfirmedSound
<1>5. session_id' \in 0 .. Session(drops) /\ session_id' = session_id
  BY <1>1, <1>2, SessionNumbers DEF sessionVars
<1>6. session_id' = Session(drops) => link # "down" /\ (~hasty' => "login" \in granted)
  BY <1>4, <1>5 DEF IInv, NumberInv, LinkInv
<1>7. session_id' = Session(drops) /\ ~hasty' => Steps \subseteq granted
  BY <1>4, <1>6
<1>8. /\ loginFlag' \in BOOLEAN /\ order_ref' \in {0, MaxOrderRef} /\ trading' \in BOOLEAN
      /\ "login" \in confirmed' => order_ref' # 0 /\ session_id' # 0
      /\ death' \in {"none", "out_of_range", "null record"}
  BY <1>2, <1>4 DEF IInv, TypeOK, ChainInv, sessionVars
<1> QED BY <1>2, <1>3, <1>4, <1>5, <1>6, <1>7, <1>8, CallbackKeeps

\* Every callback keeps the invariant.
LEMMA CallbackStep == IInv /\ Callback => IInv'
<1> SUFFICES ASSUME IInv, Callback PROVE IInv'
  OBVIOUS
<1>0. hasty \in BOOLEAN /\ death \in {"none", "out_of_range", "null record"}
  BY DEF IInv, TypeOK
<1>1. CASE OnFrontConnected
  <2>1. /\ Deliver("connected") /\ Request("login")
        /\ UNCHANGED <<sessionVars, confirmed, trading, death>>
        /\ hasty' = (hasty \/ Disconnected \in Range(events'))
    BY <1>1 DEF OnFrontConnected, reqUserLogin, clientVars, sessionVars
  <2>2. hasty' \in BOOLEAN /\ (hasty => hasty') /\ (~hasty' => MayAsk("login"))
    BY <1>0, <2>1 DEF MayAsk
  <2> QED BY <1>0, <2>1, <2>2, QuietCallback
<1>2. CASE OnFrontDisconnected
  BY <1>0, <1>2, QuietCallback DEF OnFrontDisconnected, clientVars, sessionVars
<1>3. CASE OnError
  BY <1>0, <1>3, QuietCallback DEF OnError, clientVars, sessionVars
<1>4. CASE OnRspSettlementInfoConfirm
  BY <1>4, NextStep, BeforeSteps DEF OnRspSettlementInfoConfirm, reqQueryInstrument, Steps
<1>5. CASE OnRspQryInstrument
  BY <1>5, NextStep, BeforeSteps DEF OnRspQryInstrument, reqQueryTradingAccount, Steps
<1>6. CASE OnRspQryTradingAccount
  BY <1>6, NextStep, BeforeSteps DEF OnRspQryTradingAccount, reqQueryInvestorPosition, Steps
<1>7. ASSUME NEW query, NullRecord(query) PROVE IInv'
  BY <1>0, <1>7, QuietCallback DEF NullRecord, sessionVars
<1> QED BY <1>1, <1>2, <1>3, <1>4, <1>5, <1>6, <1>7, LoginStep, LastStep
        DEF Callback, OnRspQryInstrumentNull, OnRspQryTradingAccountNull

-----------------------------------------------------------------------------
(* The other steps. *)

\* The first state satisfies the invariant.
LEMMA InitInv == Init => IInv
<1> SUFFICES ASSUME Init PROVE IInv
  OBVIOUS
<1>1. << >> \in Seq(Requests) /\ << >> \in Seq(Events \cup {})
  BY EmptySeq
<1>2. drops \in 0 .. MaxDrops /\ MaxDrops \in Nat /\ drops = 0
  BY FrontAssumption DEF Init, FrontInit, FrontAssumption
<1>3. FrontTypeOK({})
  BY <1>1, <1>2 DEF Init, FrontInit, FrontTypeOK
<1>4. /\ session_id \in 0 .. Session(MaxDrops) /\ session_id <= Session(drops)
      /\ session_id # Session(drops)
  BY <1>2 DEF Init, Session
<1>5. TypeOK
  BY <1>3, <1>4 DEF Init, TypeOK
<1>6. Range(requests) = {} /\ Range(events) = {} /\ confirmed = {} /\ trading = FALSE
  BY EmptyRange DEF Init, FrontInit
<1>7. Covered(events, drops) /\ Due(requests, granted)
  <2>1. DOMAIN events = {} /\ DOMAIN requests = {}
    BY DEF Init, FrontInit
  <2> QED BY <2>1 DEF Covered, Due
<1> QED BY <1>4, <1>5, <1>6, <1>7
        DEF IInv, ChainInv, NumberInv, LinkInv, NewsInv, GrantInv, StrategyAfterChain,
            SettledOnItsLink

\* A link that comes up is one on which nothing has been asked for, granted or
\* answered.
LEMMA LinkUpStep == IInv /\ LinkUp /\ LinkChanges => IInv'
<1> SUFFICES ASSUME IInv, LinkUp, LinkChanges PROVE IInv'
  OBVIOUS
<1>0. /\ TypeOK /\ ChainInv /\ NumberInv /\ events \in Seq(Events) /\ FrontTypeOK({})
      /\ UNCHANGED <<clientVars, granted, requests, drops>> /\ hasty' = FALSE
      /\ link = "down" /\ link' = "up"
  BY Queues DEF IInv, LinkUp, LinkChanges
<1>1. /\ FrontTypeOK({})' /\ Range(events') = Range(events) \cup {Connected}
      /\ Connected.of \notin Steps /\ Connected \in Events
  BY <1>0, LinkUpSound DEF Connected, Steps, Events
<1>2. TypeOK'
  BY <1>0, <1>1 DEF TypeOK, clientVars
<1>3. ChainInv' /\ StrategyAfterChain'
  BY <1>0, <1>1 DEF IInv, ChainInv, StrategyAfterChain, clientVars
<1>4. granted = {} /\ requests = << >> /\ Range(requests) = {} /\ DOMAIN requests = {}
  BY <1>0, EmptyRange DEF FrontTypeOK
<1>5. Covered(Append(events, Connected), drops)
  <2>1. /\ Append(events, Connected) \in Seq(Events)
        /\ Len(Append(events, Connected)) = Len(events) + 1 /\ Len(events) \in Nat
        /\ Append(events, Connected)[Len(events) + 1] = Connected
        /\ \A i \in 1 .. Len(events) : Append(events, Connected)[i] = events[i]
    BY <1>0, <1>1, AppendProperties, LenProperties
  <2>2. \A i \in 1 .. Len(events) + 1 : Len(events) < i => i = Len(events) + 1
    BY <2>1
  <2>3. \A i \in 1 .. Len(Append(events, Connected)) :
          Len(events) < i /\ Append(events, Connected)[i].of \in Steps
            => Append(events, Connected)[i].on = drops
    BY <1>1, <2>1, <2>2
  <2>4. Len(events) <= Len(Append(events, Connected))
    BY <2>1
  <2> QED BY <1>0, <2>1, <2>3, <2>4, CoveredGrown DEF NumberInv
<1>6. NumberInv'
  BY <1>0, <1>1, <1>5 DEF NumberInv, clientVars, LinkUp
<1>7. Due(requests, granted) /\ session_id # Session(drops)
  BY <1>0, <1>4 DEF Due, NumberInv
<1>8. Due(requests, granted)' /\ session_id' # Session(drops')
  BY <1>0, <1>7 DEF clientVars
<1>9. NewsInv' /\ GrantInv'
  BY <1>0, <1>1, <1>4 DEF NewsInv, GrantInv, NumberInv
<1>10. LinkInv'
  BY <1>8, <1>9 DEF LinkInv
<1>11. SettledOnItsLink'
  BY <1>8 DEF SettledOnItsLink
<1> QED BY <1>2, <1>3, <1>6, <1>10, <1>11 DEF IInv

\* When a link breaks every answer under way is of an earlier link, and the news
\* is put behind it.
LEMMA LinkDownStep == IInv /\ LinkDown /\ LinkChanges => IInv'
<1> SUFFICES ASSUME IInv, LinkDown, LinkChanges PROVE IInv'
  OBVIOUS
<1>0. /\ TypeOK /\ ChainInv /\ NumberInv /\ events \in Seq(Events) /\ FrontTypeOK({})
      /\ UNCHANGED clientVars /\ hasty' = FALSE
      /\ events' = Append(events, Disconnected) /\ requests' = << >>
  BY Queues DEF IInv, LinkDown, LinkChanges
<1>1. /\ FrontTypeOK({})' /\ Range(events') = Range(events) \cup {Disconnected}
      /\ Range(requests') = {} /\ granted' = {} /\ drops' = drops + 1
      /\ Disconnected.of \notin Steps /\ Disconnected \in Events
  BY <1>0, FrontAssumption, LinkDownSound DEF Disconnected, Steps, Events
<1>2. TypeOK'
  BY <1>0, <1>1 DEF TypeOK, clientVars
<1>3. ChainInv' /\ StrategyAfterChain'
  BY <1>0, <1>1 DEF IInv, ChainInv, StrategyAfterChain, clientVars
<1>4. session_id' <= Session(drops') /\ session_id' # Session(drops')
  <2>1. /\ drops \in Nat /\ session_id \in 0 .. (drops + 1) /\ session_id' = session_id
        /\ Session(drops') = (drops + 1) + 1
    BY <1>0, <1>1, SessionNumbers DEF clientVars, Session
  <2> QED BY <2>1
<1>5. ASSUME NEW e \in Range(events'), e.of \in Steps
      PROVE  e.on <= drops' /\ e.on # drops'
  <2>1. e \in Range(events) /\ e \in Events
    BY <1>0, <1>1, <1>5, RangeType
  <2>2. e.on <= drops /\ e.on \in 0 .. MaxDrops
    BY <1>0, <1>5, <2>1, StepAnswer DEF NumberInv
  <2>3. MaxDrops \in Nat /\ drops \in Nat
    BY <1>0, SessionNumbers
  <2> QED BY <1>1, <2>2, <2>3
<1>6. Covered(events', drops')
  BY <1>0, <1>1, CoveredByNews
<1>7. NumberInv'
  BY <1>4, <1>5, <1>6 DEF NumberInv
<1>8. Due(requests', granted')
  <2>1. DOMAIN requests' = {}
    BY <1>0
  <2> QED BY <2>1 DEF Due
<1>9. NewsInv' /\ GrantInv'
  BY <1>1, <1>5 DEF NewsInv, GrantInv
<1>10. LinkInv'
  BY <1>4, <1>8, <1>9 DEF LinkInv
<1>11. SettledOnItsLink'
  BY <1>4 DEF SettledOnItsLink
<1> QED BY <1>2, <1>3, <1>7, <1>10, <1>11 DEF IInv

\* An answer keeps it: it is granted only if the steps before it were granted on
\* the same link, for one without them lacks the login.
LEMMA AnswerStep == IInv /\ FrontAnswers => IInv'
<1> SUFFICES ASSUME IInv, FrontAnswers PROVE IInv'
  OBVIOUS
<1>0. /\ TypeOK /\ ChainInv /\ NumberInv /\ UNCHANGED <<clientVars, hasty, drops, link>>
      /\ events \in Seq(Events) /\ requests \in Seq(Requests) /\ FrontTypeOK({})
      /\ drops \in 0 .. MaxDrops
  BY Queues DEF IInv, FrontAnswers, AnswerRequest, TypeOK, FrontTypeOK
<1>1. PICK ok \in BOOLEAN : AnswerRequest(ok)
  BY DEF FrontAnswers
<1> DEFINE kind == Head(requests)
<1>2. /\ FrontTypeOK({})' /\ requests # << >> /\ kind \in Requests
      /\ Range(requests) = {kind} \cup Range(requests') /\ requests' = Tail(requests)
      /\ ok => Needs[kind] \subseteq granted
      /\ granted' = IF ok THEN granted \cup {kind} ELSE granted
  BY <1>0, <1>1, FrontAssumption, AnswerRequestSound DEF AnswerRequest
<1>3. PICK a \in Answers(kind, ok) : events' = events \o a
  BY <1>1 DEF AnswerRequest
<1>4. /\ a \in Seq(Events)
      /\ \A e \in Range(a) : e.of = kind /\ e.ok = ok /\ e.on = drops
  BY <1>0, <1>2, FrontAssumption, AnswersSound
<1>5. /\ kind \in Steps
      /\ kind # "login" => "login" \in Needs[kind]
  BY <1>2, TradeAssumption DEF TradeAssumption
<1> HIDE DEF kind
<1>6. /\ Range(events') = Range(events) \cup Range(a) /\ events' \in Seq(Events)
      /\ Disconnected \notin Range(a)
  <2>1. Range(events \o a) = Range(events) \cup Range(a) /\ events \o a \in Seq(Events)
    BY <1>0, <1>4, ConcatRange, ConcatProperties
  <2>2. Disconnected \notin Range(a)
    BY <1>4, <1>5 DEF Disconnected, Steps
  <2> QED BY <1>3, <2>1, <2>2
<1>7. TypeOK'
  BY <1>0, <1>2 DEF TypeOK, clientVars
<1>8. ChainInv' /\ StrategyAfterChain'
  BY <1>0, <1>2, <1>4, <1>6 DEF IInv, ChainInv, StrategyAfterChain, clientVars
<1>9. Covered(events', drops)
  <2>1. /\ Len(events') = Len(events) + Len(a) /\ Len(events) \in Nat /\ Len(a) \in Nat
        /\ \A i \in 1 .. Len(events) + Len(a) :
             events'[i] = IF i <= Len(events) THEN events[i] ELSE a[i - Len(events)]
        /\ DOMAIN a = 1 .. Len(a)
    BY <1>0, <1>3, <1>4, ConcatProperties, LenProperties
  <2>2. Len(events) <= Len(events') /\ \A i \in 1 .. Len(events) : events'[i] = events[i]
    BY <2>1
  <2>3. ASSUME NEW i \in 1 .. Len(events'), Len(events) < i PROVE events'[i].on = drops
    <3>1. i - Len(events) \in DOMAIN a /\ events'[i] = a[i - Len(events)]
      BY <2>1, <2>3
    <3> QED BY <1>4, <3>1 DEF Range
  <2> QED BY <1>0, <1>6, <2>2, <2>3, CoveredGrown DEF NumberInv
<1>10. NumberInv'
  <2>1. link # "down" /\ drops <= drops
    <3>1. drops \in Nat
      BY <1>0, SessionNumbers
    <3> QED BY <1>0, <1>2, <3>1 DEF FrontTypeOK
  <2> QED BY <1>0, <1>4, <1>6, <1>9, <2>1 DEF NumberInv, clientVars
<1>11. ASSUME ~hasty
       PROVE  /\ Due(requests', granted') /\ NewsInv' /\ GrantInv'
              /\ session_id = Session(drops) => "login" \in granted'
  <2>1. /\ Due(requests, granted) /\ NewsInv /\ GrantInv
        /\ session_id = Session(drops) => "login" \in granted
    BY <1>11 DEF IInv, LinkInv
  <2>2. granted' = granted \/ granted' = granted \cup {kind}
    BY <1>2
  <2>3. /\ Before(kind) \subseteq granted \/ ("login" \notin granted /\ kind # "login")
        /\ Due(requests', granted')
    BY <1>0, <1>2, <2>1, <2>2, DueTail DEF kind
  <2>4. ok => Before(kind) \cup {kind} \subseteq granted'
    BY <1>2, <1>5, <2>3
  <2>5. NewsInv'
    BY <1>2, <1>6, <2>1 DEF NewsInv
  <2>6. GrantInv'
    <3>1. ASSUME NEW e \in Range(events'), e.of \in Steps, e.ok, e.on = drops'
          PROVE  Before(e.of) \cup {e.of} \subseteq granted'
      <4>1. CASE e \in Range(events)
        BY <1>0, <2>1, <2>2, <3>1, <4>1 DEF GrantInv
      <4>2. CASE e \in Range(a)
        BY <1>4, <2>4, <3>1, <4>2
      <4> QED BY <1>6, <4>1, <4>2
    <3> QED BY <3>1 DEF GrantInv
  <2> QED BY <2>1, <2>2, <2>3, <2>5, <2>6
<1>12. LinkInv'
  BY <1>0, <1>11 DEF LinkInv, clientVars
<1>13. SettledOnItsLink'
  BY <1>0, <1>2 DEF IInv, SettledOnItsLink, clientVars
<1> QED BY <1>7, <1>8, <1>10, <1>12, <1>13 DEF IInv

\* What does not touch the two queues, the link or the client's progress keeps it.
LEMMA OtherStep ==
  ASSUME IInv, UNCHANGED <<frontVars, sessionVars, confirmed, hasty, trading>>,
         death' \in {"none", "out_of_range", "null record"}
  PROVE  IInv'
<1>1. TypeOK'
  BY DEF IInv, TypeOK, FrontTypeOK, frontVars, sessionVars
<1>2. ChainInv' /\ StrategyAfterChain' /\ SettledOnItsLink'
  BY DEF IInv, ChainInv, StrategyAfterChain, SettledOnItsLink, frontVars, sessionVars
<1>3. NumberInv' /\ LinkInv'
  BY DEF IInv, NumberInv, LinkInv, NewsInv, GrantInv, frontVars, sessionVars
<1> QED BY <1>1, <1>2, <1>3 DEF IInv

\* Every step keeps the invariant.
LEMMA InvariantStep == IInv /\ [Next]_vars => IInv'
<1> SUFFICES ASSUME IInv, [Next]_vars PROVE IInv'
  OBVIOUS
<1>1. CASE LinkChanges
  BY <1>1, LinkUpStep, LinkDownStep DEF LinkChanges
<1>2. CASE StrategyThrows
  BY <1>2, OtherStep DEF StrategyThrows
<1>3. CASE UNCHANGED vars
  BY <1>3, OtherStep DEF vars, clientVars, sessionVars, IInv, TypeOK
<1> QED BY <1>1, <1>2, <1>3, AnswerStep, CallbackStep DEF Next

-----------------------------------------------------------------------------
(* The theorems. *)

\* IInv is an inductive invariant of the specification.
THEOREM Invariant == Spec => []IInv
BY InitInv, InvariantStep, PTL DEF Spec, SafeSpec

\* The variables keep their types.
THEOREM TypeCorrect == Spec => []TypeOK
BY Invariant, PTL DEF IInv

\* The strategy is entered only when the whole chain of requests has been
\* answered without error (CustomTradeSpi.cpp:27-175).
THEOREM ChainBeforeStrategy == Spec => []StrategyAfterChain
BY Invariant, PTL DEF IInv

\* A strategy whose session is that of the present link has all five steps behind
\* it there, whatever came late, unless the login was asked for upon the news of
\* a link that had already broken (CustomTradeSpi.cpp:27-175).
THEOREM SettledThere == Spec => []SettledOnItsLink
BY Invariant, PTL DEF IInv
=============================================================================
