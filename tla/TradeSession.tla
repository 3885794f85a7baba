---------------------------- MODULE TradeSession ----------------------------
(***************************************************************************)
(* CustomTradeSpi: login, confirmation of the settlement and three         *)
(* queries, each asked for in the callback that answers the one before,    *)
(* and then the strategy, which runs inside the last of these callbacks,   *)
(* on the library's only thread.                                           *)
(*                                                                         *)
(* This is the program as it is compiled: the code that would fill         *)
(* g_KlineHash is commented out (CustomMdSpi.cpp:230-236), so the strategy *)
(* does not get past looking its instrument up.  What it would do with     *)
(* prices is in Strategy.                                                  *)
(***************************************************************************)
EXTENDS CtpFront, Functions

\* The requests on the way to the strategy.
Steps == {"login", "settlement", "instrument", "account", "position"}

\* The front grants nothing to a client that has not logged in (error.xml:11).
ASSUME TradeAssumption ==
  /\ Requests = Steps
  /\ \A kind \in Steps \ {"login"} : "login" \in Needs[kind]

VARIABLES
  loginFlag,   \* the member; no constructor sets it
  order_ref,   \* the order reference: 0 until a login has given one
  session_id,  \* front and session, globals: 0 until a login has given them
  confirmed,   \* history: the requests whose answer came without error
  hasty,       \* history: whether the client has asked for a login on this link
               \* upon the news of a link that had already broken
  trading,     \* whether the callback thread is in the strategy's loop
  death        \* what has ended the process, or "none"

clientVars == <<loginFlag, order_ref, session_id, confirmed, trading, death>>
vars == <<frontVars, clientVars, hasty>>

\* The session of a link, and the reference that a login gives to a new session,
\* which every session begins with.
Session(n) == n + 1
MaxOrderRef == 1

Init ==
  /\ FrontInit
  /\ loginFlag \in BOOLEAN
  /\ order_ref = 0
  /\ session_id = 0
  /\ confirmed = {}
  /\ hasty = FALSE
  /\ trading = FALSE
  /\ death = "none"

-----------------------------------------------------------------------------
(* The front and the link. *)

LinkChanges ==
  /\ LinkUp \/ LinkDown
  /\ hasty' = FALSE
  /\ UNCHANGED clientVars

FrontAnswers ==
  /\ \E ok \in BOOLEAN : AnswerRequest(ok)
  /\ UNCHANGED <<clientVars, hasty>>

-----------------------------------------------------------------------------
(* The requests. *)

reqUserLogin == Request("login")
reqSettlementInfoConfirm == Request("settlement")
reqQueryInstrument == Request("instrument")
reqQueryTradingAccount == Request("account")
reqQueryInvestorPosition == Request("position")

-----------------------------------------------------------------------------
(* The callbacks. *)

\* The library makes the next callback, if its thread is free.
Deliver(kind) ==
  /\ ~trading /\ death = "none"
  /\ events # << >> /\ Head(events).of = kind
  /\ events' = Tail(events)
  /\ UNCHANGED <<link, granted, drops>>

NoRequest == UNCHANGED <<requests, failed>>

\* What only the answer to a login changes.
sessionVars == <<loginFlag, order_ref, session_id>>

isErrorRspInfo == ~Head(events).ok

\* A callback that finds an error does nothing else.
OnError ==
  /\ events # << >> /\ isErrorRspInfo
  /\ Deliver(Head(events).of)
  /\ NoRequest
  /\ UNCHANGED <<clientVars, hasty>>

\* An answer without error is noted.
Confirmed(answer) ==
  /\ Deliver(answer) /\ ~isErrorRspInfo
  /\ confirmed' = confirmed \cup {answer}
  /\ UNCHANGED <<hasty, death>>

\* Seeded fault: the login is taken to be on its way whatever the call returned.
OnFrontConnectedBlind ==
  /\ Deliver("connected")
  /\ requests' = Append(requests, "login")
  /\ UNCHANGED <<failed, clientVars, hasty>>

\* The link may have broken since; the client does not ask.
OnFrontConnected ==
  /\ Deliver("connected")
  /\ reqUserLogin
  /\ hasty' = (hasty \/ Disconnected \in Range(events'))
  /\ UNCHANGED clientVars

\* Only prints; loginFlag and the session stay as they are.
OnFrontDisconnected ==
  /\ Deliver("disconnected")
  /\ NoRequest
  /\ UNCHANGED <<clientVars, hasty>>

\* The session's parameters are kept.
KeepSession ==
  /\ loginFlag' = TRUE
  /\ session_id' = Session(Head(events).on)
  /\ order_ref' = MaxOrderRef
  /\ UNCHANGED trading

\* Seeded fault: a settlement confirmed on an earlier link is taken to be good.
OnRspUserLoginSettledBefore ==
  /\ Confirmed("login")
  /\ KeepSession
  /\ IF "settlement" \in confirmed THEN reqQueryInstrument ELSE reqSettlementInfoConfirm

OnRspUserLogin ==
  /\ Confirmed("login")
  /\ KeepSession
  /\ reqSettlementInfoConfirm

\* Seeded fault: the error of the answer is not looked at.
OnRspSettlementUnchecked ==
  /\ Deliver("settlement")
  /\ reqQueryInstrument
  /\ confirmed' = confirmed \cup {x \in {"settlement"} : ~isErrorRspInfo}
  /\ UNCHANGED <<sessionVars, hasty, trading, death>>

OnRspSettlementInfoConfirm ==
  /\ Confirmed("settlement")
  /\ reqQueryInstrument
  /\ UNCHANGED <<sessionVars, trading>>

\* Called, and the account asked for, once for each record of the answer.
OnRspQryInstrument ==
  /\ Confirmed("instrument") /\ Head(events).data
  /\ reqQueryTradingAccount
  /\ UNCHANGED <<sessionVars, trading>>

\* An answer without a record is a null pointer, which is printed through.
NullRecord(query) ==
  /\ Deliver(query) /\ ~isErrorRspInfo /\ ~Head(events).data
  /\ death' = "null record"
  /\ NoRequest
  /\ UNCHANGED <<sessionVars, confirmed, hasty, trading>>

OnRspQryInstrumentNull == NullRecord("instrument")

\* Seeded fault: the chain of requests ends here.
OnRspQryTradingAccountLast ==
  /\ Deliver("account") /\ ~isErrorRspInfo
  /\ NoRequest
  /\ UNCHANGED <<clientVars, hasty>>

OnRspQryTradingAccount ==
  /\ Confirmed("account") /\ Head(events).data
  /\ reqQueryInvestorPosition
  /\ UNCHANGED <<sessionVars, trading>>

OnRspQryTradingAccountNull == NullRecord("account")

\* The account may hold no position in the instrument, and the strategy is
\* entered all the same.
OnRspQryInvestorPosition ==
  /\ Confirmed("position")
  /\ trading' = loginFlag
  /\ NoRequest
  /\ UNCHANGED sessionVars

Callback ==
  \/ OnFrontConnected
  \/ OnFrontDisconnected
  \/ OnError
  \/ OnRspUserLogin
  \/ OnRspSettlementInfoConfirm
  \/ OnRspQryInstrument
  \/ OnRspQryInstrumentNull
  \/ OnRspQryTradingAccount
  \/ OnRspQryTradingAccountNull
  \/ OnRspQryInvestorPosition

-----------------------------------------------------------------------------
(* The strategy. *)

\* at() throws for an instrument that is not in the table, which is empty, and
\* nothing catches.
StrategyThrows ==
  /\ trading /\ death = "none"
  /\ death' = "out_of_range"
  /\ UNCHANGED <<frontVars, sessionVars, confirmed, hasty, trading>>

Next ==
  \/ LinkChanges
  \/ FrontAnswers
  \/ Callback
  \/ StrategyThrows

(***************************************************************************)
(* As for the market-data client: the library reconnects and makes its     *)
(* callbacks, and the front answers.                                       *)
(***************************************************************************)
Fairness ==
  WF_vars(LinkUp /\ LinkChanges) /\ WF_vars(FrontAnswers) /\ WF_vars(Callback)

SafeSpec == Init /\ [][Next]_vars

Spec == SafeSpec /\ Fairness

-----------------------------------------------------------------------------
(* Properties *)

\* The variables have their types; what a broken link had is gone.
TypeOK ==
  /\ FrontTypeOK({})
  /\ loginFlag \in BOOLEAN /\ hasty \in BOOLEAN /\ trading \in BOOLEAN
  /\ order_ref \in {0, MaxOrderRef} /\ session_id \in 0 .. Session(MaxDrops)
  /\ confirmed \subseteq Steps
  /\ death \in {"none", "out_of_range", "null record"}

\* The strategy is never entered before the login, the settlement and each of
\* the three queries have been answered without error, although requests are
\* lost, refused and answered late, on another link than the one they were made
\* on; and the order reference and the session have then been given
\* (CustomTradeSpi.cpp:27-175).  The answers need not all be the last link's.
StrategyAfterChain == trading => confirmed = Steps /\ order_ref # 0 /\ session_id # 0

\* A strategy whose session is that of the present link has all five steps
\* behind it on this very link, also when the link is not the first and the
\* account was settled on one before, and although answers of earlier links come
\* late and set off requests on this one; unless the client has logged in on it
\* upon the news of a link that had already broken, for then a chain left over
\* from an earlier link can go on behind that login (CustomTradeSpi.cpp:27-175).
SettledOnItsLink ==
  trading /\ session_id = Session(drops) /\ ~hasty => Steps \subseteq granted

\* The client comes to the strategy, or ends at a query without a record, unless
\* a request has failed on the last link.
ComesToTrade == <>(trading \/ death = "null record") \/ <>[]failed
=============================================================================
