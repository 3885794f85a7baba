----------------------------- MODULE MdSession -----------------------------
(***************************************************************************)
(* CustomMdSpi from the connection to the thread pool: every step to the   *)
(* subscription is made in the callback that answers the one before        *)
(* (CustomMdSpi.cpp:20-22), and every tick of the subscription is handed   *)
(* to the pool.  The pool is TaskPool; what its task does with a tick is   *)
(* in MdPipeline, and so is the end of the process, which the library's    *)
(* thread does not bring about while it reconnects.                        *)
(***************************************************************************)
EXTENDS CtpFront, FiniteSets, Functions

CONSTANTS
  MaxTicks,  \* bound on the ticks the front sends
  PoolSize   \* threads of the global pool (5 in the code)

ASSUME MdAssumption ==
  /\ MaxTicks \in Nat /\ PoolSize \in Nat \ {0}
  /\ Requests = {"login", "subscribe"}
  /\ Needs["login"] = {} /\ "subscribe" \notin Needs["subscribe"]

VARIABLES
  sent,                              \* how many ticks the front has sent
  pending, active, finished, phase   \* the pool, see TaskPool

poolVars == <<pending, active, finished, phase>>
vars == <<frontVars, sent, poolVars>>

Ticks == 1 .. MaxTicks

Pool == INSTANCE TaskPool WITH Tasks <- Ticks, Limit <- PoolSize

TickNote(t) == [of |-> "tick", ok |-> TRUE, tick |-> t]

Init == FrontInit /\ sent = 0 /\ Pool!Init

-----------------------------------------------------------------------------
(* The front. *)

\* The front sends the next tick to a client that has subscribed.
PushTick ==
  /\ "subscribe" \in granted /\ sent < MaxTicks
  /\ sent' = sent + 1
  /\ Notify(TickNote(sent + 1))
  /\ UNCHANGED poolVars

Front ==
  /\ LinkUp \/ LinkDown \/ \E ok \in BOOLEAN : AnswerRequest(ok)
  /\ UNCHANGED <<sent, poolVars>>

-----------------------------------------------------------------------------
(* The callbacks, each the whole handler. *)

\* The library makes the next callback.
Deliver(kind) ==
  /\ events # << >> /\ Head(events).of = kind
  /\ events' = Tail(events)
  /\ UNCHANGED <<link, granted, drops, sent>>

\* Seeded fault: logging in is done once and for all.
OnFrontConnectedOnce ==
  /\ Deliver("connected")
  /\ IF drops = 0 THEN Request("login") ELSE UNCHANGED <<requests, failed>>
  /\ UNCHANGED poolVars

\* Seeded fault: the login is taken to be on its way whatever the call returned.
OnFrontConnectedBlind ==
  /\ Deliver("connected")
  /\ requests' = Append(requests, "login")
  /\ UNCHANGED <<failed, poolVars>>

OnFrontConnected ==
  /\ Deliver("connected")
  /\ Request("login")
  /\ UNCHANGED poolVars

OnFrontDisconnected ==
  /\ Deliver("disconnected")
  /\ UNCHANGED <<requests, failed, poolVars>>

OnRspUserLogin ==
  /\ Deliver("login")
  /\ IF Head(events).ok THEN Request("subscribe") ELSE UNCHANGED <<requests, failed>>
  /\ UNCHANGED poolVars

OnRspSubMarketData ==
  /\ Deliver("subscribe")
  /\ UNCHANGED <<requests, failed, poolVars>>

\* Seeded fault: ticks of a link that is gone are left aside.
OnRtnDepthMarketDataOfLink ==
  /\ Deliver("tick")
  /\ IF link = "up" THEN Pool!Submit(Head(events).tick) ELSE UNCHANGED poolVars
  /\ UNCHANGED <<requests, failed>>

OnRtnDepthMarketData ==
  /\ Deliver("tick")
  /\ Pool!Submit(Head(events).tick)
  /\ UNCHANGED <<requests, failed>>

Callback ==
  \/ OnFrontConnected
  \/ OnFrontDisconnected
  \/ OnRspUserLogin
  \/ OnRspSubMarketData
  \/ OnRtnDepthMarketData

-----------------------------------------------------------------------------
(* The workers of the pool. *)

Start == Pool!Start /\ UNCHANGED <<frontVars, sent>>

Finish(t) == Pool!Finish(t) /\ UNCHANGED <<frontVars, sent>>

Next ==
  \/ Front
  \/ PushTick
  \/ Callback
  \/ Start
  \/ \E t \in Ticks : Finish(t)

(***************************************************************************)
(* The library reconnects and makes its callbacks, the front answers, the  *)
(* workers run.  The link need not break, and no tick need come.           *)
(***************************************************************************)
Fairness ==
  /\ WF_vars(LinkUp /\ Front)
  /\ WF_vars(\E ok \in BOOLEAN : AnswerRequest(ok) /\ Front)
  /\ WF_vars(Callback)
  /\ WF_vars(Start)
  /\ \A t \in Ticks : WF_vars(Finish(t))

SafeSpec == Init /\ [][Next]_vars

Spec == SafeSpec /\ Fairness

-----------------------------------------------------------------------------
(* Properties *)

\* What the front, the library and the pool hold has its type.
TypeOK ==
  /\ FrontTypeOK({TickNote(t) : t \in Ticks})
  /\ sent \in 0 .. MaxTicks
  /\ Pool!TypeOK

\* A link that is up without the subscription, and on which no request has
\* failed, has something under way that will lead to it: the callback that
\* announces the link, a login, or a subscription that the login comes before.
\* Callbacks of earlier links, delivered late, may add requests but never
\* replace these (CustomMdSpi.cpp:23-38, 55-78).
NeverStuck ==
  link = "up" /\ ~failed /\ "subscribe" \notin granted =>
    \/ Connected \in Range(events)
    \/ "login" \in Range(requests)
    \/ /\ "login" \in granted
       /\ \/ \E e \in Range(events) : e.of = "login" /\ e.ok
          \/ "subscribe" \in Range(requests)

\* The ticks in the queue of callbacks.
Undelivered == {e.tick : e \in {f \in Range(events) : f.of = "tick"}}

\* However often the link breaks between a tick and its callback, every tick the
\* front has sent is in one place, and in order: the latest in the queue of
\* callbacks, those before them in the pool's queue, all older ones with a
\* worker or done (CustomMdSpi.cpp:173-228).
TicksInOrder ==
  /\ 1 .. sent = active \cup finished \cup Range(pending) \cup Undelivered
  /\ active \cap finished = {}
  /\ \A t \in active \cup finished : \A u \in Range(pending) : t < u
  /\ \A t \in active \cup finished \cup Range(pending) : \A u \in Undelivered : t < u
  /\ \A i, j \in DOMAIN pending : i < j => pending[i] < pending[j]
  /\ \A i, j \in DOMAIN events :
       i < j /\ events[i].of = "tick" /\ events[j].of = "tick" => events[i].tick < events[j].tick

\* When the link has come up for the last time the client ends subscribed,
\* unless a request has failed on it: the client makes none again
\* (CustomMdSpi.cpp:33-37, 70-74), and it is the next link that helps.
EndsSubscribed == <>[]("subscribe" \in granted \/ failed)

\* Every tick the front has sent is worked on to the end, whatever happens to
\* the link on which it came.
TicksTaken == \A t \in Ticks : sent >= t ~> t \in finished
=============================================================================
