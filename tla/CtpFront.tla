------------------------------ MODULE CtpFront ------------------------------
(***************************************************************************)
(* The CTP library and the front it talks to, as CustomMdSpi.cpp and       *)
(* CustomTradeSpi.cpp use them; the library is a binary that is not part   *)
(* of the source.  Requests reach the front in the order they are made and *)
(* are answered in that order.  The link may break at any time: requests   *)
(* under way and everything the front has granted are then lost, but the   *)
(* callbacks already queued are still delivered, late, on the library's    *)
(* one thread.  The library reconnects by itself.  A request may also fail *)
(* on a link that is up, when it is made or when it is answered.           *)
(***************************************************************************)
EXTENDS Naturals, Sequences

CONSTANTS
  Requests,  \* the kinds of requests the client makes
  Needs,     \* what must have been granted before, for each kind
  Records,   \* bound on the records of the answer, for each query
  MaxDrops   \* bound on how often the link breaks

ASSUME FrontAssumption ==
  /\ Needs \in [Requests -> SUBSET Requests]
  /\ DOMAIN Records \subseteq Requests
  /\ \A query \in DOMAIN Records : Records[query] \in Nat
  /\ MaxDrops \in Nat

VARIABLES
  link,      \* "up" or "down"
  granted,   \* the requests the front has granted since the link came up
  requests,  \* requests on their way to the front
  events,    \* callbacks the library has yet to make
  drops,     \* how often the link has broken; it numbers the links
  failed     \* whether a request that was in order has failed on this link

frontVars == <<link, granted, requests, events, drops, failed>>

Connected == [of |-> "connected", ok |-> TRUE]
Disconnected == [of |-> "disconnected", ok |-> TRUE]

\* The answer to a request: granted or not, with a record in it or not, and the
\* link on which the front gave it.
Answer(kind, ok, data) == [of |-> kind, ok |-> ok, data |-> data, on |-> drops]

Events == {Connected, Disconnected}
            \cup [of : Requests, ok : BOOLEAN, data : BOOLEAN, on : 0 .. MaxDrops]

\* What a broken link had is gone; notes are what the front sends unasked.
FrontTypeOK(notes) ==
  /\ link \in {"up", "down"}
  /\ granted \subseteq Requests
  /\ requests \in Seq(Requests)
  /\ events \in Seq(Events \cup notes)
  /\ drops \in 0 .. MaxDrops
  /\ failed \in BOOLEAN
  /\ link = "down" => granted = {} /\ requests = << >>

FrontInit ==
  /\ link = "down"
  /\ granted = {}
  /\ requests = << >>
  /\ events = << >>
  /\ drops = 0
  /\ failed = FALSE

LinkUp ==
  /\ link = "down"
  /\ link' = "up"
  /\ failed' = FALSE
  /\ events' = Append(events, Connected)
  /\ UNCHANGED <<granted, requests, drops>>

LinkDown ==
  /\ link = "up" /\ drops < MaxDrops
  /\ link' = "down"
  /\ drops' = drops + 1
  /\ granted' = {}
  /\ requests' = << >>
  /\ events' = Append(events, Disconnected)
  /\ UNCHANGED failed

\* What comes back for a request: one callback, or for a query that is granted
\* one for each record and one, without data, when there is none.
Answers(kind, ok) ==
  IF ok /\ kind \in DOMAIN Records
  THEN {<<Answer(kind, TRUE, FALSE)>>}
         \cup {[i \in 1 .. n |-> Answer(kind, TRUE, TRUE)] : n \in 1 .. Records[kind]}
  ELSE {<<Answer(kind, ok, TRUE)>>}

\* The front answers the oldest request; one made out of order it refuses.
AnswerRequest(ok) ==
  /\ requests # << >>
  /\ LET kind == Head(requests)
         due == Needs[kind] \subseteq granted
     IN  /\ ok => due
         /\ granted' = IF ok THEN granted \cup {kind} ELSE granted
         /\ failed' = (failed \/ (due /\ ~ok))
         /\ \E answers \in Answers(kind, ok) : events' = events \o answers
  /\ requests' = Tail(requests)
  /\ UNCHANGED <<link, drops>>

\* The front sends something unasked.
Notify(note) ==
  /\ events' = Append(events, note)
  /\ UNCHANGED <<link, granted, requests, drops, failed>>

\* The client makes a request.  On a broken link, and now and then on a link
\* that is up, the call fails, of which the client only takes note.
Request(kind) ==
  \/ link = "up" /\ requests' = Append(requests, kind) /\ UNCHANGED failed
  \/ UNCHANGED requests /\ failed' = (failed \/ link = "up")
=============================================================================
