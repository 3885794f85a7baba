--------------------------- MODULE CtpFrontProofs ---------------------------
(***************************************************************************)
(* Lemmas about the front and the library, for the proofs about the two    *)
(* sessions: what each step adds to the requests and the callbacks under   *)
(* way, and that it keeps their types.                                     *)
(***************************************************************************)
EXTENDS CtpFront, Functions, SequenceTheorems, TLAPS

-----------------------------------------------------------------------------
(* What a queue holds. *)

\* A queue with an element added holds that one besides.
LEMMA AppendRange ==
  ASSUME NEW S, NEW q \in Seq(S), NEW x \in S
  PROVE  Range(Append(q, x)) = Range(q) \cup {x}
BY AppendProperties, LenProperties DEF Range

\* Two queues one after the other hold what each of them holds.
LEMMA ConcatRange ==
  ASSUME NEW S, NEW q \in Seq(S), NEW r \in Seq(S)
  PROVE  Range(q \o r) = Range(q) \cup Range(r)
<1>1. /\ q \o r \in Seq(S) /\ Len(q \o r) = Len(q) + Len(r)
      /\ \A i \in 1 .. Len(q) + Len(r) :
           (q \o r)[i] = IF i <= Len(q) THEN q[i] ELSE r[i - Len(q)]
  BY ConcatProperties
<1>2. Len(q) \in Nat /\ Len(r) \in Nat
  BY LenProperties
<1>3. DOMAIN q = 1 .. Len(q) /\ DOMAIN r = 1 .. Len(r) /\ DOMAIN (q \o r) = 1 .. Len(q) + Len(r)
  BY <1>1, LenProperties
<1>4. ASSUME NEW x \in Range(q \o r) PROVE x \in Range(q) \cup Range(r)
  <2>1. PICK i \in 1 .. Len(q) + Len(r) : x = (q \o r)[i]
    BY <1>3 DEF Range
  <2>2. CASE i <= Len(q)
    BY <1>1, <1>2, <1>3, <2>1, <2>2 DEF Range
  <2>3. CASE ~(i <= Len(q))
    <3>1. i - Len(q) \in 1 .. Len(r) /\ x = r[i - Len(q)]
      BY <1>1, <1>2, <2>1, <2>3
    <3> QED BY <1>3, <3>1 DEF Range
  <2> QED BY <2>2, <2>3
<1>5. ASSUME NEW x \in Range(q) PROVE x \in Range(q \o r)
  <2>1. PICK i \in 1 .. Len(q) : x = q[i]
    BY <1>3 DEF Range
  <2>2. i \in 1 .. Len(q) + Len(r) /\ (q \o r)[i] = x
    BY <1>1, <1>2, <2>1
  <2> QED BY <1>3, <2>2 DEF Range
<1>6. ASSUME NEW x \in Range(r) PROVE x \in Range(q \o r)
  <2>1. PICK i \in 1 .. Len(r) : x = r[i]
    BY <1>3 DEF Range
  <2>2. Len(q) + i \in 1 .. Len(q) + Len(r) /\ (q \o r)[Len(q) + i] = x
    BY <1>1, <1>2, <2>1
  <2> QED BY <1>3, <2>2 DEF Range
<1> QED BY <1>4, <1>5, <1>6

\* A queue that is not empty holds its front and what is behind it.
LEMMA HeadRange ==
  ASSUME NEW S, NEW q \in Seq(S), q # << >>
  PROVE  /\ Head(q) \in S /\ Head(q) \in Range(q)
         /\ Tail(q) \in Seq(S) /\ Range(Tail(q)) \subseteq Range(q)
         /\ Range(q) = {Head(q)} \cup Range(Tail(q))
<1>1. /\ Head(q) \in S /\ Tail(q) \in Seq(S) /\ Len(Tail(q)) = Len(q) - 1
      /\ \A i \in 1 .. Len(Tail(q)) : Tail(q)[i] = q[i + 1]
  BY HeadTailProperties
<1>2. Len(q) \in Nat \ {0} /\ DOMAIN q = 1 .. Len(q) /\ DOMAIN Tail(q) = 1 .. Len(q) - 1
  BY <1>1, EmptySeq, LenProperties
<1>3. Head(q) = q[1] /\ 1 \in DOMAIN q
  BY <1>2
<1>4. Range(Tail(q)) \subseteq Range(q)
  BY <1>1, <1>2 DEF Range
<1>5. ASSUME NEW x \in Range(q) PROVE x \in {Head(q)} \cup Range(Tail(q))
  <2>1. PICK i \in DOMAIN q : x = q[i]
    BY DEF Range
  <2>2. CASE i = 1
    BY <1>3, <2>1, <2>2
  <2>3. CASE i # 1
    <3>1. i - 1 \in DOMAIN Tail(q) /\ Tail(q)[i - 1] = x
      BY <1>1, <1>2, <2>1, <2>3
    <3> QED BY <3>1 DEF Range
  <2> QED BY <2>2, <2>3
<1> QED BY <1>1, <1>3, <1>4, <1>5 DEF Range

\* An empty queue holds nothing.
LEMMA EmptyRange == Range(<< >>) = {}
BY DEF Range

\* What a queue holds is of its type.
LEMMA RangeType ==
  ASSUME NEW S, NEW q \in Seq(S)
  PROVE  Range(q) \subseteq S
BY ElementOfSeq, LenProperties DEF Range

-----------------------------------------------------------------------------
(* The steps of the front and the library. *)

\* What comes back for a request is about that request, one callback at least,
\* and bears the number of the link.
LEMMA AnswersSound ==
  ASSUME FrontAssumption, drops \in 0 .. MaxDrops,
         NEW kind \in Requests, NEW ok \in BOOLEAN, NEW a \in Answers(kind, ok)
  PROVE  /\ a \in Seq(Events) /\ Range(a) # {}
         /\ \A e \in Range(a) : e.of = kind /\ e.ok = ok /\ e.on = drops
<1> DEFINE with(ok1, data) == Answer(kind, ok1, data)
<1>1. ASSUME NEW ok1 \in BOOLEAN, NEW data \in BOOLEAN
      PROVE  /\ with(ok1, data) \in Events
             /\ with(ok1, data).of = kind /\ with(ok1, data).ok = ok1 /\ with(ok1, data).on = drops
  BY DEF Answer, Events
<1>2. ASSUME NEW data \in BOOLEAN, a = <<with(ok, data)>>
      PROVE  /\ a \in Seq(Events) /\ Range(a) # {}
             /\ \A e \in Range(a) : e.of = kind /\ e.ok = ok /\ e.on = drops
  <2>1. with(ok, data) \in Events
    BY <1>1
  <2>2. a \in Seq(Events) /\ DOMAIN a = {1} /\ a[1] = with(ok, data)
    BY <1>2, <2>1
  <2>3. Range(a) = {with(ok, data)}
    BY <2>2 DEF Range
  <2> QED BY <1>1, <2>2, <2>3
<1>3. ASSUME ok = TRUE, kind \in DOMAIN Records,
             NEW n \in 1 .. Records[kind], a = [i \in 1 .. n |-> with(TRUE, TRUE)]
      PROVE  /\ a \in Seq(Events) /\ Range(a) # {}
             /\ \A e \in Range(a) : e.of = kind /\ e.ok = ok /\ e.on = drops
  <2>1. n \in Nat \ {0} /\ with(TRUE, TRUE) \in Events
    <3>1. with(TRUE, TRUE) \in Events
      BY <1>1
    <3>2. Records[kind] \in Nat
      BY <1>3 DEF FrontAssumption
    <3> HIDE DEF with
    <3>3. n \in Nat \ {0}
      BY <3>2
    <3> QED BY <3>1, <3>3
  <2>2. a \in [1 .. n -> Events] /\ DOMAIN a = 1 .. n /\ \A i \in 1 .. n : a[i] = with(TRUE, TRUE)
    <3> HIDE DEF with
    <3> QED BY <1>3, <2>1
  <2>3. a \in Seq(Events)
    <3>1. Seq(Events) = UNION {[1 .. m -> Events] : m \in Nat}
      BY SeqDef
    <3>2. [1 .. n -> Events] \in {[1 .. m -> Events] : m \in Nat}
      BY <2>1, Zenon
    <3> QED BY <2>2, <3>1, <3>2, Zenon
  <2>4. Range(a) = {with(TRUE, TRUE)}
    <3> HIDE DEF with
    <3>1. 1 \in 1 .. n
      BY <2>1
    <3> QED BY <2>2, <3>1 DEF Range
  <2> QED BY <1>1, <1>3, <2>3, <2>4
<1>4. \/ \E data \in BOOLEAN : a = <<with(ok, data)>>
      \/ /\ ok = TRUE /\ kind \in DOMAIN Records
         /\ \E n \in 1 .. Records[kind] : a = [i \in 1 .. n |-> with(TRUE, TRUE)]
  BY DEF Answers
<1> QED BY <1>2, <1>3, <1>4

\* A link that comes up is announced (CustomMdSpi.h:13, CustomTradeSpi.h:13).
LEMMA LinkUpSound ==
  ASSUME NEW CONSTANT notes, FrontTypeOK(notes), LinkUp
  PROVE  /\ FrontTypeOK(notes)'
         /\ Range(events') = Range(events) \cup {Connected}
<1>1. events \in Seq(Events \cup notes) /\ Connected \in Events \cup notes
  BY DEF FrontTypeOK, Events
<1>2. events' \in Seq(Events \cup notes) /\ Range(events') = Range(events) \cup {Connected}
  BY <1>1, AppendProperties, AppendRange DEF LinkUp
<1> QED BY <1>2 DEF FrontTypeOK, LinkUp

\* A link that breaks takes the requests and what was granted with it.
LEMMA LinkDownSound ==
  ASSUME FrontAssumption, NEW CONSTANT notes, FrontTypeOK(notes), LinkDown
  PROVE  /\ FrontTypeOK(notes)'
         /\ Range(events') = Range(events) \cup {Disconnected}
         /\ Range(requests') = {} /\ granted' = {} /\ drops' = drops + 1
<1>1. events \in Seq(Events \cup notes) /\ Disconnected \in Events \cup notes
  BY DEF FrontTypeOK, Events
<1>2. events' \in Seq(Events \cup notes) /\ Range(events') = Range(events) \cup {Disconnected}
  BY <1>1, AppendProperties, AppendRange DEF LinkDown
<1>3. requests' \in Seq(Requests) /\ Range(requests') = {} /\ requests' = << >>
  BY EmptySeq, EmptyRange DEF LinkDown
<1>4. drops' \in 0 .. MaxDrops /\ drops' = drops + 1
  BY DEF FrontTypeOK, LinkDown, FrontAssumption
<1> QED BY <1>2, <1>3, <1>4 DEF FrontTypeOK, LinkDown

\* An answer is about the oldest request, and is granted only in due order.
LEMMA AnswerRequestSound ==
  ASSUME FrontAssumption, NEW CONSTANT notes, FrontTypeOK(notes),
         NEW ok \in BOOLEAN, AnswerRequest(ok)
  PROVE  /\ FrontTypeOK(notes)'
         /\ requests # << >> /\ Head(requests) \in Requests
         /\ Range(requests) = {Head(requests)} \cup Range(requests')
         /\ ok => Needs[Head(requests)] \subseteq granted
         /\ granted' = IF ok THEN granted \cup {Head(requests)} ELSE granted
         /\ \E a \in Seq(Events) :
              /\ Range(a) # {} /\ Range(events') = Range(events) \cup Range(a)
              /\ \A e \in Range(a) : e.of = Head(requests) /\ e.ok = ok /\ e.on = drops
<1>1. /\ Head(requests) \in Requests /\ requests' \in Seq(Requests)
      /\ Range(requests) = {Head(requests)} \cup Range(requests')
  BY HeadRange DEF FrontTypeOK, AnswerRequest
<1>2. PICK a \in Answers(Head(requests), ok) : events' = events \o a
  BY DEF AnswerRequest
<1>3. /\ a \in Seq(Events) /\ Range(a) # {}
      /\ \A e \in Range(a) : e.of = Head(requests) /\ e.ok = ok /\ e.on = drops
  BY <1>1, AnswersSound DEF FrontTypeOK
<1>4. a \in Seq(Events \cup notes)
  BY <1>3, SeqMonotonic
<1>5. events' \in Seq(Events \cup notes) /\ Range(events') = Range(events) \cup Range(a)
  BY <1>2, <1>4, ConcatProperties, ConcatRange DEF FrontTypeOK
<1>6. failed' \in BOOLEAN /\ granted' = IF ok THEN granted \cup {Head(requests)} ELSE granted
  BY DEF AnswerRequest, FrontTypeOK
<1>7. link' = link /\ drops' = drops /\ link # "down"
  BY DEF AnswerRequest, FrontTypeOK
<1>8. FrontTypeOK(notes)'
  BY <1>1, <1>5, <1>6, <1>7 DEF FrontTypeOK
<1> QED BY <1>1, <1>3, <1>5, <1>6, <1>8 DEF AnswerRequest

\* What the front sends unasked is added to the callbacks to be made.
LEMMA NotifySound ==
  ASSUME NEW CONSTANT notes, FrontTypeOK(notes), NEW note \in notes, Notify(note)
  PROVE  FrontTypeOK(notes)' /\ Range(events') = Range(events) \cup {note}
<1>1. events' \in Seq(Events \cup notes) /\ Range(events') = Range(events) \cup {note}
  BY AppendProperties, AppendRange DEF FrontTypeOK, Notify
<1> QED BY <1>1 DEF FrontTypeOK, Notify

\* A request is put behind the others, or not at all, which is a failure if the
\* link is up.
LEMMA RequestSound ==
  ASSUME NEW CONSTANT notes, FrontTypeOK(notes), NEW kind \in Requests, Request(kind)
  PROVE  /\ requests' \in Seq(Requests) /\ failed' \in BOOLEAN
         /\ Range(requests') \subseteq Range(requests) \cup {kind}
         /\ Range(requests) \subseteq Range(requests')
         /\ link = "down" => requests' = requests
         /\ link = "up" => kind \in Range(requests') \/ failed'
<1>1. requests \in Seq(Requests) /\ failed \in BOOLEAN
  BY DEF FrontTypeOK
<1>2. CASE link = "up" /\ requests' = Append(requests, kind) /\ UNCHANGED failed
  <2>1. requests' \in Seq(Requests) /\ Range(requests') = Range(requests) \cup {kind}
    BY <1>1, <1>2, AppendProperties, AppendRange
  <2> QED BY <1>1, <1>2, <2>1
<1>3. CASE UNCHANGED requests /\ failed' = (failed \/ link = "up")
  BY <1>1, <1>3
<1> QED BY <1>2, <1>3 DEF Request
=============================================================================
