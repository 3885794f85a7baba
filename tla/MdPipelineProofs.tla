-------------------------- MODULE MdPipelineProofs --------------------------
(***************************************************************************)
(* The way of a tick to the database, for any number of ticks, of threads  *)
(* and of quotes.  The invariant has a part for each actor: main and the   *)
(* API's thread, the queue with the ticks under way, and the task of each  *)
(* tick with its object, its connection and its row.  What MySQLOperProofs *)
(* says of the class is cited through the refinement, as Class.            *)
(***************************************************************************)
EXTENDS MdPipeline, SequenceTheorems, FiniteSetTheorems, TLAPS

\* What is proved of the class whose objects the tasks use.
Class == INSTANCE MySQLOperProofs WITH
  Objects <- Ticks, MaxConnections <- PoolSize,
  obj <- client, phase <- Life, closed <- Closed, crashed <- Crashed

\* An object without a connection has no database and no rows to fetch.
Sound(c) == Class!Sound(c)

\* main does not stop the pool before the API's thread has ended.
MainInv ==
  /\ main \in {"join", "getchar"} => phase = "open"
  /\ main = "destructor" => phase = "closed"
  /\ main # "join" => api = "ended"

\* Every tick is in one place, and the queue holds the latest, in order.
QueueInv ==
  /\ \A i, j \in DOMAIN pending : i < j => pending[i] < pending[j]
  /\ \A t \in Range(pending) : job[t] = "none"
  /\ Delivered = Range(pending) \cup active \cup finished
  /\ \A t \in Range(pending) : \A u \in active \cup finished : u < t
  /\ Cardinality(active) <= PoolSize

\* The object of a tick exists while its task has one; only an object whose
\* initialisation failed comes to a command without a handle, the first; before
\* its destruction it has been closed.
ObjectInv(t) ==
  /\ Sound(client[t]) /\ client[t].connect_flag = FALSE
  /\ job[t] \in {"none", "construct", "done"} => client[t] = Blank
  /\ job[t] = "insert" => ~NullQuery(client[t])
  /\ job[t] = "destroy" => NullQuery(client[t]) /\ client[t].res = "null"
  /\ t \in held <=> Alive /\ Connected(client[t])

\* The row of a tick is stored by the insertion, from the tick's own copy.
RowInv(t) ==
  \/ rows[t] = << >>
  \/ job[t] \in {"disconnect", "destroy", "done"} /\ rows[t] = <<Row(t)>>

JobInv == \A t \in Ticks : ObjectInv(t) /\ RowInv(t)

\* A tick is begun when fewer than PoolSize earlier ones are not finished.
Behind(t) == {u \in Ticks : u < t /\ u \notin finished}

WindowInv == \A t \in active \cup finished : Cardinality(Behind(t)) < PoolSize

\* What a row says.
RowType == [last : Int, ask2 : Int]

IInv ==
  /\ TypeOK /\ rows \in [Ticks -> Seq(RowType)]
  /\ MainInv /\ QueueInv /\ JobInv /\ WindowInv /\ OnlyInitKills /\ ExitDrains

-----------------------------------------------------------------------------
(* The calls on the object of a task: the lemmas about the class, in the     *)
(* names of this module.                                                     *)

\* The instance of the class means by its operators what this module does.
LEMMA SameClass ==
  /\ Class!Clients = Clients /\ Class!Blank = Blank /\ Class!Constructed = Constructed
  /\ \A c : Class!Connected(c) <=> Connected(c)
  /\ \A c : Class!NullQuery(c) <=> NullQuery(c)
  /\ \A c : Class!FreesGarbage(c) <=> FreesGarbage(c)
  /\ \A c : Class!Abandons(c) <=> Abandons(c)
  /\ \A c : Class!Command(c) = Command(c)
  /\ \A c : Class!Connect(c) = Connect(c)
  /\ \A c : Class!UseDb(c) = UseDb(c)
  /\ \A c : Class!Disconnect(c) = Disconnect(c)
BY Zenon
DEF Class!Clients, Clients, Class!Blank, Blank, Class!Constructed, Constructed,
    Class!Connected, Connected, Class!NullQuery, NullQuery,
    Class!FreesGarbage, FreesGarbage, Class!Destroyed, Destroyed, Class!Abandons, Abandons,
    Class!Outcome, Outcome, Class!Lost, Lost, Class!Command, Command,
    Class!Connect, Connect, Class!UseDb, UseDb, Class!Disconnect, Disconnect

\* What it means to be sound, in the names of this module.
LEMMA SoundMeans ==
  ASSUME NEW c
  PROVE  Sound(c) <=> c \in Clients /\ (~Connected(c) => c.db = "none" /\ ~c.unread)
BY SameClass DEF Sound, Class!Sound

\* A command leaves a sound object.
LEMMA CommandSound ==
  ASSUME NEW c, Sound(c), NEW o \in Command(c)
  PROVE  /\ Sound(o.client) /\ o.client.res = c.res
         /\ o.client.connect_flag = c.connect_flag
         /\ NullQuery(o.client) <=> NullQuery(c)
         /\ o.ok \in BOOLEAN /\ o.done \in BOOLEAN
         /\ o.ok => o.client = c /\ Connected(c) /\ ~c.unread /\ o.done
BY SameClass, Class!CommandSound DEF Sound

\* The constructors leave an object without a connection.
LEMMA ConstructedSound ==
  ASSUME NEW c \in Constructed
  PROVE  Sound(c) /\ ~Connected(c) /\ c.connect_flag = FALSE
BY SameClass, Class!ConstructedSound DEF Sound

\* connect leaves a handle alone that is null.
LEMMA ConnectSound ==
  ASSUME NEW c, Sound(c), NEW d \in Connect(c)
  PROVE  Sound(d) /\ d.connect_flag = c.connect_flag /\ (NullQuery(c) => d = c)
BY SameClass, Class!ConnectSound DEF Sound

\* usedb leaves a sound object.
LEMMA UseDbSound ==
  ASSUME NEW c, Sound(c), ~NullQuery(c), NEW d \in UseDb(c)
  PROVE  Sound(d) /\ ~NullQuery(d) /\ d.connect_flag = c.connect_flag
BY SameClass, Class!UseDbSound DEF Sound

\* disconnect leaves an object with nothing undefined to free.
LEMMA DisconnectSound ==
  ASSUME NEW c, Sound(c)
  PROVE  /\ Sound(Disconnect(c)) /\ NullQuery(Disconnect(c)) /\ ~Connected(Disconnect(c))
         /\ Disconnect(c).res = "null" /\ Disconnect(c).connect_flag = FALSE
BY SameClass, Class!DisconnectSound DEF Sound

\* So is an object that does not exist yet, or no longer.
LEMMA BlankSound == Sound(Blank) /\ ~Connected(Blank) /\ NullQuery(Blank)
BY SameClass, Class!BlankSound DEF Sound

-----------------------------------------------------------------------------
(* The steps of the pool, with the names of this module. *)

\* The pool's own notions are this module's.
LEMMA PoolNames ==
  /\ \A S : Pool!Cardinality(S) = Cardinality(S)
  /\ \A q : Pool!Range(q) = Range(q)
BY DEF Pool!Cardinality, Cardinality, Pool!Range, Range

\* The steps of the pool that change it, and its types.
LEMMA PoolSteps ==
  /\ \A t : Pool!Submit(t) <=> /\ phase = "open"
                              /\ t \notin Range(pending) \cup active \cup finished
                              /\ pending' = Append(pending, t)
                              /\ UNCHANGED <<active, finished, phase>>
  /\ Pool!Start <=> /\ pending # << >> /\ Cardinality(active) < PoolSize
                    /\ active' = active \cup {Head(pending)}
                    /\ pending' = Tail(pending)
                    /\ UNCHANGED <<finished, phase>>
  /\ Pool!TypeOK <=> /\ pending \in Seq(Ticks)
                     /\ active \subseteq Ticks /\ finished \subseteq Ticks
                     /\ phase \in {"open", "closed", "joined"}
BY PoolNames, Zenon DEF Pool!Submit, Pool!Start, Pool!Known, Pool!TypeOK

\* The ticks of a queue are in order, or all earlier than one.
Ascending(q) == \A i, j \in DOMAIN q : i < j => q[i] < q[j]
AllBefore(q, t) == \A u \in Range(q) : u < t

\* The next tick joins the end of the queue.
LEMMA PushQueue ==
  ASSUME Ticks \subseteq Nat, NEW q \in Seq(Ticks), NEW t \in Ticks,
         Ascending(q), AllBefore(q, t)
  PROVE  /\ Append(q, t) \in Seq(Ticks) /\ Range(Append(q, t)) = Range(q) \cup {t}
         /\ Ascending(Append(q, t))
<1>1. /\ Append(q, t) \in Seq(Ticks) /\ Len(Append(q, t)) = Len(q) + 1
      /\ \A i \in 1 .. Len(q) : Append(q, t)[i] = q[i]
      /\ Append(q, t)[Len(q) + 1] = t
  BY AppendProperties
<1>2. Len(q) \in Nat /\ DOMAIN q = 1 .. Len(q) /\ DOMAIN Append(q, t) = 1 .. Len(q) + 1
  BY <1>1, LenProperties
<1>3. Range(Append(q, t)) = Range(q) \cup {t}
  BY <1>1, <1>2 DEF Range
<1>4. ASSUME NEW i \in 1 .. Len(q) + 1, NEW j \in 1 .. Len(q) + 1, i < j
      PROVE  Append(q, t)[i] < Append(q, t)[j]
  <2>1. i \in 1 .. Len(q) /\ Append(q, t)[i] = q[i]
    BY <1>1, <1>2, <1>4
  <2>2. CASE j = Len(q) + 1
    <3>1. q[i] \in Range(q)
      BY <1>2, <2>1 DEF Range
    <3> QED BY <1>1, <2>1, <2>2, <3>1 DEF AllBefore
  <2>3. CASE j # Len(q) + 1
    <3>1. j \in 1 .. Len(q)
      BY <1>2, <2>3
    <3> QED BY <1>1, <1>2, <1>4, <2>1, <3>1 DEF Ascending
  <2> QED BY <2>2, <2>3
<1> QED BY <1>1, <1>2, <1>3, <1>4 DEF Ascending

\* The front tick leaves the queue, and comes before all that stay.
LEMMA PopQueue ==
  ASSUME NEW S, S \subseteq Nat, NEW q \in Seq(S), q # << >>,
         \A i, j \in DOMAIN q : i < j => q[i] < q[j]
  PROVE  /\ Head(q) \in S /\ Tail(q) \in Seq(S)
         /\ Range(q) = {Head(q)} \cup Range(Tail(q))
         /\ \A u \in Range(Tail(q)) : Head(q) < u
         /\ \A i, j \in DOMAIN Tail(q) : i < j => Tail(q)[i] < Tail(q)[j]
<1>1. /\ Head(q) \in S /\ Tail(q) \in Seq(S) /\ Len(Tail(q)) = Len(q) - 1
      /\ \A i \in 1 .. Len(Tail(q)) : Tail(q)[i] = q[i + 1]
  BY HeadTailProperties
<1>2. Len(q) \in Nat \ {0} /\ DOMAIN q = 1 .. Len(q) /\ DOMAIN Tail(q) = 1 .. Len(q) - 1
  BY <1>1, EmptySeq, LenProperties
<1>3. Head(q) = q[1] /\ 1 \in DOMAIN q
  BY <1>2
<1>4. \A i \in DOMAIN Tail(q) : i + 1 \in DOMAIN q /\ 1 < i + 1 /\ Tail(q)[i] = q[i + 1]
  BY <1>1, <1>2
<1>5. \A u \in Range(Tail(q)) : Head(q) < u
  BY <1>3, <1>4 DEF Range
<1>6. ASSUME NEW i \in DOMAIN Tail(q), NEW j \in DOMAIN Tail(q), i < j
      PROVE  Tail(q)[i] < Tail(q)[j]
  <2>1. i + 1 < j + 1
    BY <1>2, <1>6
  <2> QED BY <1>4, <2>1
<1>7. Range(Tail(q)) \subseteq Range(q) /\ Head(q) \in Range(q)
  BY <1>3, <1>4 DEF Range
<1>8. ASSUME NEW x \in Range(q) PROVE x \in {Head(q)} \cup Range(Tail(q))
  <2>1. PICK i \in DOMAIN q : x = q[i]
    BY DEF Range
  <2>2. CASE i = 1
    BY <1>3, <2>1, <2>2
  <2>3. CASE i # 1
    <3>1. i - 1 \in DOMAIN Tail(q) /\ Tail(q)[i - 1] = x
      BY <1>1, <1>2, <2>1, <2>3
    <3> QED BY <3>1 DEF Range
  <2> QED BY <2>2, <2>3
<1> QED BY <1>1, <1>5, <1>6, <1>7, <1>8
-----------------------------------------------------------------------------
(* The parts of the invariant under steps that leave them alone. *)

\* The facts that every step needs about the numbers and sets involved.
LEMMA Bounds ==
  ASSUME IInv
  PROVE  /\ MaxTicks \in Nat /\ PoolSize \in Nat \ {0} /\ Ticks \subseteq Nat /\ IsFiniteSet(Ticks)
         /\ pending \in Seq(Ticks) /\ Range(pending) \subseteq Ticks
         /\ active \subseteq Ticks /\ finished \subseteq Ticks
         /\ IsFiniteSet(active) /\ Cardinality(active) \in Nat
         /\ arg \in Seq(Quotes) /\ Len(arg) \in Nat /\ Delivered = 1 .. Len(arg)
         /\ \A S : S \subseteq Ticks => IsFiniteSet(S) /\ Cardinality(S) \in Nat
<1>1. MaxTicks \in Nat /\ PoolSize \in Nat \ {0} /\ Ticks \subseteq Nat
  BY PipelineAssumption DEF Ticks
<1>2. IsFiniteSet(Ticks)
  BY <1>1, FS_Interval DEF Ticks
<1>3. pending \in Seq(Ticks) /\ active \subseteq Ticks /\ finished \subseteq Ticks
  BY PoolSteps DEF IInv, TypeOK
<1>4. \A S : S \subseteq Ticks => IsFiniteSet(S) /\ Cardinality(S) \in Nat
  BY <1>2, FS_Subset, FS_CardinalityType
<1>5. arg \in Seq(Quotes) /\ Len(arg) \in Nat /\ Delivered = 1 .. Len(arg)
  BY LenProperties DEF IInv, TypeOK, Delivered
<1>6. Range(pending) \subseteq Ticks
  BY <1>3, ElementOfSeq, LenProperties DEF Range
<1> QED BY <1>1, <1>2, <1>3, <1>4, <1>5, <1>6

\* The object and the row of a tick whose task does not move.
LEMMA JobKept ==
  ASSUME NEW t \in Ticks, ObjectInv(t), RowInv(t), Alive' <=> Alive,
         job'[t] = job[t], client'[t] = client[t], rows'[t] = rows[t], t \in held' <=> t \in held,
         rows[t] = << >> \/ arg'[t] = arg[t]
  PROVE  ObjectInv(t)' /\ RowInv(t)'
BY DEF ObjectInv, RowInv, Row

\* Fewer ticks lie behind when more are finished.
LEMMA WindowShrinks ==
  ASSUME IInv, NEW t \in Ticks, finished \subseteq finished', Cardinality(Behind(t)) < PoolSize
  PROVE  Cardinality(Behind(t)') < PoolSize
<1>1. Behind(t)' \subseteq Behind(t) /\ Behind(t) \subseteq Ticks
  BY DEF Behind
<1>2. IsFiniteSet(Behind(t)) /\ Cardinality(Behind(t)) \in Nat
  BY <1>1, Bounds
<1>3. Cardinality(Behind(t)') <= Cardinality(Behind(t)) /\ IsFiniteSet(Behind(t)')
  BY <1>1, <1>2, FS_Subset
<1>4. Cardinality(Behind(t)') \in Nat /\ PoolSize \in Nat
  BY <1>3, FS_CardinalityType, Bounds
<1> QED BY <1>2, <1>3, <1>4

\* A step of a task that is neither its first nor its last.
LEMMA StepKeeps ==
  ASSUME IInv, NEW t \in Ticks, NEW from, NEW to, NEW c, Step(t, from, to, c),
         from \in {"construct", "connect", "use", "insert", "disconnect"},
         to \in {"connect", "use", "insert", "disconnect", "destroy"},
         Sound(c), c.connect_flag = FALSE,
         to = "insert" => ~NullQuery(c),
         to = "destroy" => NullQuery(c) /\ c.res = "null",
         reported' \subseteq Ticks,
         \/ rows' = rows /\ (rows[t] = << >> \/ to \in {"disconnect", "destroy"})
         \/ /\ rows' = [rows EXCEPT ![t] = Append(@, Row(t))]
            /\ rows[t] = << >> /\ to = "disconnect" /\ Row(t) \in RowType
  PROVE  IInv'
<1>1. /\ Alive /\ job[t] = from
      /\ job' = [job EXCEPT ![t] = to] /\ client' = [client EXCEPT ![t] = c]
      /\ held' = IF Connected(c) THEN held \cup {t} ELSE held \ {t}
      /\ UNCHANGED <<pending, active, finished, phase, buffer, arg, api, main, death>>
  BY DEF Step, poolVars
<1>2. /\ job'[t] = to /\ client'[t] = c /\ (t \in held' <=> Connected(c)) /\ (Alive' <=> Alive)
      /\ \A u \in Ticks \ {t} : job'[u] = job[u] /\ client'[u] = client[u]
                                /\ (u \in held' <=> u \in held)
  BY <1>1 DEF IInv, TypeOK, Alive
<1>3. TypeOK'
  <2>1. Pool!TypeOK'
    BY <1>1 DEF IInv, TypeOK, Pool!TypeOK
  <2>2. job' \in [Ticks -> Jobs] /\ client' \in [Ticks -> Clients] /\ held' \subseteq Ticks
    BY <1>1, SoundMeans DEF IInv, TypeOK, Jobs
  <2>3. \A u \in Ticks : /\ job'[u] \in {"none", "done"} <=> job[u] \in {"none", "done"}
                         /\ job'[u] = "done" <=> job[u] = "done"
    BY <1>1, <1>2
  <2>4. /\ active' = {u \in Ticks : job'[u] \notin {"none", "done"}}
        /\ finished' = {u \in Ticks : job'[u] = "done"}
    BY <1>1, <2>3 DEF IInv, TypeOK
  <2> QED BY <1>1, <2>1, <2>2, <2>4 DEF IInv, TypeOK
<1>4. rows' \in [Ticks -> Seq(RowType)]
  <2>1. rows \in [Ticks -> Seq(RowType)]
    BY DEF IInv
  <2>2. Row(t) \in RowType => Append(rows[t], Row(t)) \in Seq(RowType)
    BY <2>1, AppendProperties
  <2> QED BY <2>1, <2>2
<1>5. MainInv'
  BY <1>1 DEF IInv, MainInv
<1>6. QueueInv'
  <2>1. t \notin Range(pending)
    BY <1>1 DEF IInv, QueueInv
  <2>2. Range(pending) \subseteq Ticks
    BY Bounds
  <2>3. Delivered' = Delivered
    BY <1>1 DEF Delivered
  <2> QED BY <1>1, <1>2, <2>1, <2>2, <2>3 DEF IInv, QueueInv
<1>7. JobInv'
  <2>1. \A u \in Ticks \ {t} : rows'[u] = rows[u]
    BY DEF IInv
  <2>2. \A u \in Ticks \ {t} : ObjectInv(u)' /\ RowInv(u)'
    BY <1>1, <1>2, <2>1, JobKept DEF IInv, JobInv
  <2>3. ObjectInv(t)'
    BY <1>1, <1>2 DEF ObjectInv
  <2>4. RowInv(t)'
    <3>1. Row(t)' = Row(t)
      BY <1>1 DEF Row
    <3>2. CASE rows' = rows /\ (rows[t] = << >> \/ to \in {"disconnect", "destroy"})
      <4>1. RowInv(t)
        BY DEF IInv, JobInv
      <4> QED BY <1>2, <3>1, <3>2, <4>1 DEF RowInv
    <3>3. CASE rows' = [rows EXCEPT ![t] = Append(@, Row(t))] /\ rows[t] = << >> /\ to = "disconnect"
      <4>1. rows'[t] = Append(<< >>, Row(t))
        BY <3>3 DEF IInv
      <4>2. Append(<< >>, Row(t)) = <<Row(t)>>
        OBVIOUS
      <4> QED BY <1>2, <3>1, <3>3, <4>1, <4>2 DEF RowInv
    <3> QED BY <3>2, <3>3
  <2> QED BY <2>2, <2>3, <2>4 DEF JobInv
<1>8. WindowInv'
  BY <1>1 DEF IInv, WindowInv, Behind
<1>9. OnlyInitKills'
  BY <1>1 DEF IInv, OnlyInitKills, Alive
<1>10. ExitDrains'
  BY <1>1 DEF IInv, ExitDrains, Delivered
<1> QED BY <1>3, <1>4, <1>5, <1>6, <1>7, <1>8, <1>9, <1>10 DEF IInv
-----------------------------------------------------------------------------
(* The actions. *)

\* What the range checks leave of a quote is a row with every number in bounds.
LEMMA CleanRow ==
  ASSUME NEW q \in Quotes
  PROVE  /\ Clean(q) \in RowType
         /\ Clean(q).last = IF q.last \in -10 .. 12 THEN q.last ELSE 0
         /\ Clean(q).ask2 = IF q.ask2 \in -11 .. 11 THEN q.ask2 ELSE 0
<1>1. q.last \in Int /\ q.ask2 \in Int
  BY PipelineAssumption
<1>2. /\ Clean(q).last = IF q.last > 12 \/ q.last < -10 THEN 0 ELSE q.last
      /\ Clean(q).ask2 = IF q.ask2 > 11 \/ q.ask2 < -11 THEN 0 ELSE q.ask2
      /\ Clean(q) = [last |-> Clean(q).last, ask2 |-> Clean(q).ask2]
  BY DEF Clean
<1>3. Clean(q).last \in Int /\ Clean(q).ask2 \in Int
  BY <1>1, <1>2
<1>4. Clean(q) \in RowType
  BY <1>2, <1>3 DEF RowType
<1> QED BY <1>1, <1>2, <1>4

\* The first state satisfies the invariant.
LEMMA InitInv == Init => IInv
<1> SUFFICES ASSUME Init PROVE IInv
  OBVIOUS
<1>1. /\ pending = << >> /\ active = {} /\ finished = {} /\ phase = "open"
      /\ buffer \in Quotes /\ arg = << >> /\ held = {} /\ reported = {}
      /\ api = "running" /\ main = "join" /\ death = "none"
  BY DEF Init, Pool!Init
<1>2. \A t \in Ticks : job[t] = "none" /\ client[t] = Blank /\ rows[t] = << >>
  BY DEF Init
<1>3. Sound(Blank) /\ ~Connected(Blank) /\ Blank.connect_flag = FALSE /\ Blank \in Clients
  BY BlankSound, SoundMeans DEF Blank
<1>4. /\ << >> \in Seq(Quotes) /\ Len(<< >>) = 0 /\ << >> \in Seq(RowType) /\ << >> \in Seq(Ticks)
      /\ Range(<< >>) = {} /\ DOMAIN << >> = {}
  BY EmptySeq DEF Range
<1>5. job \in [Ticks -> Jobs] /\ client \in [Ticks -> Clients] /\ rows \in [Ticks -> Seq(RowType)]
  BY <1>3, <1>4 DEF Init, Jobs
<1>6. Pool!TypeOK
  BY <1>1, <1>4, PoolSteps
<1>7. TypeOK
  <2>1. MaxTicks \in Nat
    BY PipelineAssumption
  <2>2. arg \in Seq(Quotes) /\ Len(arg) <= MaxTicks
    BY <1>1, <1>4, <2>1
  <2>3. active = {t \in Ticks : job[t] \notin {"none", "done"}} /\ finished = {t \in Ticks : job[t] = "done"}
    BY <1>1, <1>2
  <2> QED BY <1>1, <1>5, <1>6, <2>2, <2>3 DEF TypeOK
<1>8. QueueInv
  <2>1. Cardinality({}) = 0 /\ PoolSize \in Nat
    BY FS_EmptySet, PipelineAssumption
  <2>2. Cardinality(active) <= PoolSize
    BY <1>1, <2>1
  <2> QED BY <1>1, <1>4, <2>2 DEF QueueInv, Delivered
<1>9. JobInv
  BY <1>1, <1>2, <1>3 DEF JobInv, ObjectInv, RowInv, Alive
<1> QED BY <1>1, <1>5, <1>7, <1>8, <1>9 DEF IInv, MainInv, WindowInv, OnlyInitKills, ExitDrains

\* The steps of a task keep the invariant.
LEMMA TaskKeeps ==
  ASSUME IInv, NEW t \in Ticks,
         Construct(t) \/ ConnectDb(t) \/ Use(t) \/ Insert(t) \/ DisconnectDb(t) \/ Throw(t)
  PROVE  IInv'
<1>0. ObjectInv(t) /\ RowInv(t) /\ reported \subseteq Ticks
  BY DEF IInv, JobInv, TypeOK
<1>1. CASE Construct(t)
  <2>1. PICK c \in Constructed : Step(t, "construct", "connect", c)
    BY <1>1 DEF Construct
  <2>2. Sound(c) /\ c.connect_flag = FALSE
    BY ConstructedSound
  <2>3. rows[t] = << >> /\ rows' = rows /\ reported' = reported
    BY <1>0, <1>1, <2>1 DEF Construct, RowInv, Step
  <2> QED BY <1>0, <2>1, <2>2, <2>3, StepKeeps
<1>2. CASE ConnectDb(t)
  <2>1. PICK c \in Connect(client[t]) : Step(t, "connect", "use", c)
    BY <1>2 DEF ConnectDb
  <2>2. Sound(c) /\ c.connect_flag = FALSE
    BY <1>0, ConnectSound DEF ObjectInv
  <2>3. rows[t] = << >> /\ rows' = rows /\ reported' = reported
    BY <1>0, <1>2, <2>1 DEF ConnectDb, RowInv, Step
  <2> QED BY <1>0, <2>1, <2>2, <2>3, StepKeeps
<1>3. CASE Use(t)
  <2>1. PICK c \in UseDb(client[t]) : Step(t, "use", "insert", c)
    BY <1>3 DEF Use
  <2>2. Sound(c) /\ c.connect_flag = FALSE /\ ~NullQuery(c)
    BY <1>0, <1>3, UseDbSound DEF ObjectInv, Use
  <2>3. rows[t] = << >> /\ rows' = rows /\ reported' = reported
    BY <1>0, <1>3, <2>1 DEF Use, RowInv, Step
  <2> QED BY <1>0, <2>1, <2>2, <2>3, StepKeeps
<1>4. CASE Insert(t)
  <2>1. PICK o \in InsertOutcomes(t) :
          /\ Step(t, "insert", "disconnect", o.client)
          /\ rows' = IF o.done THEN [rows EXCEPT ![t] = Append(@, Row(t))] ELSE rows
    BY <1>4 DEF Insert
  <2>2. Sound(o.client) /\ o.client.connect_flag = FALSE /\ o.done \in BOOLEAN
    BY <1>0, CommandSound DEF ObjectInv, InsertOutcomes
  <2>3. rows[t] = << >> /\ reported' = reported
    BY <1>0, <1>4, <2>1 DEF Insert, RowInv, Step
  <2>4. Row(t) \in RowType
    <3>1. t \in Delivered
      <4>1. t \in active
        BY <2>1 DEF IInv, TypeOK, Step
      <4> QED BY <4>1 DEF IInv, QueueInv
    <3>2. arg[t] \in Quotes
      BY <3>1, Bounds, ElementOfSeq
    <3> QED BY <3>2, CleanRow DEF Row
  <2>5. CASE o.done
    BY <1>0, <2>1, <2>2, <2>3, <2>4, <2>5, StepKeeps
  <2>6. CASE ~o.done
    BY <1>0, <2>1, <2>2, <2>3, <2>6, StepKeeps
  <2> QED BY <2>5, <2>6
<1>5. CASE DisconnectDb(t)
  <2>1. Step(t, "disconnect", "destroy", Disconnect(client[t])) /\ rows' = rows /\ reported' = reported
    BY <1>5 DEF DisconnectDb
  <2>2. /\ Sound(Disconnect(client[t])) /\ Disconnect(client[t]).connect_flag = FALSE
        /\ NullQuery(Disconnect(client[t])) /\ Disconnect(client[t]).res = "null"
    BY <1>0, DisconnectSound DEF ObjectInv
  <2> QED BY <1>0, <2>1, <2>2, StepKeeps
<1>6. CASE Throw(t)
  <2>1. PICK from \in {"connect", "use", "insert"} : Step(t, from, "disconnect", client[t])
    BY <1>6 DEF Throw
  <2>2. rows' = rows /\ reported' \subseteq Ticks
    BY <1>0, <1>6 DEF Throw
  <2>3. rows[t] = << >>
    BY <1>0, <2>1 DEF RowInv, Step
  <2> QED BY <1>0, <2>1, <2>2, <2>3, StepKeeps DEF ObjectInv
<1> QED BY <1>1, <1>2, <1>3, <1>4, <1>5, <1>6
\* A handle that is null at a command is that of an object whose initialisation
\* failed, at its first command.
LEMMA NullHandleKeeps ==
  ASSUME IInv, NEW t \in Ticks, NullHandle(t)
  PROVE  IInv'
<1>1. /\ Alive /\ job[t] \in {"use", "insert"} /\ NullQuery(client[t])
      /\ death' = "null handle" /\ held' = {}
      /\ UNCHANGED <<pending, active, finished, phase, buffer, arg, job, client, rows, reported,
                     api, main>>
  BY DEF NullHandle, poolVars
<1>2. job[t] = "use" /\ t \in active
  BY <1>1 DEF IInv, JobInv, ObjectInv, TypeOK
<1>3. ~Alive'
  BY <1>1 DEF Alive
<1>4. TypeOK'
  BY <1>1 DEF IInv, TypeOK, Pool!TypeOK
<1>5. JobInv'
  BY <1>1, <1>3 DEF IInv, JobInv, ObjectInv, RowInv, Row
<1>6. OnlyInitKills'
  BY <1>1, <1>2 DEF OnlyInitKills
<1> QED BY <1>1, <1>4, <1>5, <1>6 DEF IInv, MainInv, QueueInv, WindowInv, Behind, ExitDrains, Delivered

\* The destructor has nothing undefined to free, and the task is over.
LEMMA DestroyKeeps ==
  ASSUME IInv, NEW t \in Ticks, Destroy(t)
  PROVE  IInv'
<1>1. /\ Alive /\ job[t] = "destroy"
      /\ IF FreesGarbage(client[t]) THEN death' = "garbage result" ELSE UNCHANGED death
      /\ held' = IF Abandons(client[t]) THEN held ELSE held \ {t}
      /\ job' = [job EXCEPT ![t] = "done"] /\ client' = [client EXCEPT ![t] = Blank]
      /\ active' = active \ {t} /\ finished' = finished \cup {t}
      /\ UNCHANGED <<pending, phase, buffer, arg, rows, reported, api, main>>
  BY DEF Destroy, Pool!Finish
<1>2. /\ ~FreesGarbage(client[t]) /\ ~Abandons(client[t]) /\ ~Connected(client[t])
      /\ client[t].connect_flag = FALSE
  <2>1. NullQuery(client[t]) /\ client[t].res = "null" /\ client[t].connect_flag = FALSE
        /\ client[t] \in Clients
    BY <1>1, SoundMeans DEF IInv, JobInv, ObjectInv
  <2>2. Destroyed(client[t]).res = "null"
    BY <2>1 DEF Destroyed, Clients
  <2> QED BY <2>1, <2>2 DEF FreesGarbage, Abandons, NullQuery, Connected
<1>3. UNCHANGED death /\ (Alive' <=> Alive) /\ held' = held \ {t}
  BY <1>1, <1>2 DEF Alive
<1>4. /\ job'[t] = "done" /\ client'[t] = Blank
      /\ \A u \in Ticks \ {t} : job'[u] = job[u] /\ client'[u] = client[u]
                                /\ (u \in held' <=> u \in held)
  BY <1>1, <1>3 DEF IInv, TypeOK
<1>5. Sound(Blank) /\ ~Connected(Blank) /\ Blank.connect_flag = FALSE /\ Blank \in Clients
  BY BlankSound, SoundMeans DEF Blank
<1>6. t \in active /\ t \notin finished
  BY <1>1 DEF IInv, TypeOK
<1>7. TypeOK'
  <2>1. Pool!TypeOK'
    BY <1>1 DEF IInv, TypeOK, Pool!TypeOK
  <2>2. job' \in [Ticks -> Jobs] /\ client' \in [Ticks -> Clients] /\ held' \subseteq Ticks
    BY <1>1, <1>3, <1>5 DEF IInv, TypeOK, Jobs
  <2>3. /\ active' = {u \in Ticks : job'[u] \notin {"none", "done"}}
        /\ finished' = {u \in Ticks : job'[u] = "done"}
    BY <1>1, <1>4 DEF IInv, TypeOK
  <2> QED BY <1>1, <1>3, <2>1, <2>2, <2>3 DEF IInv, TypeOK
<1>8. QueueInv'
  <2>1. t \notin Range(pending) /\ Range(pending) \subseteq Ticks
    BY <1>1, Bounds DEF IInv, QueueInv
  <2>2. active' \cup finished' = active \cup finished /\ Delivered' = Delivered
    BY <1>1, <1>6 DEF Delivered
  <2>3. Cardinality(active') <= PoolSize
    <3>1. IsFiniteSet(active) /\ Cardinality(active) <= PoolSize /\ PoolSize \in Nat
          /\ Cardinality(active) \in Nat
      BY Bounds DEF IInv, QueueInv
    <3>2. Cardinality(active \ {t}) = Cardinality(active) - 1
      BY <1>6, <3>1, FS_RemoveElement
    <3>3. Cardinality(active \ {t}) <= PoolSize
      BY <3>1, <3>2
    <3> QED BY <1>1, <3>3, Zenon
  <2> QED BY <1>1, <1>4, <2>1, <2>2, <2>3 DEF IInv, QueueInv
<1>9. JobInv'
  <2>1. \A u \in Ticks \ {t} : ObjectInv(u)' /\ RowInv(u)'
    BY <1>1, <1>3, <1>4, JobKept DEF IInv, JobInv
  <2>2. ObjectInv(t)'
    BY <1>3, <1>4, <1>5 DEF ObjectInv
  <2>3. RowInv(t)'
    <3>1. RowInv(t) /\ Row(t)' = Row(t)
      BY <1>1 DEF IInv, JobInv, Row
    <3> QED BY <1>1, <1>4, <3>1 DEF RowInv
  <2> QED BY <2>1, <2>2, <2>3 DEF JobInv
<1>10. WindowInv'
  <2>1. active' \cup finished' = active \cup finished /\ finished \subseteq finished'
    BY <1>1, <1>6
  <2>2. \A u \in active \cup finished : u \in Ticks /\ Cardinality(Behind(u)) < PoolSize
    BY Bounds DEF IInv, WindowInv
  <2> QED BY <2>1, <2>2, WindowShrinks DEF WindowInv
<1>11. OnlyInitKills'
  BY <1>1, <1>3 DEF IInv, OnlyInitKills, Alive
<1>12. ExitDrains'
  BY <1>1 DEF IInv, ExitDrains, Delivered
<1> QED BY <1>1, <1>7, <1>8, <1>9, <1>10, <1>11, <1>12 DEF IInv, MainInv

\* A worker takes the oldest tick: all before it are begun, and those of them
\* that are not finished are with the other workers.
LEMMA StartKeeps ==
  ASSUME IInv, Start
  PROVE  IInv'
<1>0. Head(pending) \in Ticks
  BY PoolSteps, Bounds, PopQueue DEF Start, IInv, QueueInv
<1> PICK h \in Ticks : h = Head(pending)
  BY <1>0
<1>1. /\ Alive /\ pending # << >> /\ Cardinality(active) < PoolSize
      /\ active' = active \cup {h} /\ pending' = Tail(pending)
      /\ job' = [job EXCEPT ![h] = "construct"]
      /\ UNCHANGED <<finished, phase, buffer, arg, client, held, rows, reported, api, main, death>>
  BY PoolSteps DEF Start
<1>2. /\ h \in Ticks /\ pending' \in Seq(Ticks)
      /\ Range(pending) = {h} \cup Range(pending')
      /\ \A u \in Range(pending') : h < u
      /\ \A i, j \in DOMAIN pending' : i < j => pending'[i] < pending'[j]
  BY <1>1, Bounds, PopQueue DEF IInv, QueueInv
<1>3. job[h] = "none" /\ h \in Range(pending) /\ h \notin active /\ h \notin finished
      /\ h \notin Range(pending')
  <2>1. h \in Range(pending) /\ job[h] = "none"
    BY <1>2 DEF IInv, QueueInv
  <2>2. h \notin active /\ h \notin finished
    BY <2>1 DEF IInv, TypeOK
  <2>3. h \in Nat
    BY Bounds
  <2>4. h \notin Range(pending')
    BY <1>2, <2>3
  <2> QED BY <2>1, <2>2, <2>4
<1>4. job'[h] = "construct" /\ \A u \in Ticks \ {h} : job'[u] = job[u]
  BY <1>1, <1>2 DEF IInv, TypeOK
<1>5. Alive' <=> Alive
  BY <1>1 DEF Alive
<1>6. TypeOK'
  <2>1. Pool!TypeOK'
    BY <1>1, <1>2 DEF IInv, TypeOK, Pool!TypeOK
  <2>2. job' \in [Ticks -> Jobs]
    BY <1>1 DEF IInv, TypeOK, Jobs
  <2>3. /\ active' = {u \in Ticks : job'[u] \notin {"none", "done"}}
        /\ finished' = {u \in Ticks : job'[u] = "done"}
    BY <1>1, <1>2, <1>3, <1>4 DEF IInv, TypeOK
  <2>4. UNCHANGED <<buffer, arg, client, held, reported, api, main, death>>
    BY <1>1
  <2>5. /\ buffer \in Quotes /\ arg \in Seq(Quotes) /\ Len(arg) <= MaxTicks
        /\ client \in [Ticks -> Clients] /\ held \subseteq Ticks /\ reported \subseteq Ticks
        /\ api \in {"running", "ended"}
        /\ main \in {"join", "getchar", "destructor", "exited"}
        /\ death \in {"none", "null handle", "stopped pool", "garbage result"}
    BY DEF IInv, TypeOK
  <2> QED BY <2>1, <2>2, <2>3, <2>4, <2>5 DEF TypeOK
<1>7. QueueInv'
  <2>1. Range(pending') \subseteq Ticks
    BY <1>2, ElementOfSeq, LenProperties DEF Range
  <2>2. \A u \in Range(pending') : job'[u] = "none"
    BY <1>2, <1>3, <1>4, <2>1 DEF IInv, QueueInv
  <2>3. Delivered' = Range(pending') \cup active' \cup finished'
    BY <1>1, <1>2 DEF IInv, QueueInv, Delivered
  <2>4. \A u \in Range(pending') : \A v \in active' \cup finished' : v < u
    BY <1>1, <1>2 DEF IInv, QueueInv
  <2>5. Cardinality(active') <= PoolSize
    <3>1. Cardinality(active \cup {h}) = Cardinality(active) + 1
      BY <1>3, Bounds, FS_AddElement
    <3> QED BY <1>1, <3>1, Bounds
  <2> QED BY <1>2, <2>2, <2>3, <2>4, <2>5 DEF QueueInv
<1>8. JobInv'
  <2>1. \A u \in Ticks \ {h} : ObjectInv(u)' /\ RowInv(u)'
    BY <1>1, <1>4, <1>5, JobKept DEF IInv, JobInv
  <2>2. ObjectInv(h) /\ RowInv(h)
    BY <1>2 DEF IInv, JobInv
  <2>3. ObjectInv(h)' /\ RowInv(h)'
    BY <1>1, <1>3, <1>4, <1>5, <2>2 DEF ObjectInv, RowInv, Row
  <2> QED BY <2>1, <2>3 DEF JobInv
<1>9. WindowInv'
  <2>1. Behind(h)' \subseteq active
    <3> SUFFICES ASSUME NEW u \in Ticks, u < h, u \notin finished PROVE u \in active
      BY <1>1 DEF Behind
    <3>1. h \in Delivered
      BY <1>3 DEF IInv, QueueInv
    <3>2. u \in Delivered
      <4>1. h \in 1 .. Len(arg) /\ u \in Nat /\ Len(arg) \in Nat /\ u \in 1 .. MaxTicks /\ MaxTicks \in Nat
        BY <3>1, Bounds DEF Ticks
      <4>2. u \in 1 .. Len(arg)
        BY <4>1
      <4> QED BY <4>2, Bounds
    <3>3. u \notin Range(pending)
      <4>1. h \in Nat /\ u \in Nat
        BY <1>2, Bounds
      <4>2. \A v \in Range(pending) : v = h \/ h < v
        BY <1>2
      <4>3. \A v \in Range(pending) : v \in Nat
        BY Bounds, ElementOfSeq, LenProperties DEF Range
      <4> QED BY <4>1, <4>2, <4>3
    <3> QED BY <3>2, <3>3 DEF IInv, QueueInv
  <2>2. Cardinality(Behind(h)') < PoolSize
    <3>1. Cardinality(Behind(h)') <= Cardinality(active) /\ IsFiniteSet(Behind(h)')
      BY <2>1, Bounds, FS_Subset
    <3>2. Cardinality(Behind(h)') \in Nat
      BY <3>1, FS_CardinalityType
    <3> QED BY <1>1, <3>1, <3>2, Bounds
  <2>3. \A u \in active \cup finished : Cardinality(Behind(u)') < PoolSize
    BY <1>1, Bounds, WindowShrinks DEF IInv, WindowInv
  <2> QED BY <1>1, <2>2, <2>3 DEF WindowInv
<1>10. OnlyInitKills'
  BY <1>1 DEF IInv, OnlyInitKills, Alive
<1>11. ExitDrains'
  BY <1>1 DEF IInv, ExitDrains, Delivered
<1> QED BY <1>1, <1>6, <1>7, <1>8, <1>9, <1>10, <1>11 DEF IInv, MainInv
\* A callback finds the pool open, and the new tick comes behind all others.
LEMMA TickKeeps ==
  ASSUME IInv, NEW q \in Quotes, OnRtnDepthMarketData(q)
  PROVE  IInv'
<1> DEFINE t == Len(arg) + 1
<1>1. phase = "open" /\ main = "join"
  BY DEF OnRtnDepthMarketData, IInv, MainInv, TypeOK
<1>2. /\ Alive /\ Len(arg) < MaxTicks /\ buffer' = q /\ arg' = Append(arg, q)
      /\ pending' = Append(pending, t) /\ t \notin Range(pending) \cup active \cup finished
      /\ UNCHANGED <<active, finished, phase, job, client, held, rows, reported, api, main, death>>
  BY <1>1, PoolSteps DEF OnRtnDepthMarketData
<1>3. /\ t \in Ticks /\ Len(arg) \in Nat
      /\ \A u \in Delivered : u \in Nat /\ u < t
  BY <1>2, Bounds DEF Ticks
<1>4. /\ arg' \in Seq(Quotes) /\ Len(arg') = t /\ \A u \in Delivered : arg'[u] = arg[u]
  BY <1>2, Bounds, AppendProperties
<1>5. Delivered' = Delivered \cup {t}
  <2>1. Delivered' = 1 .. t
    BY <1>4, LenProperties DEF Delivered
  <2>2. Delivered = 1 .. Len(arg) /\ t = Len(arg) + 1 /\ Len(arg) \in Nat
    BY Bounds
  <2> HIDE DEF t
  <2> QED BY <2>1, <2>2
<1>6. \A u \in Range(pending) : u < t
  BY <1>3 DEF IInv, QueueInv
<1>7. /\ pending' \in Seq(Ticks) /\ Range(pending') = Range(pending) \cup {t}
      /\ \A i, j \in DOMAIN pending' : i < j => pending'[i] < pending'[j]
  <2>1. Ascending(pending)
    BY DEF IInv, QueueInv, Ascending
  <2>2. pending \in Seq(Ticks) /\ Ticks \subseteq Nat
    BY Bounds
  <2>3. pending' = Append(pending, t) /\ t \in Ticks
    BY <1>2, <1>3
  <2>4. AllBefore(pending, t)
    BY <1>6 DEF AllBefore
  <2> HIDE DEF t
  <2>5. /\ Append(pending, t) \in Seq(Ticks)
        /\ Range(Append(pending, t)) = Range(pending) \cup {t}
        /\ Ascending(Append(pending, t))
    BY <2>1, <2>2, <2>3, <2>4, PushQueue
  <2> QED BY <2>3, <2>5, Zenon DEF Ascending
<1>8. job[t] = "none"
  BY <1>2, <1>3 DEF IInv, TypeOK
<1>9. Alive' <=> Alive
  BY <1>2 DEF Alive
<1>10. TypeOK'
  <2>1. Pool!TypeOK'
    BY <1>2, <1>7 DEF IInv, TypeOK, Pool!TypeOK
  <2>2. Len(arg') <= MaxTicks
    BY <1>2, <1>3, <1>4, Bounds
  <2> QED BY <1>2, <1>4, <2>1, <2>2 DEF IInv, TypeOK
<1>11. QueueInv'
  <2>1. Delivered' = Range(pending') \cup active' \cup finished'
    BY <1>2, <1>5, <1>7 DEF IInv, QueueInv
  <2>2. \A u \in Range(pending') : job'[u] = "none"
    BY <1>2, <1>7, <1>8 DEF IInv, QueueInv
  <2>3. \A u \in Range(pending') : \A v \in active' \cup finished' : v < u
    BY <1>2, <1>3, <1>7 DEF IInv, QueueInv
  <2> QED BY <1>2, <1>7, <2>1, <2>2, <2>3 DEF IInv, QueueInv
<1>12. JobInv'
  <2> SUFFICES ASSUME NEW u \in Ticks PROVE ObjectInv(u)' /\ RowInv(u)'
    BY DEF JobInv
  <2>1. ObjectInv(u) /\ RowInv(u)
    BY DEF IInv, JobInv
  <2>2. rows[u] = << >> \/ arg'[u] = arg[u]
    <3>1. CASE u \in Delivered
      BY <1>4, <3>1
    <3>2. CASE u \notin Delivered
      <4>1. job[u] = "none"
        BY <3>2 DEF IInv, QueueInv, TypeOK
      <4> QED BY <2>1, <4>1 DEF RowInv
    <3> QED BY <3>1, <3>2
  <2> QED BY <1>2, <1>9, <2>1, <2>2, JobKept
<1> QED BY <1>1, <1>2, <1>10, <1>11, <1>12
        DEF IInv, MainInv, WindowInv, Behind, OnlyInitKills, ExitDrains

\* main and the end of the API's thread keep the invariant: the pool is stopped
\* only behind the API's thread, and main exits behind an empty pool.
LEMMA MainKeeps ==
  ASSUME IInv, ApiEnds \/ MdiMainReturns \/ MainReturns \/ Exit
  PROVE  IInv'
<1>1. /\ UNCHANGED <<pending, active, finished, buffer, arg, job, client, held, rows, reported, death>>
      /\ Alive
  BY DEF ApiEnds, MdiMainReturns, MainReturns, Exit, MainMove, Pool!Close, Pool!Join, taskVars, poolVars
<1>2. /\ phase' \in {"open", "closed", "joined"} /\ api' \in {"running", "ended"}
      /\ main' \in {"join", "getchar", "destructor", "exited"}
      /\ MainInv'
      /\ main' = "exited" => (pending = << >> /\ active = {}) \/ main = "exited"
  <2>0. MainInv /\ api \in {"running", "ended"} /\ main \in {"join", "getchar", "destructor", "exited"}
        /\ phase \in {"open", "closed", "joined"}
    BY PoolSteps DEF IInv, TypeOK
  <2>1. CASE ApiEnds
    BY <2>0, <2>1 DEF ApiEnds, MainInv, poolVars
  <2>2. CASE MdiMainReturns
    BY <2>0, <2>2 DEF MdiMainReturns, MainMove, MainInv, poolVars
  <2>3. CASE MainReturns
    BY <2>0, <2>3 DEF MainReturns, MainMove, MainInv, Pool!Close
  <2>4. CASE Exit
    BY <2>0, <2>4 DEF Exit, MainMove, MainInv, Pool!Join
  <2> QED BY <2>1, <2>2, <2>3, <2>4
<1>3. TypeOK'
  BY <1>1, <1>2, PoolSteps DEF IInv, TypeOK, Pool!TypeOK
<1>4. QueueInv' /\ WindowInv' /\ OnlyInitKills'
  BY <1>1 DEF IInv, QueueInv, WindowInv, Behind, OnlyInitKills, Delivered
<1>5. JobInv'
  BY <1>1 DEF IInv, JobInv, ObjectInv, RowInv, Row, Alive
<1>6. ExitDrains'
  <2>1. Range(<< >>) = {}
    BY DEF Range
  <2> QED BY <1>1, <1>2, <2>1 DEF IInv, QueueInv, ExitDrains, Delivered
<1> QED BY <1>1, <1>2, <1>3, <1>4, <1>5, <1>6 DEF IInv

\* Every step keeps the invariant.
LEMMA InvariantStep == IInv /\ [Next]_vars => IInv'
<1> SUFFICES ASSUME IInv, [Next]_vars PROVE IInv'
  OBVIOUS
<1>1. CASE UNCHANGED vars
  <2>1. UNCHANGED <<pending, active, finished, phase, buffer, arg, job, client, held, rows,
                    reported, api, main, death>>
    BY <1>1 DEF vars, poolVars, taskVars
  <2>2. TypeOK'
    BY <2>1 DEF IInv, TypeOK, Pool!TypeOK
  <2>3. JobInv'
    BY <2>1 DEF IInv, JobInv, ObjectInv, RowInv, Row, Alive
  <2> QED BY <2>1, <2>2, <2>3
          DEF IInv, MainInv, QueueInv, WindowInv, Behind, OnlyInitKills, ExitDrains, Delivered
<1> QED
  BY <1>1, TickKeeps, StartKeeps, TaskKeeps, NullHandleKeeps, DestroyKeeps, MainKeeps
  DEF Next, TaskStep, Over

-----------------------------------------------------------------------------
(* The theorems. *)

\* IInv is an inductive invariant of the specification.
THEOREM Invariant == Spec => []IInv
BY InitInv, InvariantStep, PTL DEF Spec, SafeSpec

\* The variables keep their types.
THEOREM TypeCorrect == Spec => []TypeOK
BY Invariant, PTL DEF IInv

\* A tick is stored at most once (CustomMdSpi.cpp:217-227).
THEOREM StoredOnce == Spec => []AtMostOneRow
<1>1. IInv => AtMostOneRow
  <2> SUFFICES ASSUME IInv, NEW t \in Ticks PROVE Len(rows[t]) <= 1
    BY DEF AtMostOneRow
  <2>1. RowInv(t)
    BY DEF IInv, JobInv
  <2>2. CASE rows[t] = << >>
    BY <2>2
  <2>3. CASE rows[t] = <<Row(t)>>
    BY <2>3
  <2> QED BY <2>1, <2>2, <2>3 DEF RowInv
<1> QED BY <1>1, Invariant, PTL

\* A row says what the exchange said in its tick, number by number within the
\* bounds, whatever the API has written over its structure since
\* (CustomMdSpi.cpp:184-215).
THEOREM RowsTrue == Spec => []RowIntegrity
<1>1. IInv => RowIntegrity
  <2> SUFFICES ASSUME IInv, NEW t \in Delivered, NEW r \in Range(rows[t]),
                      NEW column \in DOMAIN Within
               PROVE  r[column] = IF arg[t][column] \in Within[column] THEN arg[t][column] ELSE 0
    BY DEF RowIntegrity
  <2>1. t \in Ticks /\ arg[t] \in Quotes
    BY Bounds, ElementOfSeq DEF IInv, QueueInv
  <2>2. r = Clean(arg[t])
    BY <2>1 DEF IInv, JobInv, RowInv, Row, Range
  <2>3. /\ r.last = IF arg[t].last \in -10 .. 12 THEN arg[t].last ELSE 0
        /\ r.ask2 = IF arg[t].ask2 \in -11 .. 11 THEN arg[t].ask2 ELSE 0
    BY <2>1, <2>2, CleanRow
  <2>4. /\ column = "last" \/ column = "ask2"
        /\ Within["last"] = -10 .. 12 /\ Within["ask2"] = -11 .. 11
    BY DEF Within
  <2>5. CASE column = "last"
    BY <2>3, <2>4, <2>5
  <2>6. CASE column = "ask2"
    BY <2>3, <2>4, <2>6
  <2> QED BY <2>4, <2>5, <2>6
<1> QED BY <1>1, Invariant, PTL

\* The text of every row finds room in values[300] (CustomMdSpi.cpp:202-215).
THEOREM RowsFit == Spec => []RowFits
<1>1. IInv => RowFits
  <2> SUFFICES ASSUME IInv, NEW t \in Delivered PROVE TextLength(Row(t)) < 300
    BY DEF RowFits
  <2>1. arg[t] \in Quotes
    BY Bounds, ElementOfSeq DEF IInv, QueueInv
  <2>2. Row(t).last \in -10 .. 12 /\ Row(t).ask2 \in -11 .. 11
    BY <2>1, CleanRow DEF Row
  <2>3. Width(Row(t).last) \in 0 .. 15 /\ Width(Row(t).ask2) \in 0 .. 15
    BY <2>2 DEF Width
  <2> QED BY <2>3 DEF TextLength
<1> QED BY <1>1, Invariant, PTL

\* Only the task of a tick has a connection, and a thread has one task.
LEMMA HeldBound == IInv => ConnectionsBounded
<1> SUFFICES ASSUME IInv PROVE ConnectionsBounded
  OBVIOUS
<1>1. ~Connected(Blank)
  BY BlankSound
<1>2. held \subseteq active
  BY <1>1 DEF IInv, TypeOK, JobInv, ObjectInv
<1>3. Cardinality(held) <= Cardinality(active) /\ Cardinality(held) \in Nat
  BY <1>2, Bounds, FS_Subset, FS_CardinalityType
<1>4. Cardinality(active) <= PoolSize
  BY DEF IInv, QueueInv
<1>5. Cardinality(held) <= PoolSize
  BY <1>3, <1>4, Bounds
<1> QED BY <1>2, <1>5 DEF ConnectionsBounded

\* The server holds no more connections than the pool has threads, and none for
\* a tick whose task is over (CustomMdSpi.cpp:216-227).
THEOREM ConnectionsWithinPool == Spec => []ConnectionsBounded
BY HeldBound, Invariant, PTL

\* When a tick is stored fewer than PoolSize earlier ones are on their way.
THEOREM OvertakingBounded == Spec => []OvertakeWindow
<1>1. IInv => OvertakeWindow
  <2> SUFFICES ASSUME IInv, NEW t \in Ticks, rows[t] # << >>
               PROVE  Cardinality(Behind(t)) < PoolSize
    BY DEF OvertakeWindow, Behind
  <2>1. t \in active \cup finished
    BY DEF IInv, JobInv, RowInv, TypeOK
  <2> QED BY <2>1 DEF IInv, WindowInv
<1> QED BY <1>1, Invariant, PTL

\* Only a failed initialisation ends the process (mdiOper.h:31).
THEOREM NothingElseKills == Spec => []OnlyInitKills
BY Invariant, PTL DEF IInv

\* The process exits with every delivered tick taken to the database
\* (main.cpp:18-25, ThreadPool.h:87-96).
THEOREM ExitIsDrained == Spec => []ExitDrains
BY Invariant, PTL DEF IInv
-----------------------------------------------------------------------------
(***************************************************************************)
(* The tasks implement MySQLOper.  Taking a tick, a throw and the steps of *)
(* the other threads leave every object as it is; each other step of a     *)
(* task is a call on its object.                                           *)
(***************************************************************************)

\* The calls of MySQLOper are this module's.
LEMMA SameCalls ==
  /\ MySQL!Blank = Blank /\ MySQL!Constructed = Constructed
  /\ \A c : MySQL!Connected(c) <=> Connected(c)
  /\ \A c : MySQL!NullQuery(c) <=> NullQuery(c)
  /\ \A c : MySQL!Command(c) = Command(c)
  /\ \A c : MySQL!Connect(c) = Connect(c)
  /\ \A c : MySQL!UseDb(c) = UseDb(c)
  /\ \A c : MySQL!Disconnect(c) = Disconnect(c)
  /\ \A c : MySQL!Abandons(c) <=> Abandons(c)
  /\ \A S : MySQL!Cardinality(S) = Cardinality(S)
<1>1. MySQL!Blank = Blank /\ MySQL!Constructed = Constructed
  BY DEF MySQL!Blank, Blank, MySQL!Constructed, Constructed
<1>2. \A c : (MySQL!Connected(c) <=> Connected(c)) /\ (MySQL!NullQuery(c) <=> NullQuery(c))
  BY DEF MySQL!Connected, Connected, MySQL!NullQuery, NullQuery
<1>3. \A c : MySQL!Lost(c) = Lost(c)
  BY DEF MySQL!Lost, Lost
<1>4. \A c, ok, done : MySQL!Outcome(c, ok, done) = Outcome(c, ok, done)
  BY DEF MySQL!Outcome, Outcome
<1>5. \A c : MySQL!Command(c) = Command(c)
  BY <1>3, <1>4, Zenon DEF MySQL!Command, Command
<1>6. \A c : MySQL!Connect(c) = Connect(c)
  BY <1>5, Zenon DEF MySQL!Connect, Connect
<1>7. \A c : MySQL!UseDb(c) = UseDb(c)
  BY <1>5, Zenon DEF MySQL!UseDb, UseDb
<1>8. \A c : MySQL!Disconnect(c) = Disconnect(c)
  BY DEF MySQL!Disconnect, Disconnect
<1>9. \A c : MySQL!Abandons(c) <=> Abandons(c)
  BY DEF MySQL!Abandons, Abandons
<1>10. \A S : MySQL!Cardinality(S) = Cardinality(S)
  BY DEF MySQL!Cardinality, Cardinality
<1> QED BY <1>1, <1>2, <1>5, <1>6, <1>7, <1>8, <1>9, <1>10

\* The objects start unborn.
LEMMA InitRefines == Init => MySQL!Init
<1> SUFFICES ASSUME Init PROVE MySQL!Init
  OBVIOUS
<1>1. client = [t \in Ticks |-> MySQL!Blank]
  BY SameCalls DEF Init
<1>2. Life = [t \in Ticks |-> "unborn"]
  BY DEF Init, Life
<1>3. Closed = {} /\ held = {} /\ Crashed = FALSE
  BY DEF Init, Closed, Crashed
<1> QED BY <1>1, <1>2, <1>3 DEF MySQL!Init

\* What a step of the task of tick t means for the objects of MySQLOper.
LEMMA StepMapped ==
  ASSUME IInv, NEW t \in Ticks, NEW from \in Jobs, NEW to \in Jobs, NEW c, Step(t, from, to, c),
         from \in {"connect", "use", "insert", "disconnect"},
         to \in {"connect", "use", "insert", "disconnect", "destroy"}
  PROVE  /\ ~Crashed /\ MySQL!Return(t, c)
         /\ Closed' = IF to = "destroy" THEN Closed \cup {t} ELSE Closed
<1>1. /\ death = "none" /\ death' = death /\ job[t] = from /\ job' = [job EXCEPT ![t] = to]
      /\ client' = [client EXCEPT ![t] = c]
      /\ held' = IF Connected(c) THEN held \cup {t} ELSE held \ {t}
  BY DEF Step, Alive
<1>2. job \in [Ticks -> Jobs]
  BY DEF IInv, TypeOK
<1>3. ~Crashed /\ Crashed' = Crashed
  BY <1>1 DEF Crashed
<1>4. Life[t] = "alive" /\ Life' = Life
  BY <1>1, <1>2 DEF Life
<1>5. Closed' = IF to = "destroy" THEN Closed \cup {t} ELSE Closed
  BY <1>1, <1>2 DEF Closed
<1>6. held' = IF MySQL!Connected(c) THEN held \cup {t} ELSE held \ {t}
  BY <1>1, SameCalls
<1> QED BY <1>1, <1>3, <1>4, <1>5, <1>6 DEF MySQL!Return

\* The object is made.
LEMMA ConstructMapped ==
  ASSUME IInv, NEW t \in Ticks, Construct(t)
  PROVE  ~Crashed /\ MySQL!MySQLOper(t)
<1>1. PICK c \in Constructed : Step(t, "construct", "connect", c)
  BY DEF Construct
<1>2. /\ death = "none" /\ death' = death /\ job[t] = "construct"
      /\ job' = [job EXCEPT ![t] = "connect"]
      /\ client' = [client EXCEPT ![t] = c]
      /\ held' = IF Connected(c) THEN held \cup {t} ELSE held \ {t}
  BY <1>1 DEF Step, Alive
<1>3. job \in [Ticks -> Jobs]
  BY DEF IInv, TypeOK
<1>4. ~Crashed /\ Crashed' = Crashed
  BY <1>2 DEF Crashed
<1>5. Life[t] = "unborn" /\ Life' = [Life EXCEPT ![t] = "alive"]
  BY <1>2, <1>3 DEF Life
<1>6. Closed' = Closed
  BY <1>2, <1>3 DEF Closed
<1>7. held' = held
  <2>1. ~Connected(c) /\ ~Connected(Blank)
    BY DEF Constructed, Connected, Blank
  <2>2. t \notin held
    BY <1>2, <2>1 DEF IInv, JobInv, ObjectInv
  <2> QED BY <1>2, <2>1, <2>2
<1> QED BY <1>2, <1>4, <1>5, <1>6, <1>7, SameCalls DEF MySQL!MySQLOper

\* The calls on the object, and its destruction.
LEMMA TaskMapped ==
  ASSUME IInv, ConnectionsBounded', NEW t \in Ticks, TaskStep(t)
  PROVE  MySQL!Next
<1>1. CASE Construct(t)
  BY <1>1, ConstructMapped DEF MySQL!Next
<1>2. CASE ConnectDb(t)
  <2>1. PICK c \in Connect(client[t]) : Step(t, "connect", "use", c)
    BY <1>2 DEF ConnectDb
  <2>2. ~Crashed /\ MySQL!Return(t, c) /\ Closed' = Closed
    BY <2>1, StepMapped DEF Jobs
  <2>3. MySQL!Cardinality(held') <= PoolSize
    BY SameCalls DEF ConnectionsBounded
  <2>4. MySQL!connect(t)
    BY <2>1, <2>2, <2>3, SameCalls DEF MySQL!connect
  <2> QED BY <2>2, <2>4 DEF MySQL!Next
<1>3. CASE Use(t)
  <2>1. PICK c \in UseDb(client[t]) : Step(t, "use", "insert", c)
    BY <1>3 DEF Use
  <2>2. ~Crashed /\ MySQL!Return(t, c) /\ Closed' = Closed
    BY <2>1, StepMapped DEF Jobs
  <2>3. ~MySQL!NullQuery(client[t]) /\ c \in MySQL!UseDb(client[t])
    BY <1>3, <2>1, SameCalls DEF Use
  <2>4. MySQL!command(t)
    BY <2>2, <2>3 DEF MySQL!command
  <2> QED BY <2>2, <2>4 DEF MySQL!Next
<1>4. CASE Insert(t)
  <2>1. PICK o \in InsertOutcomes(t) : Step(t, "insert", "disconnect", o.client)
    BY <1>4 DEF Insert
  <2>2. ~Crashed /\ MySQL!Return(t, o.client) /\ Closed' = Closed
    BY <2>1, StepMapped DEF Jobs
  <2>3. ~MySQL!NullQuery(client[t]) /\ o \in MySQL!Command(client[t])
    BY <1>4, <2>1, SameCalls DEF Insert, InsertOutcomes
  <2>4. MySQL!command(t)
    BY <2>2, <2>3 DEF MySQL!command
  <2> QED BY <2>2, <2>4 DEF MySQL!Next
<1>5. CASE NullHandle(t)
  <2>1. /\ death = "none" /\ death' = "null handle" /\ held' = {}
        /\ job' = job /\ client' = client
        /\ job[t] \in {"use", "insert"} /\ NullQuery(client[t])
    BY <1>5 DEF NullHandle, Alive
  <2>2. ~Crashed /\ Crashed' = TRUE /\ Life' = Life /\ Closed' = Closed
    BY <2>1 DEF Crashed, Life, Closed
  <2>3. Life[t] = "alive"
    BY <2>1 DEF Life
  <2>4. MySQL!NullQuery(client[t])
    BY <2>1, SameCalls
  <2>5. MySQL!CrashingCall(t)
    BY <2>1, <2>2, <2>3, <2>4 DEF MySQL!CrashingCall, MySQL!Crash
  <2> QED BY <2>2, <2>5 DEF MySQL!Next
<1>6. CASE DisconnectDb(t)
  <2>1. Step(t, "disconnect", "destroy", Disconnect(client[t]))
    BY <1>6 DEF DisconnectDb
  <2>2. ~Crashed /\ MySQL!Return(t, Disconnect(client[t])) /\ Closed' = Closed \cup {t}
    BY <2>1, StepMapped DEF Jobs
  <2>3. MySQL!disconnect(t)
    BY <2>2, SameCalls DEF MySQL!disconnect
  <2> QED BY <2>2, <2>3 DEF MySQL!Next
<1>7. CASE Destroy(t)
  <2>1. /\ death = "none" /\ job[t] = "destroy"
        /\ death' = (IF FreesGarbage(client[t]) THEN "garbage result" ELSE death)
        /\ held' = IF Abandons(client[t]) THEN held ELSE held \ {t}
        /\ job' = [job EXCEPT ![t] = "done"] /\ client' = [client EXCEPT ![t] = Blank]
    BY <1>7 DEF Destroy, Alive
  <2>2. ~FreesGarbage(client[t])
    <3>1. client[t] \in Clients /\ client[t].res = "null"
      BY <2>1 DEF IInv, TypeOK, JobInv, ObjectInv
    <3> QED BY <3>1 DEF Clients, FreesGarbage, Destroyed, Disconnect
  <2>3. job \in [Ticks -> Jobs]
    BY DEF IInv, TypeOK
  <2>4. ~Crashed /\ Crashed' = Crashed
    BY <2>1, <2>2 DEF Crashed
  <2>5. Life[t] = "alive" /\ Life' = [Life EXCEPT ![t] = "gone"]
    BY <2>1, <2>3 DEF Life
  <2>6. Closed' = Closed
    BY <2>1, <2>3 DEF Closed
  <2>7. MySQL!DestructorReturns(t)
    BY <2>1, <2>4, <2>5, <2>6, SameCalls DEF MySQL!DestructorReturns
  <2> QED BY <2>4, <2>7 DEF MySQL!Next
<1> QED BY <1>1, <1>2, <1>3, <1>4, <1>5, <1>6, <1>7 DEF TaskStep

\* Every step is a call on one object or leaves them all as they are.
LEMMA StepRefines ==
  IInv /\ ConnectionsBounded' /\ [Next]_vars => [MySQL!Next]_(MySQL!vars)
<1> SUFFICES ASSUME IInv, ConnectionsBounded', [Next]_vars PROVE [MySQL!Next]_(MySQL!vars)
  OBVIOUS
<1>1. CASE UNCHANGED <<client, job, held>> /\ Crashed' = Crashed
  BY <1>1 DEF MySQL!vars, Life, Closed
<1>2. ASSUME NEW q \in Quotes, OnRtnDepthMarketData(q) PROVE [MySQL!Next]_(MySQL!vars)
  <2>1. phase = "open"
    BY <1>2 DEF OnRtnDepthMarketData, IInv, TypeOK, MainInv
  <2>2. UNCHANGED <<client, job, held, death>>
    BY <1>2, <2>1 DEF OnRtnDepthMarketData
  <2> QED BY <1>1, <2>2 DEF Crashed
<1>3. CASE Start
  <2>1. job' = [job EXCEPT ![Head(pending)] = "construct"]
        /\ UNCHANGED <<client, held, death>> /\ pending # << >>
    BY <1>3, PoolSteps DEF Start
  <2>2. pending \in Seq(Ticks) /\ job \in [Ticks -> Jobs]
    BY PoolSteps DEF IInv, TypeOK
  <2>3. Head(pending) \in Ticks /\ Head(pending) \in Range(pending)
    <3>1. Len(pending) \in Nat \ {0} /\ DOMAIN pending = 1 .. Len(pending)
      BY <2>1, <2>2, EmptySeq, LenProperties
    <3>2. Head(pending) = pending[1] /\ 1 \in DOMAIN pending
      BY <3>1
    <3> QED BY <2>2, <3>1, <3>2, ElementOfSeq DEF Range
  <2>4. job[Head(pending)] = "none"
    BY <2>3 DEF IInv, QueueInv
  <2>5. Life' = Life /\ Closed' = Closed /\ Crashed' = Crashed
    BY <2>1, <2>2, <2>3, <2>4 DEF Life, Closed, Crashed
  <2> QED BY <2>1, <2>5 DEF MySQL!vars
<1>4. ASSUME NEW t \in Ticks, TaskStep(t) PROVE [MySQL!Next]_(MySQL!vars)
  BY <1>4, TaskMapped
<1>5. ASSUME NEW t \in Ticks, Throw(t) PROVE [MySQL!Next]_(MySQL!vars)
  <2>1. PICK from \in {"connect", "use", "insert"} : Step(t, from, "disconnect", client[t])
    BY <1>5 DEF Throw
  <2>2. /\ death = "none" /\ death' = death /\ job[t] = from
        /\ job' = [job EXCEPT ![t] = "disconnect"]
        /\ client' = [client EXCEPT ![t] = client[t]]
        /\ held' = IF Connected(client[t]) THEN held \cup {t} ELSE held \ {t}
    BY <2>1 DEF Step, Alive
  <2>3. job \in [Ticks -> Jobs] /\ client \in [Ticks -> Clients]
    BY DEF IInv, TypeOK
  <2>4. Life' = Life /\ Closed' = Closed /\ Crashed' = Crashed /\ client' = client
    BY <2>2, <2>3 DEF Life, Closed, Crashed
  <2>5. t \in held <=> Connected(client[t])
    BY <2>2 DEF IInv, JobInv, ObjectInv, Alive
  <2>6. held' = held
    BY <2>2, <2>5
  <2> QED BY <2>4, <2>6 DEF MySQL!vars
<1>6. CASE ApiEnds \/ MdiMainReturns \/ MainReturns \/ Exit
  BY <1>1, <1>6 DEF ApiEnds, MdiMainReturns, MainReturns, Exit, MainMove, taskVars, Crashed
<1>7. CASE Over \/ UNCHANGED vars
  BY <1>1, <1>7 DEF Over, vars, taskVars, Crashed
<1> QED BY <1>2, <1>3, <1>4, <1>5, <1>6, <1>7 DEF Next

\* The tasks use their objects as the class allows, with no more connections
\* than the pool has threads (CustomMdSpi.cpp:216-228).
THEOREM ImplementsClient == Spec => ImplementsMySQL
BY InitRefines, StepRefines, HeldBound, Invariant, PTL DEF Spec, SafeSpec, ImplementsMySQL, MySQL!Spec

\* The class as the refinement has it and as its proofs have it are the same.
LEMMA SameMachine ==
  /\ MySQL!Init <=> Class!Init
  /\ [MySQL!Next]_(MySQL!vars) => [Class!Next]_(Class!vars)
<1>1. MySQL!Init <=> Class!Init
  BY Zenon DEF MySQL!Init, Class!Init, MySQL!Blank, Class!Blank
<1>2. MySQL!vars = Class!vars
  BY Zenon DEF MySQL!vars, Class!vars
<1>3. MySQL!Next => Class!Next
  BY Zenon
  DEF MySQL!Next, Class!Next, MySQL!MySQLOper, Class!MySQLOper,
      MySQL!connect, Class!connect, MySQL!command, Class!command, MySQL!select, Class!select,
      MySQL!disconnect, Class!disconnect, MySQL!CrashingCall, Class!CrashingCall,
      MySQL!DestructorReturns, Class!DestructorReturns,
      MySQL!DestructorCrashes, Class!DestructorCrashes,
      MySQL!Crash, Class!Crash, MySQL!Return, Class!Return,
      MySQL!Constructed, Class!Constructed, MySQL!Blank, Class!Blank,
      MySQL!Connected, Class!Connected, MySQL!NullQuery, Class!NullQuery,
      MySQL!Outcome, Class!Outcome, MySQL!Lost, Class!Lost, MySQL!Command, Class!Command,
      MySQL!Connect, Class!Connect, MySQL!UseDb, Class!UseDb,
      MySQL!QueryRows, Class!QueryRows, MySQL!Select, Class!Select,
      MySQL!Disconnect, Class!Disconnect, MySQL!Destroyed, Class!Destroyed,
      MySQL!FreesGarbage, Class!FreesGarbage, MySQL!Abandons, Class!Abandons,
      MySQL!Cardinality, Class!Cardinality
<1>4. ASSUME UNCHANGED MySQL!vars PROVE UNCHANGED Class!vars
  BY <1>4 DEF MySQL!vars, Class!vars
<1> QED BY <1>1, <1>3, <1>4

\* So what holds of the class holds of the objects of the tasks: an object that
\* was closed never has a connection again, and the server holds no connection
\* but for an object that uses it (MySQLOper.cpp:5-13, CustomMdSpi.cpp:216-228).
THEOREM ClassPromisesKept == Spec => [](Class!SlotsAccounted /\ Class!ClosedForGood)
<1>1. Spec => MySQL!Spec
  BY ImplementsClient DEF ImplementsMySQL
<1>2. MySQL!Spec => Class!Spec
  BY SameMachine, PTL DEF MySQL!Spec, Class!Spec
<1>3. Class!Spec => []Class!SlotsAccounted /\ []Class!ClosedForGood
  BY Class!ConnectionsAccounted, Class!DisconnectIsFinal
<1> QED BY <1>1, <1>2, <1>3, PTL
=============================================================================
