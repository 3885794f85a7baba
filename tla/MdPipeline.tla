----------------------------- MODULE MdPipeline -----------------------------
(***************************************************************************)
(* From a market-data callback to a row of the database, and the end of    *)
(* the process: CustomMdSpi::OnRtnDepthMarketData (CustomMdSpi.cpp:173-237) *)
(* hands each tick to the global thread pool; the task opens a connection  *)
(* of its own, inserts one row and closes it; main (main.cpp, mdiOper.h)   *)
(* waits for the API's thread, then for a key, and returns into the pool's *)
(* destructor.                                                             *)
(*                                                                         *)
(* The pool is TaskPool, which ThreadPool is shown to implement.  Ticks    *)
(* are numbered as the API delivers them, one at a time, on its thread.    *)
(* A quote stands for the twelve copied fields: "last" for the nine        *)
(* numbers checked against the common bounds, "ask2" for ask_price2, which *)
(* has bounds of its own.  All bounds are rows of nines, so a number is    *)
(* told by the digits that its magnitude, rounded up, has before the       *)
(* point, with its sign: 0 is zero, 12 at most 999999999999, -10 at least  *)
(* -9999999999, and 309 DBL_MAX, a price the exchange does not give.       *)
(***************************************************************************)
EXTENDS Integers, Sequences, FiniteSets, Functions, MySQLClient

CONSTANTS
  MaxTicks,  \* bound on the ticks the exchange sends
  PoolSize,  \* threads of the global pool (5 in the code)
  Quotes     \* what a tick may say

Ticks == 1 .. MaxTicks

ASSUME PipelineAssumption ==
  /\ MaxTicks \in Nat
  /\ PoolSize \in Nat \ {0}
  /\ Quotes # {} /\ Quotes \subseteq [last : Int, ask2 : Int]

VARIABLES
  pending, active, finished, phase,  \* the pool, see TaskPool
  buffer,    \* the field structure the API passes a pointer to, and reuses
  arg,       \* the copy of it that each tick's task was given
  job,       \* what the task of each tick does next
  client,    \* the MySQLOper object of each task
  held,      \* the tasks for which the server holds a connection
  rows,      \* the rows the server has stored for each tick
  reported,  \* the ticks for which the catch handler said that storing failed
  api,       \* the API's thread: "running" or "ended"
  main,      \* where main is
  death      \* what has killed the process, or "none"

poolVars == <<pending, active, finished, phase>>
taskVars == <<arg, job, client, held, rows, reported>>
vars == <<poolVars, buffer, taskVars, api, main, death>>

Pool == INSTANCE TaskPool WITH Tasks <- Ticks, Limit <- PoolSize

Init ==
  /\ Pool!Init
  /\ buffer \in Quotes
  /\ arg = << >>
  /\ job = [t \in Ticks |-> "none"]
  /\ client = [t \in Ticks |-> Blank]
  /\ held = {}
  /\ rows = [t \in Ticks |-> << >>]
  /\ reported = {}
  /\ api = "running"
  /\ main = "join"
  /\ death = "none"

\* The ticks delivered so far are 1 .. Len(arg).
Delivered == DOMAIN arg

Alive == death = "none"

-----------------------------------------------------------------------------
(* The API's thread. *)

\* The structure is copied and the copy bound into the task.  An exception
\* thrown by enqueue would leave the callback, and nothing catches it.
OnRtnDepthMarketData(q) ==
  /\ Alive /\ api = "running"
  /\ Len(arg) < MaxTicks
  /\ buffer' = q
  /\ arg' = Append(arg, q)
  /\ IF phase = "open"
     THEN Pool!Submit(Len(arg) + 1) /\ UNCHANGED death
     ELSE death' = "stopped pool" /\ UNCHANGED poolVars
  /\ UNCHANGED <<job, client, held, rows, reported, api, main>>

ApiEnds ==
  /\ Alive /\ api = "running"
  /\ api' = "ended"
  /\ UNCHANGED <<poolVars, buffer, taskVars, main, death>>

-----------------------------------------------------------------------------
(* The task of tick t, step by step. *)

\* Seeded fault: the newest tick is started first.
StartNewest ==
  /\ Alive
  /\ pending # << >> /\ Cardinality(active) < PoolSize
  /\ active' = active \cup {pending[Len(pending)]}
  /\ pending' = SubSeq(pending, 1, Len(pending) - 1)
  /\ job' = [job EXCEPT ![pending[Len(pending)]] = "construct"]
  /\ UNCHANGED <<finished, phase, buffer, arg, client, held, rows, reported, api, main, death>>

\* Seeded fault: the tick is started and left in the queue.
StartNoPop ==
  /\ Alive
  /\ pending # << >> /\ Cardinality(active) < PoolSize
  /\ active' = active \cup {Head(pending)}
  /\ job' = [job EXCEPT ![Head(pending)] = "construct"]
  /\ UNCHANGED <<pending, finished, phase, buffer, arg, client, held, rows, reported,
                 api, main, death>>

Start ==
  /\ Alive
  /\ Pool!Start
  /\ job' = [job EXCEPT ![Head(pending)] = "construct"]
  /\ UNCHANGED <<buffer, arg, client, held, rows, reported, api, main, death>>

\* The task goes from one step to the next with its object as c.
Step(t, from, to, c) ==
  /\ Alive
  /\ job[t] = from
  /\ job' = [job EXCEPT ![t] = to]
  /\ client' = [client EXCEPT ![t] = c]
  /\ held' = IF Connected(c) THEN held \cup {t} ELSE held \ {t}
  /\ UNCHANGED <<poolVars, buffer, arg, api, main, death>>

Construct(t) ==
  /\ \E c \in Constructed : Step(t, "construct", "connect", c)
  /\ UNCHANGED <<rows, reported>>

ConnectDb(t) ==
  /\ \E c \in Connect(client[t]) : Step(t, "connect", "use", c)
  /\ UNCHANGED <<rows, reported>>

Use(t) ==
  /\ ~NullQuery(client[t])
  /\ \E c \in UseDb(client[t]) : Step(t, "use", "insert", c)
  /\ UNCHANGED <<rows, reported>>

\* Seeded fault: ask_price2 is not compared with anything.
CleanButOne(q) ==
  [last |-> IF q.last > 12 \/ q.last < -10 THEN 0 ELSE q.last, ask2 |-> q.ask2]

\* The two comparisons of each value in the argument list of sprintf.
Clean(q) ==
  [last |-> IF q.last > 12 \/ q.last < -10 THEN 0 ELSE q.last,
   ask2 |-> IF q.ask2 > 11 \/ q.ask2 < -11 THEN 0 ELSE q.ask2]

\* Seeded fault: the task was given the pointer.
RowOfBuffer(t) == Clean(buffer)

\* The row is put together from the task's own copy.
Row(t) == Clean(arg[t])

\* The table is in the database that usedb chooses, nowhere else.
InsertOutcomes(t) ==
  {o \in Command(client[t]) : o.done => client[t].db = "chosen"}

\* Seeded fault: an insertion that reports a failure is tried again.
InsertRetried(t) ==
  /\ ~NullQuery(client[t])
  /\ \E o \in InsertOutcomes(t) :
       /\ Step(t, "insert", IF o.ok THEN "disconnect" ELSE "connect", o.client)
       /\ rows' = IF o.done THEN [rows EXCEPT ![t] = Append(@, Row(t))] ELSE rows
       /\ Len(rows'[t]) <= 2
  /\ UNCHANGED reported

Insert(t) ==
  /\ ~NullQuery(client[t])
  /\ \E o \in InsertOutcomes(t) :
       /\ Step(t, "insert", "disconnect", o.client)
       /\ rows' = IF o.done THEN [rows EXCEPT ![t] = Append(@, Row(t))] ELSE rows
  /\ UNCHANGED reported

\* usedb and insertitem go through the handle without looking at it.
NullHandle(t) ==
  /\ Alive
  /\ job[t] \in {"use", "insert"} /\ NullQuery(client[t])
  /\ death' = "null handle"
  /\ held' = {}
  /\ UNCHANGED <<poolVars, buffer, arg, job, client, rows, reported, api, main>>

\* The strings of a call cannot be allocated; catch (...) says so.
Throw(t) ==
  /\ \E from \in {"connect", "use", "insert"} : Step(t, from, "disconnect", client[t])
  /\ reported' = reported \cup {t}
  /\ UNCHANGED rows

\* Seeded fault: closing is left to the destructor.
DisconnectLeftOut(t) ==
  /\ Step(t, "disconnect", "destroy", client[t])
  /\ UNCHANGED <<rows, reported>>

DisconnectDb(t) ==
  /\ Step(t, "disconnect", "destroy", Disconnect(client[t]))
  /\ UNCHANGED <<rows, reported>>

\* The object goes out of scope and the task is over.
Destroy(t) ==
  /\ Alive
  /\ job[t] = "destroy"
  /\ IF FreesGarbage(client[t]) THEN death' = "garbage result" ELSE UNCHANGED death
  /\ held' = IF Abandons(client[t]) THEN held ELSE held \ {t}
  /\ job' = [job EXCEPT ![t] = "done"]
  /\ client' = [client EXCEPT ![t] = Blank]
  /\ Pool!Finish(t)
  /\ UNCHANGED <<buffer, arg, rows, reported, api, main>>

TaskStep(t) ==
  \/ Construct(t)
  \/ ConnectDb(t)
  \/ Use(t)
  \/ Insert(t)
  \/ NullHandle(t)
  \/ DisconnectDb(t)
  \/ Destroy(t)

-----------------------------------------------------------------------------
(* The main thread. *)

MainMove(from, to) ==
  /\ Alive
  /\ main = from
  /\ main' = to
  /\ UNCHANGED <<buffer, taskVars, api, death>>

\* Seeded fault: mdiMain does not wait for the API's thread.
MdiMainReturnsAtOnce ==
  /\ MainMove("join", "getchar")
  /\ UNCHANGED poolVars

\* mdiMain: Join returns when the API's thread has ended.
MdiMainReturns ==
  /\ api = "ended"
  /\ MainMove("join", "getchar")
  /\ UNCHANGED poolVars

\* A key is hit, main returns, and the pool's destructor sets stop ...
MainReturns ==
  /\ MainMove("getchar", "destructor")
  /\ Pool!Close

\* Seeded fault: the process ends with main.
ExitAtOnce ==
  /\ MainMove("destructor", "exited")
  /\ UNCHANGED poolVars

\* ... and joins the workers.
Exit ==
  /\ MainMove("destructor", "exited")
  /\ Pool!Join

\* The process is over.
Over == (~Alive \/ main = "exited") /\ UNCHANGED vars

Next ==
  \/ \E q \in Quotes : OnRtnDepthMarketData(q)
  \/ ApiEnds
  \/ Start
  \/ \E t \in Ticks : TaskStep(t) \/ Throw(t)
  \/ MdiMainReturns
  \/ MainReturns
  \/ Exit
  \/ Over

(***************************************************************************)
(* The workers run, and so does main once nothing keeps it waiting; no     *)
(* call on the database hangs.  Ticks need not come, the API's thread need *)
(* not end and nobody has to hit a key.                                    *)
(***************************************************************************)
Fairness ==
  /\ WF_vars(Start)
  /\ \A t \in Ticks : WF_vars(TaskStep(t))
  /\ WF_vars(MdiMainReturns)
  /\ WF_vars(Exit)

SafeSpec == Init /\ [][Next]_vars

Spec == SafeSpec /\ Fairness

-----------------------------------------------------------------------------
(* Properties *)

Jobs == {"none", "construct", "connect", "use", "insert", "disconnect", "destroy", "done"}

\* The variables have their types, and a tick's job says where the pool has it.
TypeOK ==
  /\ Pool!TypeOK
  /\ buffer \in Quotes /\ arg \in Seq(Quotes) /\ Len(arg) <= MaxTicks
  /\ job \in [Ticks -> Jobs]
  /\ client \in [Ticks -> Clients]
  /\ held \subseteq Ticks /\ reported \subseteq Ticks
  /\ api \in {"running", "ended"}
  /\ main \in {"join", "getchar", "destructor", "exited"}
  /\ death \in {"none", "null handle", "stopped pool", "garbage result"}
  /\ active = {t \in Ticks : job[t] \notin {"none", "done"}}
  /\ finished = {t \in Ticks : job[t] = "done"}

\* A tick is stored at most once, although an insertion whose connection broke
\* may have been carried out (CustomMdSpi.cpp:217-227).
AtMostOneRow == \A t \in Ticks : Len(rows[t]) <= 1

\* What a number may be for its column.
Within == [last |-> -10 .. 12, ask2 |-> -11 .. 11]

\* A row says what the exchange said in that tick, however many ticks the API
\* has written over its structure since, number by number, with nothing but a
\* zero for one that is out of bounds (CustomMdSpi.cpp:184-197, 203-215).
RowIntegrity ==
  \A t \in Delivered : \A r \in Range(rows[t]) : \A column \in DOMAIN Within :
    r[column] = IF arg[t][column] \in Within[column] THEN arg[t][column] ELSE 0

\* The characters of a number printed with %.2f: sign, digits, point, decimals.
Width(n) == IF n = 0 THEN 4 ELSE IF n < 0 THEN 4 - n ELSE n + 3

\* The most characters of a row's text: quoted date and instrument, ten numbers,
\* the mark and the commas.
TextLength(r) == 10 + 32 + 9 * Width(r.last) + Width(r.ask2) + 1 + 12

\* The text of a row, with the 0 that ends it, finds room in values[300], which a
\* single price that is not given would overrun (CustomMdSpi.cpp:202-215).
RowFits == \A t \in Delivered : TextLength(Row(t)) < 300

\* The server never holds more connections of this process than the pool has
\* threads, and none for a tick whose task is over (CustomMdSpi.cpp:216-227).
ConnectionsBounded == held \subseteq active /\ Cardinality(held) <= PoolSize

\* Ticks are stored out of order, but not by much: when a tick has been stored
\* fewer than PoolSize earlier ones are still on their way.
OvertakeWindow ==
  \A t \in Ticks : rows[t] # << >> =>
    Cardinality({u \in Ticks : u < t /\ u \notin finished}) < PoolSize

\* Of all that can go wrong with a task only a failed mysql_init ends the
\* process, at the first command: enqueue never meets a stopped pool, because
\* mdiMain has joined the API's thread; no later command finds the handle gone;
\* and the destructor never frees a pointer nobody has set, because every way
\* through the task calls disconnect (mdiOper.h:31, CustomMdSpi.cpp:216-227).
OnlyInitKills ==
  /\ death \in {"none", "null handle"}
  /\ death = "null handle" => \E t \in active : job[t] = "use" /\ NullQuery(client[t])

\* The process exits with the queue drained: every tick that was delivered has
\* been taken to the database (main.cpp:18-25, ThreadPool.h:87-96).
ExitDrains == main = "exited" => Delivered \subseteq finished

\* The life of a tick's object, the objects that have been closed, and whether
\* the process has died of a pointer.
Life == [t \in Ticks |-> CASE job[t] \in {"none", "construct"} -> "unborn"
                            [] job[t] = "done" -> "gone"
                            [] OTHER -> "alive"]
Closed == {t \in Ticks : job[t] \in {"destroy", "done"}}
Crashed == death \in {"null handle", "garbage result"}

MySQL == INSTANCE MySQLOper WITH
  Objects <- Ticks, MaxConnections <- PoolSize,
  obj <- client, phase <- Life, closed <- Closed, crashed <- Crashed

\* The tasks use their objects as the class allows: each life of one, mapped
\* from the steps of its task, is a life that MySQLOper describes, with no more
\* connections than the pool has threads (CustomMdSpi.cpp:216-228).
ImplementsMySQL == MySQL!Spec

\* Every tick is taken to the database in the end, or the process dies.
EveryTickTaken ==
  \A t \in Ticks : t \in Delivered ~> t \in finished \/ death # "none"
=============================================================================
