# TLA+ models and proofs for ctpOper

ctpOper is a client of the Chinese futures exchanges' CTP interface. It takes
market data, stores every tick in a MySQL table through a thread pool, can turn
ticks into k-lines (bars), and has a trading side with a small strategy. This
directory models its own code (about 1500 lines under `src/src/`; the CTP and
MySQL libraries beside it are vendored binaries with headers). File and line
numbers below are relative to `src/src/`.

All modules parse with SANY, all `.cfg` files are checked by TLC, and the eight
modules named `...Proofs` are checked by TLAPS.

## 1. Inventory

| Component | State | Operations | Modelled in |
|---|---|---|---|
| Thread pool, `ThreadPool.h` | queue, mutex, condition variable, `stop`, the workers' own `task` | constructor, worker loop, `enqueue`, destructor | `ThreadPool`, `TaskPool` |
| MySQL wrapper, `MySQLOper.cpp` | handle `sql`, `res`, `connect_flag` | constructors, `connect`, `usedb`, `insertitem`, `selectitem`, ..., `disconnect`, destructor | `MySQLClient`, `MySQLOper` |
| Tick to database, `CustomMdSpi.cpp:173-237`, `mdiOper.h`, `main.cpp` | the API's buffer, the tasks' copies, the global `pool`, the rows of the table | `OnRtnDepthMarketData`, the task it enqueues, `mdiMain`, `main` | `MdPipeline` |
| Market-data session, `CustomMdSpi.cpp:23-121, 173-228` | the link, what the front has granted, callbacks under way, ticks on their way to the pool | `OnFrontConnected`, `OnFrontDisconnected`, `OnRspUserLogin`, `OnRspSubMarketData`, `OnRtnDepthMarketData` as far as the pool | `CtpFront`, `MdSession`, `TaskPool` |
| K-line helper, `TickToKlineHelper.cpp` | `m_priceVec`, `m_volumeVec`, `m_KLineDataArray`, the file written | `KLineFromLocalData`, `KLineFromRealtimeData` | `TickToKline` |
| Trading session, `CustomTradeSpi.cpp` | `loginFlag`, `order_ref`, `session_id`, the link, callbacks under way | the chain login, settlement, instrument, account, position, strategy | `CtpFront`, `TradeSession` |
| Strategy, `StrategyTrade.cpp` | a copy of the k-line helper; orders | `StrategyCheckAndTrade`, `reqOrderInsert` | `Strategy` |
| Start of the trading side, `tradeOper.h` | the topics it subscribes to | `tradeMain`, called from nowhere | the initial state of `TradeSession` |
| Trial program, `testdb.cpp` | | `func`, called from nowhere | not modelled |
| CTP library, MySQL client | binaries | | `CtpFront` and `MySQLClient!Command`, as far as the code relies on them |

### How the components interact

* The CTP library runs one callback thread per API object. `CustomMdSpi` and
  `CustomTradeSpi` do everything in its callbacks; a request is made in the
  callback that answers the one before (`CustomMdSpi.cpp:21`).
* `OnRtnDepthMarketData` copies twelve fields and hands the copy to the global
  `ThreadPool pool(5)`. Each task makes its own `MySQLOper`, connects, inserts
  one row and disconnects. Nobody looks at the future.
* `main` waits in `mdiMain` for the library's thread (`Join`), then for a key, and
  returns; the destructor of the global pool then runs what is queued.
* `g_KlineHash` is the only link between the two sides: the market-data thread
  would write it (the code is commented out, `CustomMdSpi.cpp:230-236`), the
  strategy reads it under a mutex that the writer does not take.

### What is hard here

Interleavings of the pool's threads with its destructor; a structure that the
API reuses while a task still needs it; insertions whose outcome is unknown
because the connection broke; server connections that only an explicit call
gives back; a pointer that no constructor sets; late callbacks of a link that is
gone, which set off requests on the next one; requests that fail and are not
repeated; prices that are not given, in a row and in a buffer; counters,
boundaries and malformed lines in the k-line. `PROJECT.json` lists each at its
line, with the properties that watch it or the reason why none does.

## 2. Modules

```
 TaskPool  <--- refined by ---  ThreadPool
    |
    | instantiated by
    +----> MdPipeline  --- refines --->  MySQLOper
    |          |                             |
    |          +---- extends MySQLClient ----+
    |
    +----> MdSession  --- extends --->  CtpFront  <--- extends ---  TradeSession

 TickToKline                                                        Strategy
```

Proofs about a module are in the module of its name with `Proofs` added;
`MdPipelineProofs` instantiates `MySQLOperProofs` under the refinement mapping, for
its lemmas on objects and for its theorems, and `MdSessionProofs` and
`TradeSessionProofs` extend `CtpFrontProofs`, which holds the lemmas on the front.

`MCxxx` modules only give constants their values. A definition that begins with
the comment *Seeded fault* is a wrong variant of its neighbour: putting it in
the neighbour's place must break a property, which shows that the property
depends on the code. The specifications never use them.

### ThreadPool, TaskPool

Every thread has a program counter; a step is what a thread does between two
points where another can notice. `WorkerPredFalse` and `WorkerBlock` are two
steps, so that it takes the mutex to keep a notification from falling between
the test of the predicate and going to sleep. `notify_one` wakes any sleeper,
and a sleeper may wake without a notification. `enqueue` may be under way while
the destructor runs, and throws if it finds `stop` set. A task is opaque:
`packaged_task` makes its future ready whether it returns or throws.

| Code | Action |
|---|---|
| `ThreadPool.h:37-58` | `SpawnWorker`, `CtorReturn` |
| `:46` / `:47-48` / `:49-50` / `:51-52` / `:55` | `WorkerLock` / `WorkerPredFalse`, `WorkerBlock`, `SpuriousWake` / `WorkerExit` / `WorkerTake` / `WorkerRun` |
| `:68-72` / `:74` / `:77-78` / `:80` / `:82` | `EnqCall` / `EnqLock` / `EnqThrow` / `EnqPush` / `EnqNotify` |
| `:87` / `:90` / `:91` / `:93` / `:94-95` | `DtorCall` / `DtorLock` / `DtorStop` / `DtorNotify` / `DtorJoin` |

`TaskPool` says what clients may rely on: FIFO start, a limit on running tasks,
every accepted task runs once, the pool ends only when all have. `ThreadPool`
maps to it with its own queue as `pending`, the tasks of workers at label `run`
as `active`, the ready futures as `finished`.

### MySQLClient, MySQLOper

An object is a record of its handle, selected database, `res`, rows left unread
and `connect_flag`; one that does not exist is `Blank`. An operator of
`MySQLClient` yields the outcomes of a call. A command on an open connection
succeeds, is refused, or loses the connection, and then it may have been carried
out or not. `MySQLOper` lets objects live with their methods called in any
order. Using a null handle or copying a NULL column ends the process; freeing
the pointer that nobody has set may.

### MdPipeline

`TaskPool` is instantiated for the pool, so a tick's task is the atomic unit of
the pool and a sequence of steps (`Construct`, `ConnectDb`, `Use`, `Insert`,
`DisconnectDb`, `Destroy`, or `Throw` from the middle ones) of its own. The
API's buffer is overwritten by every callback. The value checks before `sprintf`
are `Clean`. All the bounds they compare with are rows of nines, so a number is
modelled by the digits that its magnitude, rounded up, has before the point, with
its sign: comparing with `999999999999` is comparing with 12, with `-9999999999`
with -10, and `DBL_MAX`, a price the exchange does not give, is 309. The same
number says how much room it takes when it is printed, so `RowFits` can add up
the text of a row and set it against `values[300]`. `ask_price2` has bounds of
its own (`CustomMdSpi.cpp:214`), and a column of its own in the model.
The end of the process is `ApiEnds`, `MdiMainReturns`, `MainReturns`, `Exit`.

`MySQLOper` is also an abstract specification of what a task does with its
object: `Life`, `Closed` and `Crashed` read the life of a tick's object off the
step its task is at, and under this mapping `MdPipeline` implements `MySQLOper`
with as many connections as the pool has threads (`ImplementsMySQL`).

### CtpFront, MdSession, TradeSession

`CtpFront` is the library and the front. Requests are answered in order, and one
made before those it `Needs` have been granted is refused. The link may break:
requests under way are then lost, but callbacks already queued are still
delivered. Every answer carries the number of the link it was given on, so that
the sessions can tell a late one. A request may also fail on a link that is
up, when it is made or when it is answered (`failed`); the code only prints a
message, so nothing repeats it. A query is answered by one callback for each
record, or by one without a record. `Notify` is for what the front sends
unasked, the ticks of `MdSession`.

The sessions have one action per callback that changes something; callbacks
that only print have none.

`MdSession` follows every tick from the front into the pool, which is `TaskPool`
again: ticks are sent on a link with the subscription, queue up among the other
callbacks, and go to `Submit`, whatever has become of their link.

`TradeSession` is the program as it is compiled at this commit. Its last callback
enters the strategy and keeps the thread (`trading`); the strategy looks its
instrument up in `g_KlineHash`, which nothing fills, and the process ends
(`StrategyThrows`). No order is ever sent from here, and none is modelled here:
what the strategy does where the feed is compiled in is in `Strategy`. Two
history variables serve the properties. `confirmed` notes the steps answered
without error, on whatever link. `hasty` notes that the client has asked for a
login on the present link in the callback `OnFrontConnected` of a link that had
broken before the callback was made; the news of the break is then still in the
queue, and the client will ask for a login again.

| Code | Action |
|---|---|
| `CustomMdSpi.cpp:23-38` / `:41-45` / `:55-78` / `:107-121` / `:173-200` | `OnFrontConnected` / `OnFrontDisconnected` / `OnRspUserLogin` / `OnRspSubMarketData` / `OnRtnDepthMarketData` |
| `CustomTradeSpi.cpp:27-67` | `OnFrontConnected`, `OnRspUserLogin`, `OnFrontDisconnected` |
| `:90-176` | `OnRspSettlementInfoConfirm`, `OnRspQryInstrument`, `OnRspQryTradingAccount`, `OnRspQryInvestorPosition`, each of the queries with a `Null` variant where it prints through the pointer |
| `:247-333` | the `req...` operators |

### TickToKline

A file is converted line by line (`KLineFromLocalDataBegins`, `ReadLine`,
`KLineFromLocalDataEnds`); the members are shared with `KLineFromRealtimeData`, so
what a conversion leaves behind meets pushed ticks. A line of three fields has a
price and no volume, a shorter one nothing. If no line of a bar had a volume,
`front()` and `back()` read an empty vector: the volume is then anything
(`Garbage` stands for it, and no property looks at it) or the process dies
(`ReadLineDies`). `DayEnds` sets the exchange's count of the volume back.
`Gather` is the body of both loops. The history variable `stream` holds the
ticks since the helper was last emptied, and the properties state what the bars
should be from it alone, by the places of its ticks (`IsBarOf`: opened by the
first, closed by the last, no price above or below, the volume of the last tick
that had one less that of the first), without using `Gather` or `Bar`.

### Strategy

One pass is `CopyBegins`, `CopyEnds` (or `CopyDies`) and
`StrategyCheckAndTrade`; ticks may fall between any two. If one falls into the
copying the copy is arbitrary, or the process dies: that is what a data race
allows. The module assumes the feed compiled in.

## 3. Runs

Each module has a run whose configuration has its name; `MdPipeline` has two,
because what is in a row multiplies with everything else and depends on none of
it.

| Run | Bounds | What it shows |
|---|---|---|
| `thread_pool` | 3 workers, 2 submitters, 3 tasks | `MutexOwner`, `OnePlace`, `NoLostWakeup`, `StopWakesAll`, `DrainedAtEnd`; `ImplementsPool` (refinement, fairness included), `DestructorReturns` |
| `mysql_oper` | 2 objects, 1 connection | `SlotsAccounted`, `ClosedForGood` |
| `md_pipeline` | 3 ticks, pool of 2, 1 quote | `AtMostOneRow`, `ConnectionsBounded`, `OvertakeWindow`, `OnlyInitKills`, `ExitDrains`; `EveryTickTaken`; `ImplementsMySQL` (refinement) |
| `md_quotes` | 2 ticks, pool of 2, 5 quotes | what is in a row: `RowIntegrity`, `RowFits` |
| `kline` | bars of 3, 4 files, up to 7 ticks, 2 prices, volume up to 3, 1 end of a day | `BarsExact`, `VolumeNotOvercounted` |
| `md_session` | 3 broken links, 3 ticks, pool of 2 | `NeverStuck`, `TicksInOrder`; `EndsSubscribed`, `TicksTaken` |
| `trade_session` | 3 broken links, 2/1/1 records of instrument, account, position | `StrategyAfterChain`, `SettledOnItsLink`; `ComesToTrade` |
| `strategy` | bars of 4, 3 prices, 1 order | `OrdersFounded` |

The run with its module's name also checks the module's `TypeOK`. `strategy`, and
the two runs on the strategy below, take the feed of the k-line helper
(`CustomMdSpi.cpp:230-236`) as compiled in; at this commit it is commented out.

Runs that end in a counterexample, each of a sentence the repository says of
itself:

| Run | What the repository says | What the code does |
|---|---|---|
| `kline_volume_of_interval` | `TickToKlineHelper.cpp:97`: last volume less that of the previous interval | less the *first* of the same interval: trades between bars are in no bar |
| `kline_tail_dropped` | `:9`: an incomplete last minute is dropped | it stays in the vectors and becomes the head of the next bar of pushed ticks |
| `strategy_falling_is_sold` | `StrategyTrade.cpp:24`: rising is bought, the reverse sold | both branches buy |
| `strategy_order_refs` | `CTP_API/error.xml:27`: no repeated order reference | every order carries the reference of the login |

Three more disagreements are in the models but have no run:

* A task that cannot store its tick is meant to say so (`CustomMdSpi.cpp:225`);
  if the server refuses the statement, `insertitem` returns without a word
  (`MySQLOper.cpp:168`) and nobody looks at the future. `EveryTickTaken`
  therefore speaks of an attempt, not of a row.
* `README.md:2` promises a strategy. As compiled nothing fills `g_KlineHash`, so
  `at()` throws in the first pass and the process ends (`StrategyThrows`).
* The strategy takes a lock around the copy (`StrategyTrade.cpp:16`); the writer
  does not take it, so an order can follow prices that never were.
  `OrdersFounded` speaks only of copies that no tick disturbed.

### Bounds, and why they are enough

* The pool's code treats workers alike, so two of them show every race between
  workers, and a third is there for a notification that wakes the wrong one.
  Two submitters make concurrent calls; with three tasks a call can also meet
  two that are queued or running.
  The theorems below are for any number.
* In `MdPipeline` three ticks and two workers are the smallest instance in which
  a tick waits in the queue while two overtake each other. What a quote says
  decides no step, so one quote is enough there. `md_quotes` has the last number
  in and the first number out of every bound, in both columns, and the price that
  is not given; the quotes differ from each other, so that a row of the wrong
  tick shows, for which two ticks suffice.
* Bars of three with up to seven ticks give two whole bars and a tail. The files:
  none, one with a tail in which a day ends, one with lines of two and of three
  fields, one that begins with a bar without any volume. One end of a day may
  fall anywhere, between two bars or into one.
* In `MdSession` three broken links allow callbacks of two earlier links to be
  under way on the current one, and three ticks can be spread over the queue of
  callbacks, the queue of the pool and a worker.
* In `TradeSession` the query of the instrument is answered with two records, each
  of which sets off the rest of the chain, so that the chain forks. Three broken
  links are the least at which a chain left over from an earlier link can go on
  behind a hasty login: without `~hasty`, `SettledOnItsLink` holds with two and
  is violated with three. The front insists on the login and on nothing else
  (`error.xml:11`), which leaves the client the most room.
* In `Strategy`, `MaxOrders` ends the passes after the first order (two in the runs
  that compare orders).
* `CHECK_DEADLOCK FALSE` stands where the system may stop: a client whose
  process has died or whose objects are gone, a session with nothing left to
  answer, a helper at its bound.

### Fairness

Threads of the pool run when they can (weak fairness of every worker, submitter
in a call, and the main thread); nobody has to call `enqueue` or the
destructor, and spurious wakeups end at some time. The scheduler of the
operating system justifies the first, and the last only excludes a worker that
wakes forever for nothing. The mutex needs no strong fairness here: a thread
that holds it always gives it back, and in the finite instances each worker
sleeps or leaves. In `MdPipeline` no call on the database hangs, ticks need not
come, the API need not end, and nobody has to hit a key. In the sessions the
library reconnects and makes its callbacks (`CustomMdSpi.h:15`), the front
answers, and the link breaks only finitely often. Nothing makes a request
succeed: `EndsSubscribed` and `ComesToTrade` hold up to a request that has failed
on the last link, which the code does not repeat; one that failed on an earlier
link is no excuse. Ticks need not come, but a tick that was sent is worked on
(`TicksTaken`), whatever its link does. `ComesToTrade` also counts as an end the
process that dies at a query without a record, which nothing in the code
prevents.

## 4. Proofs

Each theorem holds of the specification for all values of the constants that
satisfy the named assumption of the module; none is about the bounds of a run.
The properties are checked by TLC as well; the parts that only strengthen an
inductive invariant are not part of a run, for the proof is all they are for.

| Module | Assumption | Proved |
|---|---|---|
| `ThreadPoolProofs` | `ThreadsAssumption`: the thread sets are disjoint, finitely many workers and at least one, the null values are not threads or tasks | `TypeCorrect`, `MutualExclusion`, `ExactlyOnePlace`, `WakeupNotLost`, `StopReachesAll`, `Drained`; `Refinement` |
| `MySQLOperProofs` | none | `TypeCorrect`, `ConnectionsAccounted`, `DisconnectIsFinal` |
| `MdPipelineProofs` | `PipelineAssumption`: a natural number of ticks, at least one thread, some quotes of integers | `TypeCorrect`, `StoredOnce`, `RowsTrue`, `RowsFit`, `ConnectionsWithinPool`, `OvertakingBounded`, `NothingElseKills`, `ExitIsDrained`; `ImplementsClient`, `ClassPromisesKept` |
| `TickToKlineProofs` | `KlineAssumption`: bars of at least one tick, some prices, all integers, steps of the trade that are natural numbers, files of lines | `TypeCorrect`, `BarsAreExact`, `VolumeIsTrue` |
| `MdSessionProofs` | `FrontAssumption`, `MdAssumption`: login comes first, the subscription does not need itself | `TypeCorrect`, `NotStuck`, `TicksStayInOrder` |
| `TradeSessionProofs` | `FrontAssumption`, `TradeAssumption`: the requests are the five steps, and the front grants the others only after a login (`error.xml:11`) | `TypeCorrect`, `ChainBeforeStrategy`, `SettledThere` |
| `StrategyProofs` | `StrategyAssumption`: the prices are integers | `TypeCorrect`, `OrdersAreFounded` |

These include every invariant of every passing run. `Needs` and `Records` of a
session are otherwise free: the theorems do not depend on what else the front of
a particular broker insists on.

**ThreadPool.** The inductive invariant is

    IInv == TypeOK /\ MutexOwner /\ LeaveInv /\ OnePlace /\ NoLostWakeup /\ StopWakesAll

`LeaveInv` is the strengthening: a worker about to sleep (label `block`) has
seen an empty queue and a pool not stopped, and this is still so, because the
writers of both need the mutex that it holds; a worker that has left did so
with `stop` set and an empty queue, and the queue stays empty because `enqueue`
refuses once `stop` is set. With it `NoLostWakeup` is inductive (the last worker
to sleep sleeps on an empty queue; every push is followed by a notification),
`StopWakesAll` is (nobody can pass the predicate once `stop` is set, and
`notify_all` has woken the others), and `DrainedAtEnd` follows: when every
worker has left the queue is empty, no call is in progress, and by `OnePlace`
no future is pending. There is one lemma per conjunct with one step per action.

`Refinement` is the safety half of `ImplementsPool`, `SafeSpec => Pool!SafeSpec`.
A push, a take, the end of a task, setting `stop` and the return of the
destructor are steps of `TaskPool`, one lemma each; every other step leaves the
queue, the running tasks, the ready futures and the phase alone. That a take
respects the limit on running tasks is a matter of cardinalities (`WorkerFree`):
the tasks in hand are an image of workers other than the one that takes.

**MySQLOper.** `ObjectInv` adds that an object that is not alive is blank, that one
yet to be born has neither been closed nor connected, that nothing ever sets
`connect_flag`, and that no connection outlives the process. One lemma,
`ReturnKeeps`, serves every method that leaves its object sound.

**MdPipeline.** The invariant has a part for each actor. `MainInv`: the pool is open
until the API's thread has ended. `QueueInv`: a delivered tick is in one place,
and the queue holds the latest ticks in order. `JobInv`: what a task's object,
connection and row can be at each of its steps; here it is decided that a row is
the tick's own and that the destructor meets a closed object. `WindowInv`: a tick
is begun when fewer than `PoolSize` earlier ones are unfinished. This needs the
order of the queue: when the head is started everything unfinished before it is
running, and there is a free worker. `OvertakeWindow` itself is not inductive, for
it says nothing of ticks not yet stored.

`ImplementsClient` is the whole of `ImplementsMySQL`. Construction, connection,
`usedb`, the insertion, `disconnect`, the destructor and a call on a null handle
map to the steps of `MySQLOper` of these names or kinds; taking a tick, an
exception and the steps of the other threads leave all objects as they are. The
server's limit comes from `ConnectionsBounded`, and that the destructor never
frees garbage from `JobInv`. With it the theorems on the class are theorems on
the program's own objects: `ClassPromisesKept` is
`[](Class!SlotsAccounted /\ Class!ClosedForGood)`, cited and not proved again.

**MdSession.** `TypeOK /\ NeverStuck /\ TicksInOrder` is inductive as it stands. Each
of the links in the chain hands over to the next in one step, and a late
callback can only add a request. `TicksInOrder` says that the ticks submitted are
those sent less those still in the library's queue, in order. An event put at
the end of that queue adds the latest tick or none (`OthersAdded`, `TickAdded`); a
callback takes the head, and as the ticks in the queue are in order it takes the
least of those not delivered (`LeastTaken`), which is greater than all delivered.

**TickToKline.** The inductive invariant is

    IInv == TypeOK /\ BarsExact /\ CountInv /\ FileFirst

`BarsExact` speaks of the bars written to the file followed by those in memory, so
it needs `FileFirst`: bars are written to the file only while there are none in
memory. `VolumeNotOvercounted` does not follow from it without knowing how the
exchange counts. `CountInv`: every pushed tick has a volume; the counts of two on the
same day differ by what was traded between them, and that of a tick on a later
day is at most that, for the count began anew. With bars and vectors described by places in the stream, a tick taken (`TickTaken`), a bar made
(`BarMade`) and the cut that grows by one bar (`CutKept`, `CutLonger`) are a lemma
each, and both loops of the code cite them (`TickKeeps`). The library's maximum and
minimum of a set are choices; that there is something to choose
(`GreatestElement`, `LeastElement`) is an induction on the length of the vector, carried
out on sets of numbers with the well-foundedness of the natural numbers
(`UpFromOne`). That the blocks of `kDataLineNum`
ticks neither overlap nor run past the stream is multiplication by a constant,
which the solver needs spelt out (`Blocks`, `BlocksInOrder`, `BlockWithin`).

**TradeSession.** The inductive invariant is

    IInv == TypeOK /\ ChainInv /\ NumberInv /\ LinkInv /\ StrategyAfterChain /\ SettledOnItsLink

Three things have to be known of everything under way, requests as well as
callbacks. `ChainInv`: the steps before it have been confirmed, on whatever link;
this gives `StrategyAfterChain`. `NumberInv`: an answer of an earlier link has the
news of the break behind it in the queue, for the break was put there after the
answer. `LinkInv`: unless the client was hasty, it asks for a login on a link only
when no such news is left in the queue, so every late answer has been delivered
before; what the late answers set off on this link goes to the front before any
login and is refused, and of everything else the steps before it have been granted
on this link (`Due`, `NewsInv`, `GrantInv`). `SettledOnItsLink` follows when the
answer to the last query is delivered.

**Strategy.** `PassInv`: a copy that no tick has come into is the market that the pass
noted at its start.

What stays with TLC is liveness, which is out of the reach of the proof system
here: `DestructorReturns`, `EveryTickTaken`, `EndsSubscribed`, `TicksTaken`,
`ComesToTrade`, and the fairness part of `ImplementsPool`.

## 5. Not modelled

* Text: the statements sent to the server and what is printed; of the text of a
  row only its length (`RowFits`).
* Time: the 700 ms pauses before queries (`CustomTradeSpi.cpp:311, 327`), the rate
  of ticks, and with it the growth of the queue.
* The one-time initialisation of the MySQL library, which five workers may race
  into; the mechanism is inside the binary.
* Callbacks that only print: heartbeats, quotes, errors, logout and
  unsubscription of the market-data side; `OnRspError`, `OnRspOrderInsert`,
  `OnRspOrderAction`, `OnRtnTrade` and `OnRtnOrder` of the trading side, the last with
  `isMyOrder`, which only decides what is printed. The topics that `tradeMain`
  subscribes to decide which of these come.
* The order of the strategy as seen by the front and by later callbacks:
  `reqOrderInsert` is in `Strategy`, as far as what it sends.
* `reqUserLogout`, `reqOrderInsert()` without parameters and `reqOrderAction`, which
  nothing calls, and with them `OnRspUserLogout`, the only place that clears
  `loginFlag`: no run of the program gets there.
* The rest of `tradeMain` and `testdb.cpp`, which nothing calls. `func` of the
  latter makes calls on a `MySQLOper` in one of the orders that the module of that
  name allows.
* The vendored headers of CTP and MySQL, which are most of the lines under `src/`;
  they declare types and have no behaviour of their own. The program itself is
  about 1500 lines, more than a third of them printing, comments and the filling
  of request structures.

## 6. Plan

Done: the inventory; `ThreadPool` with its abstract specification, invariants
and refinement proved; `MdPipeline` on top of it and its refinement of
`MySQLOper`, proved as well; the two sessions with failing requests, late answers and
ticks; the k-line helper with malformed lines and the end of a
day; the strategy; the safety properties of all of them proved.

Left, should it be wanted: one module in which `Strategy` and `TradeSession` run
against the same helper, worth the states only once `g_KlineHash` is filled.
