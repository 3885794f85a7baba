----------------------------- MODULE MySQLOper -----------------------------
(***************************************************************************)
(* MySQLOper objects from construction to destruction, their public        *)
(* methods called in any order, and the server they share: it may refuse a *)
(* command, drop a connection, and has no more than MaxConnections.        *)
(***************************************************************************)
EXTENDS MySQLClient, Naturals, FiniteSets

CONSTANTS
  Objects,        \* the objects of the process
  MaxConnections  \* connections the server accepts at a time

VARIABLES
  obj,      \* each object
  phase,    \* of each object: "unborn", "alive" or "gone" (destroyed)
  closed,   \* the objects on which disconnect has been called
  held,     \* the objects for which the server holds a connection
  crashed   \* the process has died of a null or garbage pointer

vars == <<obj, phase, closed, held, crashed>>

Init ==
  /\ obj = [o \in Objects |-> Blank]
  /\ phase = [o \in Objects |-> "unborn"]
  /\ closed = {}
  /\ held = {}
  /\ crashed = FALSE

\* The constructors, with and without an argument.
MySQLOper(o) ==
  /\ phase[o] = "unborn"
  /\ phase' = [phase EXCEPT ![o] = "alive"]
  /\ \E c \in Constructed : obj' = [obj EXCEPT ![o] = c]
  /\ UNCHANGED <<closed, held, crashed>>

\* A method leaves its object as c, connected or not.
Return(o, c) ==
  /\ phase[o] = "alive"
  /\ obj' = [obj EXCEPT ![o] = c]
  /\ held' = IF Connected(c) THEN held \cup {o} ELSE held \ {o}
  /\ UNCHANGED <<phase, crashed>>

\* The process dies, and with it every connection.
Crash ==
  /\ crashed' = TRUE
  /\ held' = {}
  /\ UNCHANGED <<obj, phase, closed>>

connect(o) ==
  /\ \E c \in Connect(obj[o]) :
       /\ Return(o, c)
       /\ Cardinality(held') <= MaxConnections
  /\ UNCHANGED closed

\* createdb, deletedb, createtb, insertitem, deleteitem, updateitem, usedb and
\* query differ in the text they send and in what it leaves on the server.
command(o) ==
  /\ ~NullQuery(obj[o])
  /\ \E c \in {r.client : r \in Command(obj[o])} \cup UseDb(obj[o]) \cup QueryRows(obj[o]) :
       Return(o, c)
  /\ UNCHANGED closed

\* selectitem, showdb, showtb.
select(o) ==
  /\ ~NullQuery(obj[o])
  /\ \E c \in Select(obj[o]) : Return(o, c)
  /\ UNCHANGED closed

\* Any of these methods on a null handle, and a NULL column of a result, which
\* is a null pointer given to std::string or to operator<<.
CrashingCall(o) ==
  /\ phase[o] = "alive"
  /\ NullQuery(obj[o]) \/ \E r \in Command(obj[o]) : r.ok
  /\ Crash

\* Seeded fault: the connection is closed only if connect_flag says so.
disconnectByFlag(o) ==
  /\ Return(o, IF obj[o].connect_flag THEN Disconnect(obj[o]) ELSE obj[o])
  /\ closed' = closed \cup {o}

\* Seeded fault: res is not reset.
disconnectKeepsRes(o) ==
  /\ Return(o, [Disconnect(obj[o]) EXCEPT !.res = obj[o].res])
  /\ closed' = closed \cup {o}

disconnect(o) ==
  /\ Return(o, Disconnect(obj[o]))
  /\ closed' = closed \cup {o}

\* Freeing through a pointer nobody has set is undefined: the process may die
\* of it, or go on as if nothing had been freed.
DestructorReturns(o) ==
  /\ phase[o] = "alive"
  /\ phase' = [phase EXCEPT ![o] = "gone"]
  /\ obj' = [obj EXCEPT ![o] = Blank]
  /\ held' = IF Abandons(obj[o]) THEN held ELSE held \ {o}
  /\ UNCHANGED <<closed, crashed>>

DestructorCrashes(o) ==
  /\ phase[o] = "alive"
  /\ FreesGarbage(obj[o])
  /\ Crash

Next ==
  /\ ~crashed
  /\ \E o \in Objects :
       \/ MySQLOper(o)
       \/ connect(o)
       \/ command(o)
       \/ select(o)
       \/ CrashingCall(o)
       \/ disconnect(o)
       \/ DestructorReturns(o)
       \/ DestructorCrashes(o)

Spec == Init /\ [][Next]_vars

-----------------------------------------------------------------------------
(* Properties *)

\* Every field of an object stays among the values the class can give it; an
\* object without a connection has no database and no rows to fetch.
TypeOK ==
  /\ obj \in [Objects -> Clients]
  /\ phase \in [Objects -> {"unborn", "alive", "gone"}]
  /\ closed \subseteq Objects /\ held \subseteq Objects /\ crashed \in BOOLEAN
  /\ \A o \in Objects : phase[o] = "alive" /\ ~Connected(obj[o]) =>
       obj[o].db = "none" /\ ~obj[o].unread

\* A connection the server holds has a live object that uses it, unless its
\* object was destroyed without a call of disconnect: connect_flag is never
\* set, so the destructor alone closes nothing (MySQLOper.cpp:29-35, 37-51).
SlotsAccounted ==
  ~crashed => \A o \in Objects :
    IF phase[o] = "gone" THEN o \in held => o \notin closed
                         ELSE o \in held <=> Connected(obj[o])

\* After disconnect an object never again has a connection, whatever is called
\* on it, and its destructor has nothing undefined to do (MySQLOper.cpp:5-13).
ClosedForGood ==
  \A o \in closed : o \notin held /\ obj[o].sql = "null" /\ ~FreesGarbage(obj[o])
=============================================================================
