-------------------------- MODULE MySQLOperProofs --------------------------
(***************************************************************************)
(* The connections of MySQLOper, for any set of objects and any limit of   *)
(* the server.  The invariants are inductive once it is known that an      *)
(* object which is not alive is blank, that one which is yet to be born    *)
(* has neither been closed nor connected, that nothing ever sets           *)
(* connect_flag, and that no connection outlives the process.              *)
(***************************************************************************)
EXTENDS MySQLOper, TLAPS

-----------------------------------------------------------------------------
(* What the calls of MySQLClient make of an object. *)

\* An object without a connection has no database and no rows to fetch.
Sound(c) == c \in Clients /\ (~Connected(c) => c.db = "none" /\ ~c.unread)

\* A command on a sound object leaves a sound one (MySQLOper.cpp:207-213): the
\* one it was given, or that one with its connection lost.
LEMMA CommandSound ==
  ASSUME NEW c, Sound(c), NEW o \in Command(c)
  PROVE  /\ o.client = c \/ (Connected(c) /\ o.client = Lost(c))
         /\ Sound(o.client) /\ o.client.res = c.res
         /\ o.client.connect_flag = c.connect_flag
         /\ NullQuery(o.client) <=> NullQuery(c)
         /\ o.ok \in BOOLEAN /\ o.done \in BOOLEAN
         /\ o.ok => o.client = c /\ Connected(c) /\ ~c.unread /\ o.done
<1>1. /\ Lost(c) \in Clients /\ ~Connected(Lost(c)) /\ Sound(Lost(c))
      /\ Lost(c).res = c.res /\ Lost(c).connect_flag = c.connect_flag
      /\ ~NullQuery(Lost(c))
  BY DEF Lost, Clients, Connected, Sound, NullQuery
<1>2. CASE Connected(c) /\ ~c.unread
  <2>1. \/ o = Outcome(c, TRUE, TRUE)
        \/ o = Outcome(c, FALSE, FALSE)
        \/ \E done \in BOOLEAN : o = Outcome(Lost(c), FALSE, done)
    BY <1>2 DEF Command, Connected
  <2>2. \/ o.client = c /\ o.ok = TRUE /\ o.done = TRUE
        \/ o.client = c /\ o.ok = FALSE /\ o.done = FALSE
        \/ o.client = Lost(c) /\ o.ok = FALSE /\ o.done \in BOOLEAN
    BY <2>1 DEF Outcome
  <2>3. ~NullQuery(c)
    BY <1>2 DEF Connected, NullQuery
  <2> QED BY <1>1, <1>2, <2>2, <2>3
<1>3. CASE ~(Connected(c) /\ ~c.unread)
  <2>1. o = Outcome(c, FALSE, FALSE)
    BY <1>3 DEF Command, Connected
  <2>2. o.client = c /\ o.ok = FALSE /\ o.done = FALSE
    BY <2>1 DEF Outcome
  <2> QED BY <2>2
<1> QED BY <1>2, <1>3

\* The constructors leave an object without a connection, and with the result
\* pointer that nobody has set (MySQLOper.cpp:15-27).
LEMMA ConstructedSound ==
  ASSUME NEW c \in Constructed
  PROVE  Sound(c) /\ ~Connected(c) /\ c.connect_flag = FALSE
<1>1. PICK s \in {"init", "null"} :
        c = [sql |-> s, db |-> "none", res |-> "garbage", unread |-> FALSE,
             connect_flag |-> FALSE]
  BY DEF Constructed
<1> QED BY <1>1 DEF Sound, Clients, Connected

\* connect leaves a handle alone that is null or open, and never gives an object
\* a null one or sets connect_flag (MySQLOper.cpp:37-51).
LEMMA ConnectSound ==
  ASSUME NEW c, Sound(c), NEW d \in Connect(c)
  PROVE  /\ Sound(d) /\ d.res = c.res /\ d.connect_flag = c.connect_flag
         /\ NullQuery(d) <=> NullQuery(c)
         /\ NullQuery(c) => d = c
<1>1. CASE c.sql \in {"init", "lost"}
  <2> DEFINE opened == [c EXCEPT !.sql = "open", !.db = "default"]
  <2>1. /\ Sound(opened) /\ opened.res = c.res /\ opened.connect_flag = c.connect_flag
        /\ opened.sql = "open"
    BY <1>1 DEF Sound, Clients, Connected
  <2>2. CASE d = c
    BY <1>1, <2>2 DEF NullQuery
  <2>3. CASE d # c
    <3>1. PICK o \in Command(opened) : d = o.client
      BY <1>1, <2>3 DEF Connect
    <3>2. ~NullQuery(opened) /\ ~NullQuery(c)
      BY <1>1, <2>1 DEF NullQuery
    <3> HIDE DEF opened
    <3> QED BY <2>1, <3>1, <3>2, CommandSound
  <2> QED BY <2>2, <2>3
<1>2. CASE c.sql \notin {"init", "lost"}
  BY <1>2 DEF Connect
<1> QED BY <1>1, <1>2

\* usedb leaves a sound object (MySQLOper.cpp:71-78).
LEMMA UseDbSound ==
  ASSUME NEW c, Sound(c), ~NullQuery(c), NEW d \in UseDb(c)
  PROVE  /\ Sound(d) /\ ~NullQuery(d) /\ d.res = c.res
         /\ d.connect_flag = c.connect_flag
<1>1. PICK o \in Command(c) : d = IF o.ok THEN [o.client EXCEPT !.db = "chosen"] ELSE o.client
  BY DEF UseDb
<1>2. ~NullQuery(o.client)
  BY CommandSound
<1>3. Sound(o.client) /\ o.client.res = c.res /\ o.client.connect_flag = c.connect_flag
      /\ o.ok \in BOOLEAN /\ (o.ok => Connected(o.client))
  BY CommandSound
<1> QED BY <1>1, <1>2, <1>3 DEF Sound, Clients, Connected, NullQuery

\* query leaves a sound object, with rows unread (MySQLOper.cpp:207-213).
LEMMA QueryRowsSound ==
  ASSUME NEW c, Sound(c), ~NullQuery(c), NEW d \in QueryRows(c)
  PROVE  Sound(d) /\ ~NullQuery(d) /\ d.connect_flag = c.connect_flag
<1>1. PICK o \in Command(c) : d = IF o.ok THEN [o.client EXCEPT !.unread = TRUE] ELSE o.client
  BY DEF QueryRows
<1>2. ~NullQuery(o.client)
  BY CommandSound
<1>3. Sound(o.client) /\ o.client.connect_flag = c.connect_flag
      /\ o.ok \in BOOLEAN /\ (o.ok => Connected(o.client))
  BY CommandSound
<1> QED BY <1>1, <1>2, <1>3 DEF Sound, Clients, Connected, NullQuery

\* selectitem, showdb and showtb leave a sound object (MySQLOper.cpp:107-163).
LEMMA SelectSound ==
  ASSUME NEW c, Sound(c), ~NullQuery(c), NEW d \in Select(c)
  PROVE  Sound(d) /\ ~NullQuery(d) /\ d.connect_flag = c.connect_flag
<1>1. PICK o \in Command(c) :
        d \in IF o.ok
              THEN {[o.client EXCEPT !.res = "null"], [Lost(o.client) EXCEPT !.res = "null"],
                    [o.client EXCEPT !.res = "live", !.unread = TRUE]}
              ELSE {o.client}
  BY DEF Select
<1>2. ~NullQuery(o.client)
  BY CommandSound
<1>3. Sound(o.client) /\ o.client.connect_flag = c.connect_flag
      /\ o.ok \in BOOLEAN /\ (o.ok => Connected(o.client))
  BY CommandSound
<1>4. CASE o.ok
  <2>1. Connected(o.client)
    BY <1>3, <1>4
  <2>2. CASE d = [o.client EXCEPT !.res = "null"]
    BY <1>2, <1>3, <2>1, <2>2 DEF Sound, Clients, Connected, NullQuery
  <2>3. CASE d = [Lost(o.client) EXCEPT !.res = "null"]
    BY <1>2, <1>3, <2>1, <2>3 DEF Sound, Clients, Connected, NullQuery, Lost
  <2>4. CASE d = [o.client EXCEPT !.res = "live", !.unread = TRUE]
    BY <1>2, <1>3, <2>1, <2>4 DEF Sound, Clients, Connected, NullQuery
  <2> QED BY <1>1, <1>4, <2>2, <2>3, <2>4
<1>5. CASE ~o.ok
  BY <1>1, <1>2, <1>3, <1>5
<1> QED BY <1>3, <1>4, <1>5

\* disconnect leaves an object without a handle and with nothing undefined to
\* free (MySQLOper.cpp:5-13).
LEMMA DisconnectSound ==
  ASSUME NEW c, Sound(c)
  PROVE  /\ Sound(Disconnect(c)) /\ NullQuery(Disconnect(c)) /\ ~Connected(Disconnect(c))
         /\ Disconnect(c).res = "null" /\ Disconnect(c).connect_flag = FALSE
         /\ ~FreesGarbage(Disconnect(c)) /\ ~Abandons(Disconnect(c))
BY DEF Sound, Clients, Connected, NullQuery, Disconnect, FreesGarbage, Destroyed, Abandons

\* An object that does not exist yet, or no longer, is sound.
LEMMA BlankSound == Sound(Blank) /\ ~Connected(Blank) /\ NullQuery(Blank) /\ ~FreesGarbage(Blank)
BY DEF Blank, Sound, Clients, Connected, NullQuery, FreesGarbage, Destroyed
-----------------------------------------------------------------------------
(* The invariant. *)

ObjectInv ==
  /\ \A o \in Objects : Sound(obj[o]) /\ obj[o].connect_flag = FALSE
  /\ \A o \in Objects : phase[o] # "alive" => obj[o] = Blank
  /\ \A o \in Objects : phase[o] = "unborn" => o \notin closed /\ o \notin held
  /\ crashed => held = {}

IInv == TypeOK /\ ObjectInv /\ SlotsAccounted /\ ClosedForGood

\* The first state satisfies the invariant.
LEMMA InitInv == Init => IInv
<1> SUFFICES ASSUME Init PROVE IInv
  OBVIOUS
<1>1. Sound(Blank) /\ ~Connected(Blank) /\ Blank.connect_flag = FALSE /\ Blank \in Clients
  BY BlankSound DEF Sound, Blank
<1>2. \A o \in Objects : obj[o] = Blank /\ phase[o] = "unborn"
  BY DEF Init
<1>3. TypeOK
  BY <1>1, <1>2 DEF Init, TypeOK
<1>4. ObjectInv
  BY <1>1, <1>2 DEF Init, ObjectInv
<1>5. SlotsAccounted /\ ClosedForGood
  BY <1>1, <1>2 DEF Init, SlotsAccounted, ClosedForGood
<1> QED BY <1>3, <1>4, <1>5 DEF IInv

\* A method keeps the invariant if it leaves its object sound, and an object
\* that has been closed without a handle and with nothing undefined to free.
LEMMA ReturnKeeps ==
  ASSUME IInv, ~crashed, NEW o \in Objects, NEW c, Return(o, c), Sound(c), c.connect_flag = FALSE,
         closed' \in {closed, closed \cup {o}},
         o \in closed' => NullQuery(c) /\ ~FreesGarbage(c)
  PROVE  IInv'
<1>1. /\ phase[o] = "alive" /\ obj' = [obj EXCEPT ![o] = c]
      /\ held' = IF Connected(c) THEN held \cup {o} ELSE held \ {o}
      /\ UNCHANGED <<phase, crashed>>
  BY DEF Return
<1>2. /\ obj \in [Objects -> Clients] /\ obj'[o] = c
      /\ \A p \in Objects \ {o} : obj'[p] = obj[p] /\ (p \in held' <=> p \in held)
                                  /\ (p \in closed' <=> p \in closed)
      /\ o \in held' <=> Connected(c)
  BY <1>1 DEF IInv, TypeOK
<1>3. \A p \in Objects : Sound(obj'[p])
  BY <1>2 DEF IInv, ObjectInv
<1>4. TypeOK'
  BY <1>1, <1>2, <1>3 DEF IInv, TypeOK, Sound
<1>5. ObjectInv'
  BY <1>1, <1>2, <1>3 DEF IInv, ObjectInv
<1>6. SlotsAccounted'
  BY <1>1, <1>2 DEF IInv, SlotsAccounted
<1>7. ClosedForGood'
  <2>1. NullQuery(c) => ~Connected(c) /\ c.sql = "null"
    BY DEF NullQuery, Connected
  <2>2. ASSUME NEW p \in closed'
        PROVE  p \notin held' /\ obj'[p].sql = "null" /\ ~FreesGarbage(obj'[p])
    <3>1. p \in Objects
      BY <1>4 DEF TypeOK
    <3> QED BY <1>2, <2>1, <3>1 DEF IInv, ClosedForGood
  <2> QED BY <2>2 DEF ClosedForGood
<1> QED BY <1>4, <1>5, <1>6, <1>7 DEF IInv

\* A method that issues a command without looking is not called on a closed
\* object: there the process dies.
LEMMA ClosedIsNull ==
  ASSUME IInv, NEW o \in Objects, o \in closed
  PROVE  NullQuery(obj[o]) /\ ~FreesGarbage(obj[o])
BY DEF IInv, ClosedForGood, NullQuery

\* The death of the process keeps it.
LEMMA CrashKeeps == IInv /\ Crash => IInv'
BY DEF Crash, IInv, TypeOK, ObjectInv, SlotsAccounted, ClosedForGood

\* The destructor keeps it: what it abandons has not been closed.
LEMMA DestructorKeeps ==
  ASSUME IInv, ~crashed, NEW o \in Objects, DestructorReturns(o)
  PROVE  IInv'
<1>1. /\ phase[o] = "alive" /\ phase' = [phase EXCEPT ![o] = "gone"]
      /\ obj' = [obj EXCEPT ![o] = Blank]
      /\ held' = IF Abandons(obj[o]) THEN held ELSE held \ {o}
      /\ UNCHANGED <<closed, crashed>>
  BY DEF DestructorReturns
<1>2. Sound(Blank) /\ Blank.connect_flag = FALSE /\ Blank \in Clients
      /\ Blank.sql = "null" /\ ~FreesGarbage(Blank)
  BY BlankSound DEF Sound, Blank
<1>3. /\ obj'[o] = Blank /\ phase'[o] = "gone" /\ (o \in held' => o \in held)
      /\ \A p \in Objects \ {o} : obj'[p] = obj[p] /\ phase'[p] = phase[p]
                                  /\ (p \in held' <=> p \in held)
  BY <1>1 DEF IInv, TypeOK
<1>4. TypeOK'
  BY <1>1, <1>2, <1>3 DEF IInv, TypeOK
<1>5. ObjectInv'
  BY <1>1, <1>2, <1>3 DEF IInv, ObjectInv
<1>6. o \in held => o \notin closed
  BY DEF IInv, ClosedForGood
<1>7. SlotsAccounted'
  BY <1>1, <1>3, <1>6 DEF IInv, SlotsAccounted
<1>8. ClosedForGood'
  <2>1. ASSUME NEW p \in closed'
        PROVE  p \notin held' /\ obj'[p].sql = "null" /\ ~FreesGarbage(obj'[p])
    <3>1. p \in Objects /\ p \in closed
      BY <1>1, <1>4, <2>1 DEF TypeOK
    <3> QED BY <1>2, <1>3, <1>6, <3>1 DEF IInv, ClosedForGood
  <2> QED BY <2>1 DEF ClosedForGood
<1> QED BY <1>4, <1>5, <1>7, <1>8 DEF IInv

\* The constructor keeps it.
LEMMA ConstructorKeeps ==
  ASSUME IInv, ~crashed, NEW o \in Objects, MySQLOper(o)
  PROVE  IInv'
<1>1. PICK c \in Constructed : obj' = [obj EXCEPT ![o] = c]
  BY DEF MySQLOper
<1>2. /\ phase[o] = "unborn" /\ phase' = [phase EXCEPT ![o] = "alive"]
      /\ UNCHANGED <<closed, held, crashed>>
  BY DEF MySQLOper
<1>3. Sound(c) /\ ~Connected(c) /\ c.connect_flag = FALSE /\ c \in Clients
  BY ConstructedSound DEF Sound
<1>4. /\ obj'[o] = c /\ phase'[o] = "alive" /\ o \notin closed /\ o \notin held
      /\ \A p \in Objects \ {o} : obj'[p] = obj[p] /\ phase'[p] = phase[p]
  BY <1>1, <1>2 DEF IInv, TypeOK, ObjectInv
<1>5. TypeOK'
  BY <1>1, <1>2, <1>3, <1>4 DEF IInv, TypeOK, Sound
<1>6. ObjectInv'
  BY <1>2, <1>3, <1>4 DEF IInv, ObjectInv
<1>7. SlotsAccounted'
  BY <1>2, <1>3, <1>4 DEF IInv, SlotsAccounted
<1>8. ClosedForGood'
  BY <1>2, <1>4 DEF IInv, TypeOK, ClosedForGood
<1> QED BY <1>5, <1>6, <1>7, <1>8 DEF IInv

\* Every step keeps the invariant.
LEMMA InvariantStep == IInv /\ [Next]_vars => IInv'
<1> SUFFICES ASSUME IInv, [Next]_vars PROVE IInv'
  OBVIOUS
<1>1. CASE UNCHANGED vars
  BY <1>1 DEF vars, IInv, TypeOK, ObjectInv, SlotsAccounted, ClosedForGood
<1>2. ASSUME ~crashed, NEW o \in Objects, connect(o) PROVE IInv'
  <2>1. PICK c \in Connect(obj[o]) : Return(o, c)
    BY <1>2 DEF connect
  <2>2. Sound(obj[o]) /\ obj[o].connect_flag = FALSE
    BY DEF IInv, ObjectInv
  <2>3. /\ Sound(c) /\ c.connect_flag = FALSE /\ (NullQuery(obj[o]) => c = obj[o])
    BY <2>2, ConnectSound
  <2>4. closed' = closed
    BY <1>2 DEF connect
  <2>5. o \in closed' => NullQuery(c) /\ ~FreesGarbage(c)
    BY <2>3, <2>4, ClosedIsNull
  <2> QED BY <1>2, <2>1, <2>3, <2>4, <2>5, ReturnKeeps
<1>3. ASSUME ~crashed, NEW o \in Objects, command(o) PROVE IInv'
  <2>1. PICK c \in {r.client : r \in Command(obj[o])} \cup UseDb(obj[o]) \cup QueryRows(obj[o]) :
          Return(o, c)
    BY <1>3 DEF command
  <2>2. Sound(obj[o]) /\ obj[o].connect_flag = FALSE /\ ~NullQuery(obj[o])
    BY <1>3 DEF IInv, ObjectInv, command
  <2>3. Sound(c) /\ c.connect_flag = FALSE
    BY <2>1, <2>2, CommandSound, UseDbSound, QueryRowsSound
  <2>4. closed' = closed /\ o \notin closed
    BY <1>3, <2>2, ClosedIsNull DEF command
  <2> QED BY <1>3, <2>1, <2>3, <2>4, ReturnKeeps
<1>4. ASSUME ~crashed, NEW o \in Objects, select(o) PROVE IInv'
  <2>1. PICK c \in Select(obj[o]) : Return(o, c)
    BY <1>4 DEF select
  <2>2. Sound(obj[o]) /\ obj[o].connect_flag = FALSE /\ ~NullQuery(obj[o])
    BY <1>4 DEF IInv, ObjectInv, select
  <2>3. Sound(c) /\ c.connect_flag = FALSE
    BY <2>2, SelectSound
  <2>4. closed' = closed /\ o \notin closed
    BY <1>4, <2>2, ClosedIsNull DEF select
  <2> QED BY <1>4, <2>1, <2>3, <2>4, ReturnKeeps
<1>5. ASSUME ~crashed, NEW o \in Objects, disconnect(o) PROVE IInv'
  <2>1. Return(o, Disconnect(obj[o])) /\ closed' = closed \cup {o}
    BY <1>5 DEF disconnect
  <2>2. /\ Sound(Disconnect(obj[o])) /\ Disconnect(obj[o]).connect_flag = FALSE
        /\ NullQuery(Disconnect(obj[o])) /\ ~FreesGarbage(Disconnect(obj[o]))
    BY DisconnectSound DEF IInv, ObjectInv
  <2> QED BY <1>5, <2>1, <2>2, ReturnKeeps
<1> QED
  BY <1>1, <1>2, <1>3, <1>4, <1>5, ConstructorKeeps, DestructorKeeps, CrashKeeps
  DEF Next, CrashingCall, DestructorCrashes

-----------------------------------------------------------------------------
(* The theorems. *)

\* IInv is an inductive invariant of the specification.
THEOREM Invariant == Spec => []IInv
BY InitInv, InvariantStep, PTL DEF Spec

\* The variables keep their types, and an object without a connection has no
\* database and no rows to fetch.
THEOREM TypeCorrect == Spec => []TypeOK
BY Invariant, PTL DEF IInv

\* A connection the server holds has an object that uses it, or had one that was
\* destroyed without a call of disconnect (MySQLOper.cpp:29-51).
THEOREM ConnectionsAccounted == Spec => []SlotsAccounted
BY Invariant, PTL DEF IInv

\* disconnect is final (MySQLOper.cpp:5-13).
THEOREM DisconnectIsFinal == Spec => []ClosedForGood
BY Invariant, PTL DEF IInv
=============================================================================
