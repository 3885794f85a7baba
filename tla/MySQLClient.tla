---------------------------- MODULE MySQLClient ----------------------------
(***************************************************************************)
(* What a call on a MySQLOper object (MySQLOper.cpp) can do to the object, *)
(* to its connection and to the server.  An object is a record:            *)
(*                                                                         *)
(*   sql           the handle: a null pointer, "init" (never connected),   *)
(*                 "open" (connected) or "lost" (the connection broke)     *)
(*   db            the database the connection has selected                *)
(*   res           the MYSQL_RES pointer, which no constructor sets        *)
(*   unread        the server has sent rows that nobody has fetched        *)
(*   connect_flag  the flag the destructor looks at                        *)
(*                                                                         *)
(* An operator yields the set of outcomes of a call: the client library    *)
(* and the server decide which.  How a statement is put together as text   *)
(* is left out.                                                            *)
(***************************************************************************)

Clients == [sql : {"null", "init", "open", "lost"},
            db : {"none", "default", "chosen"},
            res : {"garbage", "null", "live"},
            unread : BOOLEAN,
            connect_flag : BOOLEAN]

\* Stands for an object that does not exist.
Blank == [sql |-> "null", db |-> "none", res |-> "null", unread |-> FALSE,
          connect_flag |-> FALSE]

\* MySQLOper(): mysql_init may fail, and the object exists all the same.
Constructed ==
  {[sql |-> s, db |-> "none", res |-> "garbage", unread |-> FALSE,
    connect_flag |-> FALSE] : s \in {"init", "null"}}

Connected(c) == c.sql = "open"

-----------------------------------------------------------------------------
(* The client library: one command on a handle that is not null. *)

Lost(c) == [c EXCEPT !.sql = "lost", !.db = "none", !.unread = FALSE]

\* "ok" is what mysql_query reports, "done" what the server did: when the
\* connection breaks under way the command may have been carried out or not.
Outcome(c, ok, done) == [client |-> c, ok |-> ok, done |-> done]

Command(c) ==
  IF c.sql = "open" /\ ~c.unread
  THEN {Outcome(c, TRUE, TRUE), Outcome(c, FALSE, FALSE)}
         \cup {Outcome(Lost(c), FALSE, done) : done \in BOOLEAN}
  ELSE {Outcome(c, FALSE, FALSE)}

-----------------------------------------------------------------------------
(* The methods. *)

\* mysql_query on a null handle reads through a null pointer: every method
\* that issues a command does so without looking.
NullQuery(c) == c.sql = "null"

\* connect: nothing without a handle; a failure is returned from silently; the
\* outcome of SET NAMES is not looked at; connect_flag is not set.
Connect(c) ==
  IF c.sql \in {"init", "lost"}
  THEN {c} \cup {o.client : o \in Command([c EXCEPT !.sql = "open", !.db = "default"])}
  ELSE {c}

\* Seeded fault: a broken connection is not noticed and its database assumed.
UseDbBlindly(c) == {[o.client EXCEPT !.db = "chosen"] : o \in Command(c)}

\* usedb
UseDb(c) == {IF o.ok THEN [o.client EXCEPT !.db = "chosen"] ELSE o.client : o \in Command(c)}

\* query with a statement that returns rows, which nobody fetches.
QueryRows(c) ==
  {IF o.ok THEN [o.client EXCEPT !.unread = TRUE] ELSE o.client : o \in Command(c)}

\* selectitem, showdb, showtb: the rows are fetched, all of them or as many as
\* come before the connection breaks, and the result freed; an exception while
\* a row is copied leaves both the result and the other rows where they are.
Select(c) ==
  UNION {IF o.ok
         THEN {[o.client EXCEPT !.res = "null"],
               [Lost(o.client) EXCEPT !.res = "null"],
               [o.client EXCEPT !.res = "live", !.unread = TRUE]}
         ELSE {o.client} : o \in Command(c)}

\* disconnect: mysql_close ends the connection; nothing else is released.
Disconnect(c) ==
  [c EXCEPT !.sql = "null", !.db = "none", !.res = "null", !.unread = FALSE,
            !.connect_flag = FALSE]

\* ~MySQLOper: what the object is when mysql_free_result is reached, and
\* whether a connection is abandoned on the way.
Destroyed(c) == IF c.connect_flag THEN Disconnect(c) ELSE [c EXCEPT !.sql = "null"]
FreesGarbage(c) == Destroyed(c).res = "garbage"
Abandons(c) == c.sql # "null" /\ ~c.connect_flag
=============================================================================
