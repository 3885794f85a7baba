------------------------------ MODULE TaskPool ------------------------------
(***************************************************************************)
(* What a thread pool promises to its clients, with no thread, lock or     *)
(* condition variable in sight: submitted tasks are started in the order   *)
(* in which they were submitted, at most Limit at a time; every task that  *)
(* was accepted runs exactly once; closing the pool refuses further tasks  *)
(* and the pool has ended only when everything it accepted has run.        *)
(*                                                                         *)
(* ThreadPool implements this module; MdPipeline is built on it.           *)
(***************************************************************************)
EXTENDS Naturals, Sequences, FiniteSets, Functions

CONSTANTS
  Tasks,  \* the tasks clients may submit, each at most once
  Limit   \* how many tasks may run at the same time

VARIABLES
  pending,   \* accepted tasks not yet started, oldest first
  active,    \* tasks being run
  finished,  \* tasks that have run
  phase      \* "open", then "closed" (no more tasks), then "joined"

poolVars == <<pending, active, finished, phase>>

Known == Range(pending) \cup active \cup finished

TypeOK ==
  /\ pending \in Seq(Tasks)
  /\ active \subseteq Tasks
  /\ finished \subseteq Tasks
  /\ phase \in {"open", "closed", "joined"}

-----------------------------------------------------------------------------
Init ==
  /\ pending = << >>
  /\ active = {}
  /\ finished = {}
  /\ phase = "open"

Submit(t) ==
  /\ phase = "open"
  /\ t \notin Known
  /\ pending' = Append(pending, t)
  /\ UNCHANGED <<active, finished, phase>>

Start ==
  /\ pending # << >>
  /\ Cardinality(active) < Limit
  /\ active' = active \cup {Head(pending)}
  /\ pending' = Tail(pending)
  /\ UNCHANGED <<finished, phase>>

Finish(t) ==
  /\ t \in active
  /\ active' = active \ {t}
  /\ finished' = finished \cup {t}
  /\ UNCHANGED <<pending, phase>>

Close ==
  /\ phase = "open"
  /\ phase' = "closed"
  /\ UNCHANGED <<pending, active, finished>>

Join ==
  /\ phase = "closed"
  /\ pending = << >>
  /\ active = {}
  /\ phase' = "joined"
  /\ UNCHANGED <<pending, active, finished>>

Next ==
  \/ \E t \in Tasks : Submit(t) \/ Finish(t)
  \/ Start
  \/ Close
  \/ Join

Fairness ==
  /\ WF_poolVars(Start)
  /\ \A t \in Tasks : WF_poolVars(Finish(t))
  /\ WF_poolVars(Join)

SafeSpec == Init /\ [][Next]_poolVars

Spec == SafeSpec /\ Fairness
=============================================================================
