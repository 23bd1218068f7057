------------------------------- MODULE WorkQueue -------------------------------
(***************************************************************************)
(* What a pool of threads promises to the code that hands it work.         *)
(*                                                                         *)
(* Work is accepted until the queue is closed and refused afterwards.      *)
(* Accepted work is started in the order in which it was accepted, each    *)
(* item once, at most Width items at a time, and the queue reports that it *)
(* is drained only when everything it ever accepted is finished.           *)
(*                                                                         *)
(* ThreadPool.tla, the detailed model of joins/lib/ThreadPool.h, is shown  *)
(* to implement this module.                                               *)
(***************************************************************************)
EXTENDS Naturals, Sequences, FiniteSets, Functions

CONSTANTS
  Work,    \* the items that can be handed over
  Width    \* the number of items that can be in progress at once

VARIABLES
  queue,     \* accepted items that were not started yet, oldest first
  active,    \* items in progress
  finished,  \* items that ran to completion
  denied,    \* items that were refused
  closed,    \* nothing is accepted any more
  drained    \* the owner has been told that all accepted work is finished

vars == <<queue, active, finished, denied, closed, drained>>

Queued == Range(queue)

\* An item nobody has offered to the queue yet.
Fresh(t) == t \notin Queued \cup active \cup finished \cup denied

Init ==
  /\ queue = <<>>
  /\ active = {}
  /\ finished = {}
  /\ denied = {}
  /\ closed = FALSE
  /\ drained = FALSE

Accept(t) ==
  /\ ~closed
  /\ Fresh(t)
  /\ queue' = Append(queue, t)
  /\ UNCHANGED <<active, finished, denied, closed, drained>>

Deny(t) ==
  /\ closed
  /\ Fresh(t)
  /\ denied' = denied \cup {t}
  /\ UNCHANGED <<queue, active, finished, closed, drained>>

Start ==
  /\ queue # <<>>
  /\ Cardinality(active) < Width
  /\ queue' = Tail(queue)
  /\ active' = active \cup {Head(queue)}
  /\ UNCHANGED <<finished, denied, closed, drained>>

Complete(t) ==
  /\ t \in active
  /\ active' = active \ {t}
  /\ finished' = finished \cup {t}
  /\ UNCHANGED <<queue, denied, closed, drained>>

Close ==
  /\ ~closed
  /\ closed' = TRUE
  /\ UNCHANGED <<queue, active, finished, denied, drained>>

Drain ==
  /\ closed
  /\ ~drained
  /\ queue = <<>>
  /\ active = {}
  /\ drained' = TRUE
  /\ UNCHANGED <<queue, active, finished, denied, closed>>

Next ==
  \/ \E t \in Work : Accept(t) \/ Deny(t) \/ Complete(t)
  \/ Start
  \/ Close
  \/ Drain

Spec == Init /\ [][Next]_vars

\* What the owner and the submitters may count on in the long run: accepted work
\* gets finished, and closing the queue leads to the report that it is drained.
AcceptedWorkFinishes == \A t \in Work : t \in Queued ~> t \in finished

ClosedQueueDrains == closed ~> drained
================================================================================
