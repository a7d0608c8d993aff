------------------------------ MODULE TaskPool ------------------------------
(***************************************************************************)
(* What a thread pool promises its caller: tasks are started in the order  *)
(* they were submitted, each one exactly once, at most Width of them at a  *)
(* time, and a task never stays queued while there is room to run it.      *)
(* ThreadPool (osi/ThreadPool.cpp) implements this specification, and the  *)
(* chat server is built on its actions.                                    *)
(***************************************************************************)
EXTENDS Naturals, Sequences, FiniteSets

CONSTANTS
    Tasks,      \* what may be submitted
    Width       \* how many tasks may run at once

VARIABLES
    queue,      \* submitted, not yet started
    active,     \* started, not yet finished
    finished    \* finished

poolVars == <<queue, active, finished>>

Queued == {queue[i] : i \in 1..Len(queue)}

PoolInit ==
    /\ queue = <<>>
    /\ active = {}
    /\ finished = {}

Submit(t) ==
    /\ t \notin Queued \cup active \cup finished
    /\ queue' = Append(queue, t)
    /\ UNCHANGED <<active, finished>>

\* The task t at the head of the queue starts.
Start(t) ==
    /\ queue # <<>>
    /\ t = Head(queue)
    /\ Cardinality(active) < Width
    /\ queue' = Tail(queue)
    /\ active' = active \cup {t}
    /\ UNCHANGED finished

Finish(t) ==
    /\ t \in active
    /\ active' = active \ {t}
    /\ finished' = finished \cup {t}
    /\ UNCHANGED queue

PoolNext == \E t \in Tasks : Submit(t) \/ Start(t) \/ Finish(t)

PoolSafety == PoolInit /\ [][PoolNext]_poolVars

\* Work conservation: room to run a queued task is not left unused for ever.
PoolSpec ==
    /\ PoolSafety
    /\ WF_poolVars(\E t \in Tasks : Start(t))
=============================================================================
