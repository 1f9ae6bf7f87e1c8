---------------------------- MODULE SchedulerRing ----------------------------
(***************************************************************************)
(* The mapping under which Scheduler implements RoundRobin when no task is *)
(* killed: the list is the ring, and somebody has the turn as soon as the  *)
(* first tick has left the code of Kernel::Main.                           *)
(***************************************************************************)
EXTENDS Scheduler

\* The list as the sequence of nodes from root_task to the tail: a walk from its i-th
\* node visits all nodes but the first i - 1.
ListAsRing ==
  [i \in 1..Cardinality(Reach) |->
     CHOOSE t \in Reach : Cardinality(ReachFrom(t)) = Cardinality(Reach) + 1 - i]

Turn == IF cpu.owner = NULL THEN NULL ELSE current_task

RR == INSTANCE RoundRobin WITH
        Tasks <- Slots, Nobody <- NULL, ring <- ListAsRing, turn <- Turn

(***************************************************************************)
(* Refinement: without kill_task() the scheduler implements RoundRobin.    *)
(* A task appended by an interrupted create_task() joins at the end, sched *)
(* gives the CPU to the next task of the list and wraps from the tail to   *)
(* root_task, and the rotation never stops.                                *)
(***************************************************************************)
ImplementsRoundRobin == RR!Spec

=============================================================================
