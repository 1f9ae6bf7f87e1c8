----------------------------- MODULE RoundRobin -----------------------------
(***************************************************************************)
(* What the scheduler promises: tasks join the end of a ring and the CPU   *)
(* goes round the ring, one task after the other, forever.                 *)
(***************************************************************************)
EXTENDS Naturals, Sequences, SequencesExt

CONSTANTS Tasks, Nobody

VARIABLES ring,   \* the tasks in the order in which they joined
          turn    \* the task that has the CPU, or Nobody

vars == <<ring, turn>>

Init == ring = <<>> /\ turn = Nobody

Join(t) ==
  /\ ~ Contains(ring, t)
  /\ ring' = Append(ring, t)
  /\ UNCHANGED turn

\* Whom a round r gives the turn after t.
Successor(r, t) ==
  LET i == CHOOSE j \in DOMAIN r : r[j] = t
  IN  IF i = Len(r) THEN r[1] ELSE r[i + 1]

FirstTurn ==
  /\ turn = Nobody /\ ring # <<>>
  /\ turn' = ring[1]
  /\ UNCHANGED ring

NextTurn ==
  /\ turn # Nobody
  /\ turn' = Successor(ring, turn)
  /\ UNCHANGED ring

Next == FirstTurn \/ NextTurn \/ \E t \in Tasks : Join(t)

\* Going from a one-task ring to itself is a stuttering step.
Safety == Init /\ [][Next]_vars

Spec == Safety /\ WF_vars(FirstTurn) /\ WF_vars(NextTurn)

=============================================================================
