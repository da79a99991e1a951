----------------------------- MODULE RoundRobin -----------------------------
(***************************************************************************)
(* What the scheduler promises its threads: they stand in a ring in the    *)
(* order they joined, and each change of the running thread moves on to    *)
(* the next one in the ring that has not exited.                           *)
(***************************************************************************)
EXTENDS Integers, Sequences, Functions

CONSTANTS
  Threads,  \* the threads there may be
  Idle      \* the boot context, which is not a thread

VARIABLES
  ring,     \* the threads in the order they joined
  dead,     \* the threads that have exited
  running   \* the context on the processor

vars == <<ring, dead, running>>

Alive == Range(ring) \ dead

\* The place in the ring to move on from; the first dispatch starts at 1.
Here == IF running = Idle THEN 1 ELSE CHOOSE i \in DOMAIN ring : ring[i] = running

\* The thread k places further on, for k at most the length of the ring.
Ahead(k) ==
  ring[IF Here + k <= Len(ring) THEN Here + k ELSE Here + k - Len(ring)]

\* The nearest thread ahead that is alive, the running one if there is no other.
Successor ==
  LET Hits == {k \in 1 .. Len(ring) : Ahead(k) \in Alive}
  IN  Ahead(CHOOSE k \in Hits : \A j \in Hits : k <= j)

Init ==
  /\ ring = <<>>
  /\ dead = {}
  /\ running = Idle

Join(t) ==
  /\ t \notin Range(ring)
  /\ ring' = Append(ring, t)
  /\ UNCHANGED <<dead, running>>

Exit ==
  /\ running \in Range(ring)
  /\ dead' = dead \cup {running}
  /\ UNCHANGED <<ring, running>>

Dispatch ==
  /\ Alive # {}
  /\ running' = Successor
  /\ UNCHANGED <<ring, dead>>

Next ==
  \/ \E t \in Threads : Join(t)
  \/ Exit
  \/ Dispatch

Spec == Init /\ [][Next]_vars
=============================================================================
