----------------------------- MODULE FileAccess -----------------------------
(***************************************************************************)
(* What open, read, lseek, tell and close promise: a call on a descriptor  *)
(* moves the position of its own file and of no other, and a call on a     *)
(* descriptor that is not open changes nothing.                            *)
(***************************************************************************)
EXTENDS Integers

CONSTANTS Files, Descriptors

VARIABLES
  opened,  \* descriptor -> file, for the open ones
  pos,     \* file -> position; descriptors of a file share it
  reply    \* what the last call returned

vars == <<opened, pos, reply>>

Init == opened = [d \in {} |-> 0] /\ pos = [f \in Files |-> 0] /\ reply = 0

Open(d, f) ==
  /\ opened' = [e \in DOMAIN opened \cup {d} |-> IF e = d THEN f ELSE opened[e]]
  /\ pos' = [pos EXCEPT ![f] = 0]
  /\ reply' = d

Close(d) ==
  /\ opened' = [e \in DOMAIN opened \ {d} |-> opened[e]]
  /\ reply' = 0
  /\ UNCHANGED pos

Read(d) ==
  /\ reply' >= 0
  /\ pos' = [pos EXCEPT ![opened[d]] = @ + reply']
  /\ UNCHANGED opened

Seek(d) ==
  /\ pos' = [pos EXCEPT ![opened[d]] = reply']
  /\ UNCHANGED opened

Refuse == reply' = -1 /\ UNCHANGED <<opened, pos>>

Next ==
  \/ \E d \in Descriptors, f \in Files : Open(d, f)
  \/ \E d \in DOMAIN opened : Close(d) \/ Read(d) \/ Seek(d)
  \/ Refuse

Spec == Init /\ [][Next]_vars
=============================================================================
