-------------------------------- MODULE Heap --------------------------------
(***************************************************************************)
(* What malloc and free promise: a caller's bytes are its own until it     *)
(* frees them, and lie in pages the heap holds all that time.              *)
(***************************************************************************)
EXTENDS Integers

CONSTANT PageSize

VARIABLES
  given,  \* the blocks <<first byte, number of bytes>> callers have
  held    \* the pages the heap has from the page allocator

vars == <<given, held>>

Bytes(b) == b[1] .. (b[1] + b[2] - 1)
Within(b, pages) == \A x \in Bytes(b) : x \div PageSize \in pages

Init == given = {} /\ held = {}

Malloc(b) ==
  /\ held \subseteq held'
  /\ Within(b, held')
  /\ \A g \in given : Bytes(g) \cap Bytes(b) = {}
  /\ given' = given \cup {b}

Free(b) ==
  /\ given' = given \ {b}
  /\ UNCHANGED held

\* Pages nobody has a block in may go back.
Shrink ==
  /\ held' \subseteq held
  /\ \A g \in given : Within(g, held')
  /\ UNCHANGED given

Next ==
  \/ \E b \in given' \ given : Malloc(b)
  \/ \E b \in given : Free(b)
  \/ Shrink

Spec == Init /\ [][Next]_vars
=============================================================================
