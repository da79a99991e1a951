----------------------------- MODULE MCLibAlloc -----------------------------
(***************************************************************************)
(* A small heap: tags of one byte and pages of sixteen, at least two pages *)
(* to a block, lists for 8, 16 and 32 bytes.                               *)
(***************************************************************************)
EXTENDS LibAlloc

\* One below the smallest list, two that leave pieces of use in the smallest
\* block, and one that needs a larger block.
MCRequests == {3, 12, 16, 40}
MCPages == 1 .. 5
=============================================================================
