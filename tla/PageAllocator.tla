--------------------------- MODULE PageAllocator ---------------------------
(***************************************************************************)
(* What the physical page allocator promises its callers, whatever search  *)
(* it uses: pages are handed out in contiguous extents taken from a pool,  *)
(* an extent belongs to one caller until it is given back whole, and the   *)
(* pool is filled once, at boot.                                           *)
(***************************************************************************)
EXTENDS Integers

VARIABLES
  booted,  \* has the pool been filled from the memory map?
  pool,    \* the pages nobody owns
  owned    \* the extents <<first page, number of pages>> callers hold

vars == <<booted, pool, owned>>

\* The pages of an extent.
Pages(e) == e[1] .. (e[1] + e[2] - 1)

Init ==
  /\ booted = FALSE
  /\ pool = {}
  /\ owned = {}

\* The boot loader's memory map decides which pages there are.
Boot ==
  /\ ~booted
  /\ booted' = TRUE
  /\ pool' \in SUBSET Nat
  /\ UNCHANGED owned

Alloc(e) ==
  /\ booted
  /\ e[2] > 0
  /\ Pages(e) \subseteq pool
  /\ pool' = pool \ Pages(e)
  /\ owned' = owned \cup {e}
  /\ UNCHANGED booted

Free(e) ==
  /\ booted
  /\ e \in owned
  /\ pool' = pool \cup Pages(e)
  /\ owned' = owned \ {e}
  /\ UNCHANGED booted

Next ==
  \/ Boot
  \/ \E a, b \in pool : Alloc(<<a, b - a + 1>>)
  \/ \E e \in owned : Free(e)

Spec == Init /\ [][Next]_vars

-----------------------------------------------------------------------------
\* Two callers never share a page, and no owned page is in the pool: the
\* promise of PhysicalMemory::alloc/free to every caller.
Disjoint ==
  /\ \A e \in owned : Pages(e) \cap pool = {}
  /\ \A e, f \in owned : e # f => Pages(e) \cap Pages(f) = {}
=============================================================================
