-------------------------- MODULE MCPhysicalMemory --------------------------
(***************************************************************************)
(* Small instances of PhysicalMemory: bytes of four bits and pages of two  *)
(* bytes, so that a bitmap page speaks of eight pages.                     *)
(***************************************************************************)
EXTENDS PhysicalMemory

U(b, n) == [usable |-> TRUE, base |-> b, length |-> n]
R(b, n) == [usable |-> FALSE, base |-> b, length |-> n]

\* Two stretches of usable memory; the first is too short for the bitmap.
MapTwoHoles == << R(0, 1), U(1, 1), R(2, 1), U(3, 9) >>
\* One stretch, of which the bitmap takes the first page.
MapPlain == << U(1, 7) >>
\* The rounding edge: nine pages, a bitmap of eight bits.
MapEdge == << U(1, 8) >>
\* No stretch can hold the two pages of the bitmap.
MapTooSplit == << U(1, 1), R(2, 9), U(11, 1) >>

MCMaps == {MapTwoHoles, MapPlain, MapEdge, MapTooSplit}
MCRequests == {1, 2, 3}
=============================================================================
