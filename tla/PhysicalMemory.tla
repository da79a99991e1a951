--------------------------- MODULE PhysicalMemory ---------------------------
(***************************************************************************)
(* The physical page allocator of src/src/mm/pmm.cpp: one bit per page, a  *)
(* next-fit cursor (lastI) shared by all calls, and a search in two passes.*)
(*                                                                         *)
(* Addresses and lengths are counted in pages of 4096 bytes: the boot      *)
(* loader aligns usable entries to pages, and every size the code uses is  *)
(* a multiple of one.  One step is one iteration of the search loop.       *)
(***************************************************************************)
EXTENDS Integers, Sequences, FiniteSets, Functions

CONSTANTS
  MemoryMaps,    \* the memory maps the boot loader may hand over
  Requests,      \* the page counts callers ask for
  AddressPages,  \* pages there are physical addresses for
  BitsPerByte,   \* 8
  BytesPerPage,  \* 4096
  Word           \* RAM counters wrap at this many pages

Entry == [usable : BOOLEAN, base : Nat, length : Nat]

\* Pages of a memory map entry, and of all the usable entries of a map.
EntryPages(e) == e.base .. (e.base + e.length - 1)
UsablePages(mm) == UNION {EntryPages(e) : e \in {f \in Range(mm) : f.usable}}

\* The Limine protocol: usable entries are not empty and do not overlap, and
\* page 0 is not usable (alloc tells a failed search from page 0 by nothing).
WellFormedMap(mm) ==
  /\ mm \in Seq(Entry)
  /\ \E e \in Range(mm) : e.usable
  /\ \A e \in Range(mm) :
       e.usable => /\ e.base > 0 /\ e.length > 0
                   /\ e.base + e.length <= AddressPages
  /\ \A i, j \in DOMAIN mm :
       i # j /\ mm[i].usable /\ mm[j].usable
         => EntryPages(mm[i]) \cap EntryPages(mm[j]) = {}

ASSUME MapsAssumption == \A mm \in MemoryMaps : WellFormedMap(mm)
ASSUME RequestsAssumption == Requests \subseteq Nat \ {0}
ASSUME UnitsAssumption ==
  /\ BitsPerByte \in Nat \ {0}
  /\ BytesPerPage \in Nat \ {0}
  /\ Word \in Nat \ {0}
  /\ AddressPages \in Nat

VARIABLES
  phase,     \* "boot", "ready", or how the machine stopped
  mmap,      \* the memory map; Initialize carves the bitmap out of it
  highest,   \* highest_addr / 4096: the pages the bitmap speaks of
  bitmap,    \* page -> is its bit set?
  lastI,     \* the cursor
  usedRam,
  freeRam,
  pass,      \* 1 and 2: in the first or second inner_alloc; 0: not in alloc
  count,     \* inner_alloc's argument `count`
  limit,     \* inner_alloc's argument `limit`
  start,     \* alloc's local `i`: the cursor when the call began
  p,         \* inner_alloc's local `p`: free pages just before the cursor
  owned,     \* ghost: extents <<page, count>> the callers hold
  home,      \* ghost: the extent the bitmap lies in
  uncounted  \* ghost: the pages first passes have handed out, modulo Word

vars == <<phase, mmap, highest, bitmap, lastI, usedRam, freeRam,
          pass, count, limit, start, p, owned, home, uncounted>>
locals == <<count, limit, start, p>>
ram == <<usedRam, freeRam>>

Extents == Nat \X Nat
Pages(e) == e[1] .. (e[1] + e[2] - 1)

-----------------------------------------------------------------------------
(* PhysicalMemory::Initialize *)

\* The largest `top` of a usable entry.
HighestPage(mm) ==
  CHOOSE h \in {e.base + e.length : e \in {f \in Range(mm) : f.usable}} :
    \A e \in Range(mm) : e.usable => e.base + e.length <= h

\* Wrong on purpose: the size rounded down.
BitmapPagesRoundedDown(h) == (h \div BitsPerByte) \div BytesPerPage

\* ALIGN_UP(highest / 8, 4096), in pages.
BitmapPages(h) ==
  ((h \div BitsPerByte) + BytesPerPage - 1) \div BytesPerPage

\* Bits there are in a bitmap of that many pages.
BitmapBits(h) == BitmapPages(h) * BytesPerPage * BitsPerByte

\* The entries the bitmap fits in; the first one holds it.
Fits(mm) ==
  {i \in DOMAIN mm : mm[i].usable /\ mm[i].length >= BitmapPages(HighestPage(mm))}
FirstFit(mm) == CHOOSE j \in Fits(mm) : \A k \in Fits(mm) : j <= k
BitmapHome(mm) == <<mm[FirstFit(mm)].base, BitmapPages(HighestPage(mm))>>
Carve(mm) ==
  LET i == FirstFit(mm)
      n == BitmapPages(HighestPage(mm))
  IN  [mm EXCEPT ![i] =
             [usable |-> TRUE, base |-> mm[i].base + n, length |-> mm[i].length - n]]

UsableCount(mm) == Cardinality(UsablePages(mm))

Init ==
  /\ phase = "boot"
  /\ mmap \in MemoryMaps
  /\ highest = 0
  /\ bitmap = [q \in {} |-> TRUE]
  /\ lastI = 0
  /\ usedRam = 0
  /\ freeRam = 0
  /\ pass = 0
  /\ count = 0 /\ limit = 0 /\ start = 0 /\ p = 0
  /\ owned = {}
  /\ home = <<0, 0>>
  /\ uncounted = 0

Initialize ==
  /\ phase = "boot"
  /\ highest' = HighestPage(mmap)
  /\ Fits(mmap) # {}
  /\ highest' <= BitmapBits(highest')
  /\ mmap' = Carve(mmap)
  /\ home' = BitmapHome(mmap)
  /\ bitmap' = [q \in 0 .. (highest' - 1) |-> q \notin UsablePages(mmap')]
  /\ freeRam' = UsableCount(mmap') % Word
  /\ phase' = "ready"
  /\ UNCHANGED <<lastI, usedRam, pass, locals, owned, uncounted>>

\* No usable entry is large enough: `buffer` is still nullptr when the third
\* loop writes through it, and the page fault halts the machine.
InitializeFaults ==
  /\ phase = "boot"
  /\ Fits(mmap) = {}
  /\ highest' = HighestPage(mmap)
  /\ phase' = "fault"
  /\ UNCHANGED <<mmap, bitmap, lastI, ram, pass, locals, owned, home, uncounted>>

\* highest / 8 rounds down before it is aligned, so the last pages may have
\* their bits in the page after the bitmap, which alloc hands out: from here
\* on the two share memory and the model says nothing more.
InitializeOverruns ==
  /\ phase = "boot"
  /\ highest' = HighestPage(mmap)
  /\ Fits(mmap) # {}
  /\ highest' > BitmapBits(highest')
  /\ mmap' = Carve(mmap)
  /\ home' = BitmapHome(mmap)
  /\ phase' = "overrun"
  /\ UNCHANGED <<bitmap, lastI, ram, pass, locals, owned, uncounted>>

-----------------------------------------------------------------------------
(* PhysicalMemory::alloc and inner_alloc *)

\* Wrong on purpose: the last page of the extent is not marked; one page more
\* is cleared; a counter forgets to grow; a counter does not wrap.
MarkedButLast(e) == [q \in DOMAIN bitmap |-> bitmap[q] \/ q \in Pages(e) \ {e[1] + e[2] - 1}]
ClearedOneMore(e) == [q \in DOMAIN bitmap |-> bitmap[q] /\ q \notin e[1] .. (e[1] + e[2])]
PlusNothing(a, n) == a
MinusSigned(a, n) == a - n

\* The bits of an extent set, and cleared.
Marked(e) == [q \in DOMAIN bitmap |-> bitmap[q] \/ q \in Pages(e)]
Cleared(e) == [q \in DOMAIN bitmap |-> bitmap[q] /\ q \notin Pages(e)]

\* Unsigned addition and subtraction.
Plus(a, n) == (a + n) % Word
Minus(a, n) == (a - n) % Word

\* Wrong on purpose: the second pass will search to the bottom only.
AllocCallFromZero(n) ==
  /\ phase = "ready" /\ pass = 0
  /\ pass' = 1
  /\ count' = n /\ limit' = highest /\ start' = 0 /\ p' = 0
  /\ UNCHANGED <<phase, mmap, highest, bitmap, lastI, ram, owned, home, uncounted>>

AllocCall(n) ==
  /\ phase = "ready" /\ pass = 0
  /\ pass' = 1
  /\ count' = n
  /\ limit' = highest
  /\ start' = lastI
  /\ p' = 0
  /\ UNCHANGED <<phase, mmap, highest, bitmap, lastI, ram, owned, home, uncounted>>

Scanning == phase = "ready" /\ pass # 0
CanScan == Scanning /\ lastI < limit

\* Wrong on purpose: a page in use does not end the run.
ScanUsedKeepsRun ==
  /\ CanScan
  /\ bitmap[lastI]
  /\ lastI' = lastI + 1
  /\ UNCHANGED <<phase, mmap, highest, bitmap, ram, pass, locals, owned, home, uncounted>>

\* The page at the cursor is in use: the run before it is lost.
ScanUsed ==
  /\ CanScan
  /\ bitmap[lastI]
  /\ lastI' = lastI + 1
  /\ p' = 0
  /\ UNCHANGED <<phase, mmap, highest, bitmap, ram, pass, count, limit, start,
                 owned, home, uncounted>>

\* The page at the cursor is free, and the run still too short.
ScanFree ==
  /\ CanScan
  /\ ~bitmap[lastI]
  /\ p + 1 # count
  /\ lastI' = lastI + 1
  /\ p' = p + 1
  /\ UNCHANGED <<phase, mmap, highest, bitmap, ram, pass, count, limit, start,
                 owned, home, uncounted>>

\* The run is complete: mark it and return it.  Only a run of the second pass
\* is zeroed and counted.
ScanHit ==
  /\ CanScan
  /\ ~bitmap[lastI]
  /\ p + 1 = count
  /\ LET e == <<lastI + 1 - count, count>>
     IN  bitmap' = Marked(e) /\ owned' = owned \cup {e}
  /\ lastI' = lastI + 1
  /\ IF pass = 2
     THEN usedRam' = Plus(usedRam, count) /\ freeRam' = Minus(freeRam, count)
     ELSE UNCHANGED ram
  /\ uncounted' = IF pass = 1 THEN (uncounted + count) % Word ELSE uncounted
  /\ pass' = 0
  /\ count' = 0 /\ limit' = 0 /\ start' = 0 /\ p' = 0
  /\ UNCHANGED <<phase, mmap, highest, home>>

\* Wrong on purpose: the cursor stays at the end; the call starts over.
ScanWrapStays ==
  /\ Scanning /\ pass = 1
  /\ lastI >= limit
  /\ pass' = 2 /\ limit' = start /\ p' = 0
  /\ UNCHANGED <<phase, mmap, highest, bitmap, lastI, ram, count, start, owned, home, uncounted>>
ScanWrapForever ==
  /\ Scanning /\ pass = 1
  /\ lastI >= limit
  /\ lastI' = 0 /\ limit' = start /\ p' = 0
  /\ UNCHANGED <<phase, mmap, highest, bitmap, ram, pass, count, start, owned, home, uncounted>>

\* Nothing up to the end of memory: search once more, from the bottom to where
\* the first pass began.
ScanWrap ==
  /\ Scanning /\ pass = 1
  /\ lastI >= limit
  /\ pass' = 2
  /\ lastI' = 0
  /\ limit' = start
  /\ p' = 0
  /\ UNCHANGED <<phase, mmap, highest, bitmap, ram, count, start, owned, home, uncounted>>

\* "ERROR: Out of memory", Utils::HaltCatchFire().
OutOfMemory ==
  /\ Scanning /\ pass = 2
  /\ lastI >= limit
  /\ phase' = "halted"
  /\ UNCHANGED <<mmap, highest, bitmap, lastI, ram, pass, locals, owned, home, uncounted>>

Scan == ScanUsed \/ ScanFree \/ ScanHit \/ ScanWrap \/ OutOfMemory

-----------------------------------------------------------------------------
(* PhysicalMemory::free: liballoc, its only caller, frees what it was given. *)

Free(e) ==
  /\ phase = "ready" /\ pass = 0
  /\ bitmap' = Cleared(e)
  /\ lastI' = IF lastI > e[1] THEN e[1] ELSE lastI
  /\ usedRam' = Minus(usedRam, e[2])
  /\ freeRam' = Plus(freeRam, e[2])
  /\ owned' = owned \ {e}
  /\ UNCHANGED <<phase, mmap, highest, pass, locals, home, uncounted>>

Next ==
  \/ Initialize
  \/ InitializeFaults
  \/ InitializeOverruns
  \/ \E n \in Requests : AllocCall(n)
  \/ ScanUsed
  \/ ScanFree
  \/ ScanHit
  \/ ScanWrap
  \/ OutOfMemory
  \/ \E e \in owned : Free(e)

Spec == Init /\ [][Next]_vars

\* A call of alloc runs on: the search has no lock to wait for and no await.
FairSpec == Spec /\ WF_vars(Scan)

-----------------------------------------------------------------------------
(* Properties *)

\* Types of the allocator's variables (pmm.cpp:14-21 and alloc's locals).
TypeOK ==
  /\ phase \in {"boot", "ready", "fault", "overrun", "halted"}
  /\ mmap \in Seq(Entry)
  /\ highest \in Nat
  /\ bitmap \in [0 .. (highest - 1) -> BOOLEAN] \/ DOMAIN bitmap = {}
  /\ lastI \in Nat
  /\ usedRam \in 0 .. (Word - 1)
  /\ freeRam \in 0 .. (Word - 1)
  /\ pass \in 0 .. 2
  /\ count \in Nat /\ limit \in Nat /\ start \in Nat /\ p \in Nat
  /\ owned \subseteq Extents
  /\ home \in Extents
  /\ uncounted \in 0 .. (Word - 1)

FreePages == {q \in DOMAIN bitmap : ~bitmap[q]}
OwnedPages == UNION {Pages(e) : e \in owned}

\* No caller's extent shares a page with another's or with the bitmap: the search never returns
\* a run that holds a page in use, however allocs, frees and wraps of the
\* cursor follow each other (inner_alloc's `p`, pmm.cpp:97-113).
OwnedDisjoint ==
  /\ \A e, f \in owned : e # f => Pages(e) \cap Pages(f) = {}
  /\ \A e \in owned : Pages(e) \cap Pages(home) = {}

\* A page is free exactly when the memory map calls it usable, the bitmap does
\* not live in it and nobody owns it: no page is leaked or handed out from
\* under a device (pmm.cpp:70-90, 106, 141).
BitmapExact ==
  phase \in {"ready", "halted"} =>
    FreePages = UsablePages(mmap) \ OwnedPages

\* No run of n free pages lies within lo .. hi-1.
NoFreeRun(lo, hi, n) ==
  \A b \in lo .. (hi - n) : \E q \in b .. (b + n - 1) : bitmap[q]

\* The machine halts for lack of memory only if no run is long enough in
\* either stretch the search looks at: the two passes miss nothing but a run
\* across the place where the first one began (alloc, pmm.cpp:118-128).
HaltJustified ==
  phase = "halted" =>
    /\ NoFreeRun(0, start, count)
    /\ NoFreeRun(start, highest, count)

\* What the message of pmm.cpp:126 says of the halt: memory is out, so that no
\* run of free pages could have served the request.
OutOfMemoryMeansNone ==
  phase = "halted" => NoFreeRun(0, highest, count)

\* The bitmap is too short for the pages it must describe only at the edge of
\* its rounding: the last byte is not a whole one and the bytes before it fill
\* their pages exactly (ALIGN_UP, pmm.cpp:64).
OverrunOnlyAtEdge ==
  phase \notin {"boot", "fault"} =>
    (phase = "overrun" <=> /\ highest % BitsPerByte # 0
                           /\ (highest \div BitsPerByte) % BytesPerPage = 0)

\* The RAM counters through all wraps: their sum stays the usable pages, and
\* usedRam is short of the pages in use by exactly those that first passes have
\* handed out uncounted, so that a free of such a page takes it below what is
\* in use and, at zero, around (pmm.cpp:58, 77, 119-120, 131-132, 144-145).
RamConserved ==
  phase \in {"ready", "halted"} =>
    /\ (usedRam + freeRam) % Word = UsableCount(mmap) % Word
    /\ (usedRam + uncounted) % Word = Cardinality(OwnedPages) % Word

\* alloc returns or halts: neither pass can run past its limit for ever
\* (pmm.cpp:99, 123).
AllocEnds == (pass # 0) ~> (pass = 0 \/ phase = "halted")

-----------------------------------------------------------------------------
(* The search implements the allocator its callers rely on. *)

Abstract == INSTANCE PageAllocator WITH
  booted <- phase # "boot",
  pool   <- FreePages,
  owned  <- owned

\* Every step of the code is a step of PageAllocator or changes nothing a
\* caller can see (pmm.cpp:47-146).
ImplementsPageAllocator == Abstract!Spec

-----------------------------------------------------------------------------
(* The inductive invariant: what the search knows of the pages it has passed. *)

\* Where the pass in progress began.
ScanBase == IF pass = 1 THEN start ELSE 0

\* The last p pages are a maximal free run, and no run of `count` pages was
\* passed without being taken.
SearchInv ==
  pass # 0 =>
    /\ count \in Requests
    /\ start <= highest
    /\ limit = IF pass = 1 THEN highest ELSE start
    /\ lastI <= limit
    /\ ScanBase + p <= lastI
    /\ p < count
    /\ \A q \in (lastI - p) .. (lastI - 1) : ~bitmap[q]
    /\ ScanBase + p < lastI => bitmap[lastI - p - 1]
    /\ NoFreeRun(ScanBase, lastI, count)
    /\ pass = 2 => NoFreeRun(start, highest, count)

\* Before "ready" nothing is allocated; afterwards the bitmap has its domain.
PhaseInv ==
  /\ phase \in {"ready", "halted"} =>
       /\ bitmap \in [0 .. (highest - 1) -> BOOLEAN]
       /\ UsablePages(mmap) \subseteq 0 .. (highest - 1)
       /\ lastI <= highest
  /\ phase \notin {"ready", "halted"} => pass = 0 /\ owned = {} /\ lastI = 0
  /\ Pages(home) \cap UsablePages(mmap) = {}
  /\ phase = "boot" => mmap \in MemoryMaps /\ bitmap = [q \in {} |-> TRUE]
  /\ phase = "halted" => pass = 2 /\ lastI = limit

\* Owned pages are usable ones, and their bits are set.
OwnedUsable == OwnedPages \subseteq UsablePages(mmap)

IInv ==
  /\ TypeOK
  /\ PhaseInv
  /\ OwnedUsable
  /\ OwnedDisjoint
  /\ BitmapExact
  /\ SearchInv
=============================================================================
