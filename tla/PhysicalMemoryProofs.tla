------------------------ MODULE PhysicalMemoryProofs ------------------------
(***************************************************************************)
(* Proofs about PhysicalMemory, for every memory map, request and unit.    *)
(***************************************************************************)
EXTENDS PhysicalMemory, NaturalLemmas, FiniteSetTheorems, TLAPS

-----------------------------------------------------------------------------
(* Numbers and memory maps *)

\* Integer division of a natural number is a natural number.
LEMMA DivNat ==
  ASSUME NEW a \in Nat, NEW b \in Nat \ {0}
  PROVE  a \div b \in Nat
OBVIOUS

\* Initialize's first loop finds the end of the highest usable entry.
LEMMA HighestPageBounds ==
  ASSUME NEW mm, WellFormedMap(mm)
  PROVE  /\ HighestPage(mm) \in Nat
         /\ \A e \in Range(mm) : e.usable => e.base + e.length <= HighestPage(mm)
<1> DEFINE T == {e.base + e.length : e \in {f \in Range(mm) : f.usable}}
<1>1. Range(mm) \subseteq Entry
  BY DEF WellFormedMap, Range
<1>2. T \in SUBSET Nat /\ T # {}
  BY <1>1 DEF WellFormedMap, Entry
<1>3. \A x \in T : x <= AddressPages
  BY <1>1 DEF WellFormedMap, Entry
<1>4. \E x \in T : \A y \in T : y <= x
  BY <1>2, <1>3, GreatestNat, UnitsAssumption
<1>5. \E h \in T : \A e \in Range(mm) : e.usable => e.base + e.length <= h
  BY <1>4
<1> QED
  BY <1>2, <1>5 DEF HighestPage

LEMMA UsablePagesBound ==
  ASSUME NEW mm, WellFormedMap(mm)
  PROVE  UsablePages(mm) \subseteq 0 .. (HighestPage(mm) - 1)
<1>1. Range(mm) \subseteq Entry
  BY DEF WellFormedMap, Range
<1> QED
  BY <1>1, HighestPageBounds DEF UsablePages, EntryPages, Entry

LEMMA BitmapPagesNat ==
  ASSUME NEW h \in Nat
  PROVE  BitmapPages(h) \in Nat
<1>1. h \div BitsPerByte \in Nat
  BY DivNat, UnitsAssumption
<1>2. (h \div BitsPerByte) + BytesPerPage - 1 \in Nat
  BY <1>1, UnitsAssumption
<1> QED
  BY <1>2, DivNat, UnitsAssumption DEF BitmapPages

\* Carving the bitmap out of an entry leaves a memory map, takes pages from it
\* only, and takes all the pages the bitmap lies in.
LEMMA CarveShrinks ==
  ASSUME NEW mm, WellFormedMap(mm), Fits(mm) # {}
  PROVE  /\ Carve(mm) \in Seq(Entry)
         /\ UsablePages(Carve(mm)) \subseteq UsablePages(mm)
         /\ BitmapHome(mm) \in Extents
         /\ Pages(BitmapHome(mm)) \cap UsablePages(Carve(mm)) = {}
<1> DEFINE n == BitmapPages(HighestPage(mm))
           i == FirstFit(mm)
           e == [usable |-> TRUE, base |-> mm[i].base + n, length |-> mm[i].length - n]
           cm == [mm EXCEPT ![i] = e]
<1>1. n \in Nat
  BY HighestPageBounds, BitmapPagesNat
<1>2. mm \in Seq(Entry) /\ mm \in [1 .. Len(mm) -> Entry] /\ DOMAIN mm = 1 .. Len(mm)
  BY DEF WellFormedMap
<1>3. Fits(mm) \in SUBSET Nat
  BY <1>2 DEF Fits
<1>4. i \in Fits(mm)
  BY <1>3, LeastNat DEF FirstFit
<1>5. i \in DOMAIN mm /\ mm[i].usable /\ mm[i].length >= n
  BY <1>4 DEF Fits
<1> HIDE DEF n, i
<1>6. e \in Entry
  <2>1. mm[i] \in Entry
    BY <1>2, <1>5
  <2>2. mm[i].length - n \in Nat /\ mm[i].base + n \in Nat
    BY <2>1, <1>1, <1>5 DEF Entry
  <2> QED
    BY <2>2 DEF Entry
<1>7. cm \in [1 .. Len(mm) -> Entry]
  BY <1>2, <1>5, <1>6
<1>8. cm \in Seq(Entry)
  BY <1>2, <1>7
<1>9. ASSUME NEW k \in 1 .. Len(mm), cm[k].usable
      PROVE  mm[k].usable /\ EntryPages(cm[k]) \subseteq EntryPages(mm[k])
  <2>1. CASE k = i
    <3>1. cm[k] = e
      BY <2>1, <1>2, <1>5
    <3>2. EntryPages(e) \subseteq EntryPages(mm[i])
      BY <1>1, <1>2, <1>5 DEF EntryPages, Entry
    <3> QED
      BY <2>1, <3>1, <3>2, <1>5
  <2>2. CASE k # i
    BY <2>2, <1>2, <1>9
  <2> QED
    BY <2>1, <2>2
<1>10. UsablePages(cm) \subseteq UsablePages(mm)
  <2> SUFFICES ASSUME NEW q \in UsablePages(cm)
               PROVE  q \in UsablePages(mm)
    OBVIOUS
  <2>1. PICK k \in 1 .. Len(mm) : cm[k].usable /\ q \in EntryPages(cm[k])
    BY <1>2 DEF UsablePages, Range
  <2>2. mm[k] \in Range(mm) /\ mm[k].usable /\ q \in EntryPages(mm[k])
    BY <2>1, <1>9, <1>2 DEF Range
  <2> QED
    BY <2>2 DEF UsablePages
<1>11. mm[i] \in Entry
  BY <1>2, <1>5
<1>12. BitmapHome(mm) = <<mm[i].base, n>>
  BY DEF BitmapHome, n, i
<1>13. BitmapHome(mm) \in Extents
  BY <1>1, <1>11, <1>12 DEF Extents, Entry
<1>14. Pages(BitmapHome(mm)) \cap UsablePages(cm) = {}
  <2> SUFFICES ASSUME NEW q \in Pages(BitmapHome(mm)), q \in UsablePages(cm)
               PROVE  FALSE
    OBVIOUS
  <2>0. PICK k \in 1 .. Len(mm) : cm[k].usable /\ q \in EntryPages(cm[k])
    BY <1>2 DEF UsablePages, Range
  <2>1. q \in mm[i].base .. (mm[i].base + n - 1)
    BY <1>12 DEF Pages
  <2>2. CASE k = i
    <3>1. cm[k] = e
      BY <2>2, <1>2, <1>5
    <3> QED
      BY <3>1, <2>0, <2>1, <1>1, <1>11 DEF EntryPages, Entry
  <2>3. CASE k # i
    <3>1. q \in EntryPages(mm[i])
      BY <2>1, <1>1, <1>5, <1>11 DEF EntryPages, Entry
    <3>2. mm[k].usable /\ q \in EntryPages(mm[k])
      BY <1>9, <2>0
    <3> QED
      BY <2>3, <3>1, <3>2, <1>2, <1>5 DEF WellFormedMap
  <2> QED
    BY <2>2, <2>3
<1> QED
  BY <1>8, <1>10, <1>13, <1>14 DEF Carve, n, i

-----------------------------------------------------------------------------
(* The invariant holds initially and is preserved by every action. *)

\* A RAM counter is always a number of Word.
LEMMA ModWord == \A c \in Int : c % Word \in 0 .. (Word - 1)
<1> DEFINE w == Word
<1>1. w \in Nat \ {0}
  BY UnitsAssumption
<1> HIDE DEF w
<1>2. \A c \in Int : c % w \in 0 .. (w - 1)
  BY <1>1
<1> QED
  BY <1>2 DEF w

\* The pages of a map's usable entries are finitely many.
LEMMA UsableCountNat ==
  ASSUME NEW mm, NEW h \in Nat, UsablePages(mm) \subseteq 0 .. (h - 1)
  PROVE  UsableCount(mm) \in Nat
<1>1. IsFiniteSet(0 .. (h - 1))
  BY FS_Interval
<1>2. IsFiniteSet(UsablePages(mm))
  BY <1>1, FS_Subset
<1> QED
  BY <1>2, FS_CardinalityType DEF UsableCount

LEMMA InitInv == Init => IInv
<1> SUFFICES ASSUME Init
             PROVE  IInv
  OBVIOUS
<1>1. mmap \in Seq(Entry)
  BY MapsAssumption DEF Init, WellFormedMap
<1>2. TypeOK
  BY <1>1, UnitsAssumption DEF Init, TypeOK, Extents
<1>3. OwnedPages = {} /\ Pages(home) = {}
  BY DEF Init, OwnedPages, Pages
<1> QED
  BY <1>2, <1>3
  DEF Init, IInv, PhaseInv, OwnedUsable, OwnedDisjoint, BitmapExact, SearchInv

\* What Initialize finds out about the map, in whichever way it ends.
LEMMA InitializeInv == IInv /\ Initialize => IInv'
<1> SUFFICES ASSUME IInv, Initialize
             PROVE  IInv'
  OBVIOUS
<1> USE DEF Initialize
<1>1. WellFormedMap(mmap) /\ pass = 0 /\ owned = {} /\ lastI = 0
  BY MapsAssumption DEF IInv, PhaseInv
<1>2. /\ highest' \in Nat
      /\ mmap' \in Seq(Entry)
      /\ UsablePages(mmap') \subseteq 0 .. (highest' - 1)
      /\ home' \in Extents
      /\ Pages(home') \cap UsablePages(mmap') = {}
  BY <1>1, HighestPageBounds, UsablePagesBound, CarveShrinks
<1>3. freeRam' \in 0 .. (Word - 1)
  <2>1. UsableCount(mmap') \in Nat
    BY <1>2, UsableCountNat
  <2> QED
    BY <2>1, ModWord
<1>4. bitmap' \in [0 .. (highest' - 1) -> BOOLEAN]
  BY <1>2
<1>5. TypeOK'
  BY <1>1, <1>2, <1>3, <1>4 DEF IInv, TypeOK, locals
<1>6. OwnedPages' = {} /\ pass' = 0 /\ lastI' = 0 /\ owned' = {}
  BY <1>1 DEF OwnedPages
<1>7. PhaseInv'
  BY <1>2, <1>4, <1>6 DEF PhaseInv
<1>8. BitmapExact'
  BY <1>2, <1>6 DEF BitmapExact, FreePages
<1> QED
  BY <1>5, <1>6, <1>7, <1>8 DEF IInv, OwnedUsable, OwnedDisjoint, SearchInv

LEMMA InitializeFailsInv == IInv /\ (InitializeFaults \/ InitializeOverruns) => IInv'
<1> SUFFICES ASSUME IInv, InitializeFaults \/ InitializeOverruns
             PROVE  IInv'
  OBVIOUS
<1>1. /\ WellFormedMap(mmap) /\ pass = 0 /\ owned = {} /\ lastI = 0
      /\ DOMAIN bitmap = {}
  BY MapsAssumption DEF IInv, PhaseInv, InitializeFaults, InitializeOverruns
<1>2. /\ highest' \in Nat /\ mmap' \in Seq(Entry) /\ home' \in Extents
      /\ Pages(home') \cap UsablePages(mmap') = {}
  <2>1. CASE InitializeFaults
    BY <2>1, <1>1, HighestPageBounds
    DEF InitializeFaults, WellFormedMap, IInv, TypeOK, PhaseInv
  <2>2. CASE InitializeOverruns
    BY <2>2, <1>1, HighestPageBounds, CarveShrinks DEF InitializeOverruns
  <2> QED
    BY <2>1, <2>2
<1>3. /\ phase' \in {"fault", "overrun"} /\ pass' = 0 /\ owned' = {} /\ lastI' = 0
      /\ DOMAIN bitmap' = {}
  BY <1>1 DEF InitializeFaults, InitializeOverruns
<1>4. TypeOK'
  BY <1>2, <1>3 DEF IInv, TypeOK, InitializeFaults, InitializeOverruns, locals, ram
<1>5. OwnedPages' = {}
  BY <1>3 DEF OwnedPages
<1> QED
  BY <1>2, <1>3, <1>4, <1>5
  DEF IInv, PhaseInv, OwnedUsable, OwnedDisjoint, BitmapExact, SearchInv

\* The facts about pages hold as long as the bitmap, the map, the highest page
\* and the callers' extents stay what they are.
LEMMA PagesUnchanged ==
  ASSUME IInv, phase = "ready", phase' \in {"ready", "halted"},
         UNCHANGED <<mmap, highest, bitmap, owned, home>>
  PROVE  OwnedUsable' /\ OwnedDisjoint' /\ BitmapExact'
BY DEF IInv, OwnedUsable, OwnedDisjoint, BitmapExact, OwnedPages, FreePages

LEMMA AllocCallInv == \A n \in Requests : IInv /\ AllocCall(n) => IInv'
<1> SUFFICES ASSUME NEW n \in Requests, IInv, AllocCall(n)
             PROVE  IInv'
  OBVIOUS
<1>1. n \in Nat \ {0}
  BY RequestsAssumption
<1>2. /\ phase = "ready" /\ lastI \in Nat /\ highest \in Nat /\ lastI <= highest
  BY DEF IInv, TypeOK, PhaseInv, AllocCall
<1>3. TypeOK'
  BY <1>1, <1>2 DEF IInv, TypeOK, AllocCall, ram
<1>4. PhaseInv'
  BY <1>2 DEF IInv, PhaseInv, AllocCall
<1>5. SearchInv'
  BY <1>1, <1>2 DEF SearchInv, AllocCall, ScanBase, NoFreeRun
<1> QED
  BY <1>2, <1>3, <1>4, <1>5, PagesUnchanged DEF IInv, AllocCall

LEMMA ScanUsedInv == IInv /\ ScanUsed => IInv'
<1> SUFFICES ASSUME IInv, ScanUsed
             PROVE  IInv'
  OBVIOUS
<1> USE DEF ScanUsed, CanScan, Scanning, ram
<1>1. /\ phase = "ready" /\ lastI \in Nat /\ limit \in Nat /\ start \in Nat
      /\ highest \in Nat /\ p \in Nat /\ count \in Nat /\ ScanBase \in Nat
      /\ limit <= highest /\ ScanBase' = ScanBase
  BY DEF IInv, TypeOK, PhaseInv, SearchInv, ScanBase
<1>2. TypeOK'
  BY <1>1 DEF IInv, TypeOK
<1>3. PhaseInv'
  BY <1>1 DEF IInv, PhaseInv
<1>4. SearchInv'
  <2>1. NoFreeRun(ScanBase, lastI, count) /\ count \in Requests
    BY DEF IInv, SearchInv
  <2>2. NoFreeRun(ScanBase, lastI + 1, count)
    BY <1>1, <2>1, RequestsAssumption DEF NoFreeRun
  <2>3. count > 0
    BY <2>1, RequestsAssumption
  <2>4. NoFreeRun(ScanBase, lastI, count)'
    BY <2>2, <1>1 DEF NoFreeRun
  <2>5. pass = 2 => NoFreeRun(start, highest, count)'
    BY DEF IInv, SearchInv, NoFreeRun
  <2> QED
    BY <2>1, <2>3, <2>4, <2>5, <1>1 DEF IInv, SearchInv
<1> QED
  BY <1>1, <1>2, <1>3, <1>4, PagesUnchanged DEF IInv

LEMMA ScanFreeInv == IInv /\ ScanFree => IInv'
<1> SUFFICES ASSUME IInv, ScanFree
             PROVE  IInv'
  OBVIOUS
<1> USE DEF ScanFree, CanScan, Scanning, ram
<1>1. /\ phase = "ready" /\ lastI \in Nat /\ limit \in Nat /\ start \in Nat
      /\ highest \in Nat /\ p \in Nat /\ count \in Nat /\ ScanBase \in Nat
      /\ limit <= highest /\ ScanBase' = ScanBase
  BY DEF IInv, TypeOK, PhaseInv, SearchInv, ScanBase
<1>2. TypeOK'
  BY <1>1 DEF IInv, TypeOK
<1>3. PhaseInv'
  BY <1>1 DEF IInv, PhaseInv
<1>4. SearchInv'
  <2>1. /\ NoFreeRun(ScanBase, lastI, count) /\ p + 1 < count
        /\ ScanBase + p <= lastI
        /\ ScanBase + p < lastI => bitmap[lastI - p - 1]
        /\ \A q \in (lastI - p) .. (lastI - 1) : ~bitmap[q]
    BY <1>1 DEF IInv, SearchInv
  <2>2. NoFreeRun(ScanBase, lastI + 1, count)
    <3> SUFFICES ASSUME NEW b \in ScanBase .. (lastI + 1 - count)
                 PROVE  \E q \in b .. (b + count - 1) : bitmap[q]
      BY <1>1 DEF NoFreeRun
    <3>1. CASE b <= lastI - count
      <4>1. b \in ScanBase .. (lastI - count)
        BY <3>1, <1>1
      <4> QED
        BY <4>1, <2>1 DEF NoFreeRun
    <3>2. CASE b = lastI + 1 - count
      BY <3>2, <2>1, <1>1
    <3> QED
      BY <3>1, <3>2, <1>1
  <2>3. NoFreeRun(ScanBase, lastI, count)'
    BY <2>2, <1>1 DEF NoFreeRun
  <2>4. pass = 2 => NoFreeRun(start, highest, count)'
    BY DEF IInv, SearchInv, NoFreeRun
  <2>5. \A q \in (lastI' - p') .. (lastI' - 1) : ~bitmap[q]
    BY <2>1, <1>1
  <2>6. ScanBase' + p' < lastI' => bitmap'[lastI' - p' - 1]
    BY <2>1, <1>1
  <2> QED
    BY <2>1, <2>3, <2>4, <2>5, <2>6, <1>1 DEF IInv, SearchInv
<1> QED
  BY <1>1, <1>2, <1>3, <1>4, PagesUnchanged DEF IInv

LEMMA ScanWrapInv == IInv /\ ScanWrap => IInv'
<1> SUFFICES ASSUME IInv, ScanWrap
             PROVE  IInv'
  OBVIOUS
<1> USE DEF ScanWrap, Scanning, ram
<1>1. /\ phase = "ready" /\ lastI \in Nat /\ start \in Nat /\ highest \in Nat
      /\ count \in Nat \ {0} /\ start <= highest /\ lastI = highest
      /\ NoFreeRun(start, highest, count) /\ count \in Requests
  BY RequestsAssumption DEF IInv, TypeOK, SearchInv, ScanBase
<1>2. TypeOK'
  BY <1>1 DEF IInv, TypeOK
<1>3. PhaseInv'
  BY <1>1 DEF IInv, PhaseInv
<1>4. SearchInv'
  <2>1. NoFreeRun(start, highest, count)'
    BY <1>1 DEF NoFreeRun
  <2>2. NoFreeRun(ScanBase, lastI, count)'
    BY <1>1 DEF NoFreeRun, ScanBase
  <2> QED
    BY <2>1, <2>2, <1>1 DEF SearchInv, ScanBase
<1> QED
  BY <1>1, <1>2, <1>3, <1>4, PagesUnchanged DEF IInv

LEMMA OutOfMemoryInv == IInv /\ OutOfMemory => IInv'
<1> SUFFICES ASSUME IInv, OutOfMemory
             PROVE  IInv'
  OBVIOUS
<1> USE DEF OutOfMemory, Scanning, ram, locals
<1>1. /\ phase = "ready" /\ lastI \in Nat /\ limit \in Nat /\ lastI = limit
  BY DEF IInv, TypeOK, SearchInv
<1>2. TypeOK'
  BY <1>1 DEF IInv, TypeOK
<1>3. PhaseInv'
  BY <1>1 DEF IInv, PhaseInv
<1>4. SearchInv'
  BY DEF IInv, SearchInv, ScanBase, NoFreeRun
<1> QED
  BY <1>1, <1>2, <1>3, <1>4, PagesUnchanged DEF IInv

\* The extent a successful search returns: free pages only, and none besides
\* them changes hands.
LEMMA HitTakesFreePages ==
  ASSUME IInv, ScanHit
  PROVE  LET e == <<lastI + 1 - count, count>>
         IN  /\ e \in Extents
             /\ Pages(e) # {}
             /\ Pages(e) = (lastI + 1 - count) .. lastI
             /\ Pages(e) \subseteq FreePages
             /\ FreePages' = FreePages \ Pages(e)
             /\ owned' = owned \cup {e}
             /\ OwnedPages' = OwnedPages \cup Pages(e)
<1> DEFINE page == lastI + 1 - count
           e == <<page, count>>
<1> USE DEF ScanHit, CanScan, Scanning
<1>1. /\ lastI \in Nat /\ p \in Nat /\ count \in Nat \ {0} /\ highest \in Nat
      /\ lastI < highest /\ ScanBase \in Nat /\ ScanBase + p <= lastI
      /\ bitmap \in [0 .. (highest - 1) -> BOOLEAN] /\ count = p + 1
      /\ \A q \in (lastI - p) .. (lastI - 1) : ~bitmap[q]
  BY RequestsAssumption DEF IInv, TypeOK, PhaseInv, SearchInv, ScanBase
<1>2. e \in Extents /\ page = lastI - p /\ page \in Nat
  BY <1>1 DEF Extents
<1>3. Pages(e) = page .. lastI
  BY <1>1, <1>2 DEF Pages
<1>4. \A q \in page .. lastI : ~bitmap[q] /\ q \in 0 .. (highest - 1)
  BY <1>1, <1>2
<1>5. Pages(e) \subseteq FreePages
  BY <1>1, <1>3, <1>4 DEF FreePages
<1>6. lastI \in Pages(e)
  BY <1>1, <1>2, <1>3
<1>7. bitmap' = [q \in DOMAIN bitmap |-> bitmap[q] \/ q \in page .. lastI]
  BY <1>3 DEF Marked
<1>8. FreePages' = FreePages \ Pages(e)
  BY <1>1, <1>3, <1>7 DEF FreePages
<1>9. owned' = owned \cup {e}
  OBVIOUS
<1>10. OwnedPages' = OwnedPages \cup Pages(e)
  BY <1>9 DEF OwnedPages
<1> QED
  BY <1>2, <1>3, <1>5, <1>6, <1>8, <1>9, <1>10

LEMMA ScanHitInv == IInv /\ ScanHit => IInv'
<1> SUFFICES ASSUME IInv, ScanHit
             PROVE  IInv'
  OBVIOUS
<1> DEFINE e == <<lastI + 1 - count, count>>
<1>1. /\ e \in Extents
      /\ Pages(e) \subseteq FreePages
      /\ FreePages' = FreePages \ Pages(e)
      /\ owned' = owned \cup {e}
      /\ OwnedPages' = OwnedPages \cup Pages(e)
  BY HitTakesFreePages
<1>2. /\ phase = "ready" /\ phase' = "ready" /\ mmap' = mmap /\ highest' = highest
      /\ pass' = 0 /\ lastI' = lastI + 1 /\ lastI < limit /\ limit <= highest
      /\ lastI \in Nat /\ limit \in Nat /\ highest \in Nat /\ count \in Nat
      /\ bitmap \in [0 .. (highest - 1) -> BOOLEAN] /\ home' = home
  BY DEF IInv, TypeOK, PhaseInv, SearchInv, ScanHit, CanScan, Scanning
<1>3. FreePages = UsablePages(mmap) \ OwnedPages
  BY <1>2 DEF IInv, BitmapExact
<1>4. bitmap' \in [0 .. (highest' - 1) -> BOOLEAN]
  BY <1>2 DEF ScanHit, Marked
<1>5. /\ usedRam' \in 0 .. (Word - 1) /\ freeRam' \in 0 .. (Word - 1)
      /\ uncounted' \in 0 .. (Word - 1)
  <2>1. CASE pass = 2
    <3>1. usedRam + count \in Int /\ freeRam - count \in Int
      BY <1>2 DEF IInv, TypeOK
    <3> QED
      BY <2>1, <3>1, ModWord DEF ScanHit, Plus, Minus, IInv, TypeOK
  <2>2. CASE pass # 2
    <3>1. uncounted + count \in Int
      BY <1>2, UnitsAssumption DEF IInv, TypeOK
    <3> QED
      BY <2>2, <3>1, ModWord DEF IInv, TypeOK, ScanHit, ram
  <2> QED
    BY <2>1, <2>2
<1>6. TypeOK'
  <2>1. owned' \subseteq Extents /\ lastI' \in Nat /\ pass' \in 0 .. 2
    <3>1. owned \subseteq Extents
      BY DEF IInv, TypeOK
    <3> HIDE DEF e
    <3> QED
      BY <3>1, <1>1, <1>2
  <2>2. mmap' \in Seq(Entry) /\ home' \in Extents
    BY <1>2 DEF IInv, TypeOK
  <2>3. /\ count' \in Nat /\ limit' \in Nat /\ start' \in Nat /\ p' \in Nat
        /\ phase' \in {"boot", "ready", "fault", "overrun", "halted"}
        /\ highest' \in Nat
    BY <1>2 DEF ScanHit
  <2> HIDE DEF e
  <2> QED
    BY <2>1, <2>2, <2>3, <1>4, <1>5 DEF TypeOK
<1>7. PhaseInv'
  BY <1>2, <1>4 DEF IInv, PhaseInv
<1>8. OwnedUsable'
  BY <1>1, <1>2, <1>3 DEF IInv, OwnedUsable
<1>9. OwnedDisjoint'
  <2>1. \A f \in owned : Pages(f) \subseteq OwnedPages
    BY DEF OwnedPages
  <2>2. \A f \in owned : Pages(f) \cap Pages(e) = {}
    BY <2>1, <1>1, <1>3
  <2>3. \A f \in owned' : Pages(f) \cap Pages(home) = {}
    <3>1. Pages(home) \cap UsablePages(mmap) = {}
      BY DEF IInv, PhaseInv
    <3> QED
      BY <3>1, <1>1, <1>3 DEF IInv, OwnedDisjoint
  <2> HIDE DEF e
  <2> QED
    BY <2>2, <2>3, <1>1, <1>2 DEF IInv, OwnedDisjoint
<1>10. BitmapExact'
  BY <1>1, <1>2, <1>3 DEF BitmapExact
<1>11. SearchInv'
  BY <1>2 DEF SearchInv
<1> QED
  BY <1>6, <1>7, <1>8, <1>9, <1>10, <1>11 DEF IInv

\* free gives back the pages of the extent and no other.
LEMMA FreeGivesBack ==
  ASSUME IInv, NEW e \in owned, Free(e)
  PROVE  /\ FreePages' = FreePages \cup Pages(e)
         /\ OwnedPages' = OwnedPages \ Pages(e)
<1>1. /\ phase = "ready" /\ e \in Extents /\ highest \in Nat
      /\ bitmap \in [0 .. (highest - 1) -> BOOLEAN]
      /\ UsablePages(mmap) \subseteq 0 .. (highest - 1)
  BY DEF IInv, TypeOK, PhaseInv, Free
<1>2. Pages(e) \subseteq OwnedPages /\ OwnedPages \subseteq DOMAIN bitmap
  BY <1>1 DEF IInv, OwnedUsable, OwnedPages
<1>3. bitmap' = [q \in DOMAIN bitmap |-> bitmap[q] /\ q \notin Pages(e)]
  BY DEF Free, Cleared
<1>4. FreePages' = FreePages \cup Pages(e)
  BY <1>1, <1>2, <1>3 DEF FreePages
<1>5. \A f \in owned \ {e} : Pages(f) \cap Pages(e) = {}
  BY DEF IInv, OwnedDisjoint
<1>6. owned' = owned \ {e}
  BY DEF Free
<1>7. OwnedPages' = OwnedPages \ Pages(e)
  BY <1>5, <1>6 DEF OwnedPages
<1> QED
  BY <1>4, <1>7

LEMMA FreeInv == \A e \in owned : IInv /\ Free(e) => IInv'
<1> SUFFICES ASSUME NEW e \in owned, IInv, Free(e)
             PROVE  IInv'
  OBVIOUS
<1>1. /\ FreePages' = FreePages \cup Pages(e)
      /\ OwnedPages' = OwnedPages \ Pages(e)
  BY FreeGivesBack
<1>2. /\ phase = "ready" /\ phase' = "ready" /\ mmap' = mmap /\ highest' = highest
      /\ pass = 0 /\ pass' = 0 /\ owned' = owned \ {e}
      /\ bitmap \in [0 .. (highest - 1) -> BOOLEAN] /\ lastI \in Nat
      /\ highest \in Nat /\ lastI <= highest /\ e \in Extents
      /\ e[1] \in Nat /\ e[2] \in Nat /\ home' = home
  BY DEF IInv, TypeOK, PhaseInv, Free, Extents
<1>3. lastI' \in Nat /\ lastI' <= highest
  BY <1>2 DEF Free
<1>4. bitmap' \in [0 .. (highest' - 1) -> BOOLEAN]
  BY <1>2 DEF Free, Cleared
<1>5. usedRam' \in 0 .. (Word - 1) /\ freeRam' \in 0 .. (Word - 1)
  <2>1. usedRam - e[2] \in Int /\ freeRam + e[2] \in Int
    BY <1>2 DEF IInv, TypeOK
  <2> QED
    BY <2>1, ModWord DEF Free, Plus, Minus
<1>6. TypeOK'
  BY <1>2, <1>3, <1>4, <1>5 DEF IInv, TypeOK, Free, locals
<1>7. PhaseInv'
  BY <1>2, <1>3, <1>4 DEF IInv, PhaseInv
<1>8. OwnedUsable' /\ OwnedDisjoint'
  BY <1>1, <1>2 DEF IInv, OwnedUsable, OwnedDisjoint
<1>9. Pages(e) \subseteq UsablePages(mmap) /\ FreePages = UsablePages(mmap) \ OwnedPages
  BY <1>2 DEF IInv, OwnedUsable, OwnedPages, BitmapExact
<1>10. BitmapExact'
  BY <1>1, <1>2, <1>9 DEF BitmapExact
<1>11. SearchInv'
  BY <1>2 DEF SearchInv
<1> QED
  BY <1>6, <1>7, <1>8, <1>10, <1>11 DEF IInv

LEMMA StutterInv == IInv /\ UNCHANGED vars => IInv'
BY DEF vars, locals, ram, IInv, TypeOK, PhaseInv, OwnedUsable, OwnedDisjoint, OwnedPages,
       BitmapExact, FreePages, SearchInv, ScanBase, NoFreeRun

\* The strengthened invariant of pmm.cpp: types, what a page's bit means, and
\* what the search in progress knows of the pages it has passed.
THEOREM InductiveInvariant == Spec => []IInv
<1>1. Init => IInv
  BY InitInv
<1>2. IInv /\ [Next]_vars => IInv'
  <2> SUFFICES ASSUME IInv, [Next]_vars
               PROVE  IInv'
    OBVIOUS
  <2>1. CASE Initialize
    BY <2>1, InitializeInv
  <2>2. CASE InitializeFaults \/ InitializeOverruns
    BY <2>2, InitializeFailsInv
  <2>3. CASE \E n \in Requests : AllocCall(n)
    BY <2>3, AllocCallInv
  <2>4. CASE ScanUsed
    BY <2>4, ScanUsedInv
  <2>5. CASE ScanFree
    BY <2>5, ScanFreeInv
  <2>6. CASE ScanHit
    BY <2>6, ScanHitInv
  <2>7. CASE ScanWrap
    BY <2>7, ScanWrapInv
  <2>8. CASE OutOfMemory
    BY <2>8, OutOfMemoryInv
  <2>9. CASE \E e \in owned : Free(e)
    BY <2>9, FreeInv
  <2>10. CASE UNCHANGED vars
    BY <2>10, StutterInv
  <2> QED
    BY <2>1, <2>2, <2>3, <2>4, <2>5, <2>6, <2>7, <2>8, <2>9, <2>10 DEF Next
<1> QED
  BY <1>1, <1>2, PTL DEF Spec

-----------------------------------------------------------------------------
(* What follows from it *)

\* Every variable of the allocator has its type in every reachable state.
THEOREM TypeCorrect == Spec => []TypeOK
<1>1. IInv => TypeOK
  BY DEF IInv
<1> QED
  BY <1>1, InductiveInvariant, PTL

\* alloc never hands a page to two callers.
THEOREM NoPageOwnedTwice == Spec => []OwnedDisjoint
<1>1. IInv => OwnedDisjoint
  BY DEF IInv
<1> QED
  BY <1>1, InductiveInvariant, PTL

\* A page's bit is clear exactly when the page is usable and nobody's.
THEOREM BitmapIsExact == Spec => []BitmapExact
<1>1. IInv => BitmapExact
  BY DEF IInv
<1> QED
  BY <1>1, InductiveInvariant, PTL

\* The machine halts for lack of memory only if neither of the stretches the
\* two passes look at holds a run of the size asked for.
THEOREM HaltIsJustified == Spec => []HaltJustified
<1>1. IInv => HaltJustified
  <2> SUFFICES ASSUME IInv, phase = "halted"
               PROVE  NoFreeRun(0, start, count) /\ NoFreeRun(start, highest, count)
    BY DEF HaltJustified
  <2>1. pass = 2 /\ lastI = limit
    BY DEF IInv, PhaseInv
  <2>2. limit = start /\ NoFreeRun(0, lastI, count) /\ NoFreeRun(start, highest, count)
    BY <2>1 DEF IInv, SearchInv, ScanBase
  <2> QED
    BY <2>1, <2>2
<1> QED
  BY <1>1, InductiveInvariant, PTL

-----------------------------------------------------------------------------
(* The RAM counters, and the size of the bitmap *)

LEMMA WordRemainder ==
  \A a \in Int : /\ a \div Word \in Int /\ a % Word \in 0 .. (Word - 1)
                 /\ a = (a \div Word) * Word + (a % Word)
<1> DEFINE w == Word
<1>1. w \in Nat \ {0}
  BY UnitsAssumption
<1> HIDE DEF w
<1>2. \A a \in Int : /\ a \div w \in Int /\ a % w \in 0 .. (w - 1)
                     /\ a = (a \div w) * w + (a % w)
  <2> SUFFICES ASSUME NEW a \in Int
               PROVE  /\ a \div w \in Int /\ a % w \in 0 .. (w - 1)
                      /\ a = (a \div w) * w + (a % w)
    OBVIOUS
  <2>1. a \div w \in Int
    BY <1>1
  <2>2. a % w \in 0 .. (w - 1)
    BY <1>1
  <2>3. a = (a \div w) * w + (a % w)
    BY <1>1
  <2> QED
    BY <2>1, <2>2, <2>3
<1> QED
  BY <1>2 DEF w

\* A number has one remainder.
LEMMA OneRemainder ==
  ASSUME NEW a \in Int, NEW k \in Int, NEW r \in 0 .. (Word - 1), a = k * Word + r
  PROVE  a % Word = r
BY UnitsAssumption

\* Counters that wrap keep their sum.
LEMMA SumWraps ==
  ASSUME NEW u \in Int, NEW f \in Int, NEW n \in Int
  PROVE  (Plus(u, n) + Minus(f, n)) % Word = (u + f) % Word
<1> DEFINE a == u + n
           b == f - n
           i == a \div Word
           j == b \div Word
           r == a % Word
           s == b % Word
           k == (r + s) \div Word
           t == (r + s) % Word
<1>1. /\ i \in Int /\ r \in 0 .. (Word - 1) /\ a = i * Word + r
      /\ j \in Int /\ s \in 0 .. (Word - 1) /\ b = j * Word + s
  <2>1. a \in Int /\ b \in Int
    OBVIOUS
  <2> HIDE DEF a, b
  <2> QED
    BY <2>1, WordRemainder, Zenon
<1>2. Word \in Int
  BY UnitsAssumption
<1>3. Plus(u, n) = r /\ Minus(f, n) = s
  BY DEF Plus, Minus
<1> HIDE DEF i, j, r, s
<1>4. r + s \in Int
  BY <1>1, <1>2
<1>5. k \in Int /\ t \in 0 .. (Word - 1) /\ r + s = k * Word + t
  <2> DEFINE c == r + s
  <2> HIDE DEF c
  <2>1. c \in Int
    BY <1>4 DEF c
  <2>2. /\ c \div Word \in Int /\ c % Word \in 0 .. (Word - 1)
        /\ c = (c \div Word) * Word + (c % Word)
    BY <2>1, WordRemainder, Zenon
  <2> QED
    BY <2>2, Zenon DEF c
<1>6. u + f = a + b
  OBVIOUS
<1> HIDE DEF k, a, b
<1>7. u + f = (i + j + k) * Word + t
  <2> HIDE DEF t
  <2> QED
    BY <1>1, <1>2, <1>5, <1>6
<1>8. (u + f) % Word = t
  <2> HIDE DEF t
  <2> QED
    BY <1>1, <1>5, <1>7, OneRemainder
<1> QED
  BY <1>3, <1>8

\* Two numbers with one remainder keep one when the same number is added.
LEMMA SameRemainder ==
  ASSUME NEW a \in Int, NEW b \in Int, NEW n \in Int, a % Word = b % Word
  PROVE  (a + n) % Word = (b + n) % Word
<1> DEFINE i == a \div Word
           j == b \div Word
           r == a % Word
           c == b + n
           k == c \div Word
           t == c % Word
<1>1. i \in Int /\ r \in 0 .. (Word - 1) /\ a = i * Word + r
  BY WordRemainder, Zenon
<1>2. j \in Int /\ b = j * Word + r
  BY WordRemainder, Zenon
<1>3. c \in Int
  OBVIOUS
<1>4. k \in Int /\ t \in 0 .. (Word - 1) /\ c = k * Word + t
  <2> HIDE DEF c
  <2> QED
    BY <1>3, WordRemainder, Zenon
<1>5. Word \in Int
  BY UnitsAssumption
<1> HIDE DEF i, j, r, k, t
<1>6. a + n = (i - j + k) * Word + t
  BY <1>1, <1>2, <1>4, <1>5
<1>7. (a + n) % Word = t
  BY <1>1, <1>2, <1>4, <1>6, OneRemainder
<1> QED
  BY <1>7 DEF t

\* A counter that has wrapped still has the remainder of what it counts.
LEMMA WrappedAdds ==
  ASSUME NEW a \in Int, NEW b \in Int
  PROVE  ((a % Word) + b) % Word = (a + b) % Word
<1> DEFINE r == a % Word
<1>1. r \in 0 .. (Word - 1)
  BY WordRemainder
<1>2. r \in Int /\ r = 0 * Word + r
  <2> HIDE DEF r
  <2> QED
    BY <1>1, UnitsAssumption
<1>3. r % Word = r
  <2> HIDE DEF r
  <2> QED
    BY <1>1, <1>2, OneRemainder
<1>4. r % Word = a % Word
  BY <1>3, Zenon DEF r
<1> HIDE DEF r
<1>5. (r + b) % Word = (a + b) % Word
  BY <1>2, <1>4, SameRemainder
<1> QED
  BY <1>5 DEF r

\* Rounding the size of the bitmap up leaves a bit for every page unless only
\* the last byte is not a whole one and the others fill their pages.
LEMMA ShortBitmap ==
  ASSUME NEW h \in Nat
  PROVE  h > BitmapBits(h) <=> /\ h % BitsPerByte # 0
                               /\ (h \div BitsPerByte) % BytesPerPage = 0
<1> DEFINE q == h \div BitsPerByte
           r == h % BitsPerByte
           m == q \div BytesPerPage
           s == q % BytesPerPage
           n == (q + BytesPerPage - 1) \div BytesPerPage
<1>1. q \in Nat /\ r \in 0 .. (BitsPerByte - 1) /\ h = q * BitsPerByte + r
  BY UnitsAssumption
<1>2. BitmapBits(h) = n * BytesPerPage * BitsPerByte
  BY DEF BitmapBits, BitmapPages
<1> HIDE DEF q, r
<1>3. m \in Nat /\ s \in 0 .. (BytesPerPage - 1) /\ q = m * BytesPerPage + s
  BY <1>1, UnitsAssumption
<1>4. n = IF s = 0 THEN m ELSE m + 1
  <2> DEFINE x == q + BytesPerPage - 1
  <2>1. x \in Nat
    BY <1>1, UnitsAssumption
  <2>2. CASE s = 0
    <3>1. m * BytesPerPage <= x /\ x < m * BytesPerPage + BytesPerPage
      BY <1>3, <2>2, UnitsAssumption
    <3> HIDE DEF x, m
    <3>2. x \div BytesPerPage = m
      BY <1>3, <2>1, <3>1, UnitsAssumption
    <3> QED
      BY <2>2, <3>2 DEF x
  <2>3. CASE s # 0
    <3>1. /\ (m + 1) * BytesPerPage <= x
          /\ x < (m + 1) * BytesPerPage + BytesPerPage
      BY <1>3, <2>3, UnitsAssumption
    <3> HIDE DEF x, m
    <3>2. x \div BytesPerPage = m + 1
      BY <1>3, <2>1, <3>1, UnitsAssumption
    <3> QED
      BY <2>3, <3>2 DEF x
  <2> QED
    BY <2>2, <2>3
<1> HIDE DEF m, s, n
<1>5. CASE s = 0
  <2>1. n * BytesPerPage = q
    BY <1>3, <1>4, <1>5, UnitsAssumption
  <2>2. BitmapBits(h) = q * BitsPerByte
    BY <1>2, <2>1
  <2>3. q * BitsPerByte \in Nat
    BY <1>1, UnitsAssumption
  <2>4. h > BitmapBits(h) <=> r # 0
    BY <1>1, <2>2, <2>3, UnitsAssumption
  <2> QED
    BY <1>5, <2>4 DEF q, r, s
<1>6. CASE s # 0
  <2>1. n * BytesPerPage \in Nat /\ n * BytesPerPage >= q + 1
    BY <1>3, <1>4, <1>6, UnitsAssumption
  <2>2. n * BytesPerPage * BitsPerByte >= (q + 1) * BitsPerByte
    <3> DEFINE y == n * BytesPerPage
    <3> HIDE DEF y
    <3> SUFFICES y * BitsPerByte >= (q + 1) * BitsPerByte
      BY DEF y
    <3> QED
      BY <1>1, <2>1, UnitsAssumption DEF y
  <2>3. h < (q + 1) * BitsPerByte
    BY <1>1, UnitsAssumption
  <2>4. BitmapBits(h) \in Nat
    BY <1>2, <2>1, UnitsAssumption
  <2> QED
    BY <1>1, <1>2, <1>6, <2>2, <2>3, <2>4, UnitsAssumption DEF q, s
<1> QED
  BY <1>5, <1>6

\* The two halves of RamConserved.
SumInv ==
  phase \in {"ready", "halted"} =>
    (usedRam + freeRam) % Word = UsableCount(mmap) % Word
UsedInv ==
  phase \in {"ready", "halted"} =>
    (usedRam + uncounted) % Word = Cardinality(OwnedPages) % Word

\* Counters begin at zero and keep their sums, and only a bitmap with a bit for
\* every page is searched.
CountersInv ==
  /\ phase = "boot" => usedRam = 0 /\ uncounted = 0
  /\ SumInv
  /\ UsedInv
  /\ phase \in {"ready", "halted"} => highest <= BitmapBits(highest)
  /\ phase = "overrun" => highest > BitmapBits(highest)

LEMMA CountersAtBoot ==
  IInv /\ CountersInv /\ (Initialize \/ InitializeFaults \/ InitializeOverruns)
    => CountersInv'
<1> SUFFICES ASSUME IInv, CountersInv, Initialize \/ InitializeFaults \/ InitializeOverruns
             PROVE  CountersInv'
  OBVIOUS
<1>1. CASE Initialize
  <2>1. /\ phase = "boot" /\ phase' = "ready" /\ usedRam' = usedRam
        /\ uncounted' = uncounted /\ owned' = owned
        /\ freeRam' = UsableCount(mmap') % Word /\ highest' <= BitmapBits(highest')
    BY <1>1 DEF Initialize
  <2>2. usedRam' = 0 /\ uncounted' = 0
    BY <2>1 DEF CountersInv
  <2>3. UsableCount(mmap') \in Int
    <3>1. IInv'
      BY <1>1, InitializeInv
    <3>2. highest' \in Nat /\ UsablePages(mmap') \subseteq 0 .. (highest' - 1)
      BY <2>1, <3>1 DEF IInv, TypeOK, PhaseInv
    <3>3. UsableCount(mmap') \in Nat
      BY <3>2, UsableCountNat
    <3> HIDE DEF UsableCount
    <3> QED
      BY <3>3
  <2>4. (usedRam' + freeRam') % Word = UsableCount(mmap') % Word
    <3> DEFINE x == UsableCount(mmap')
               r == x % Word
    <3> HIDE DEF x
    <3>1. x \in Int
      BY <2>3 DEF x
    <3>2. (r + 0) % Word = (x + 0) % Word
      BY <3>1, WrappedAdds
    <3>3. x + 0 = x
      BY <3>1
    <3>4. r \in Int
      <4>1. r \in 0 .. (Word - 1)
        BY <3>1, WordRemainder
      <4> HIDE DEF r
      <4> QED
        BY <4>1, UnitsAssumption
    <3>5. r % Word = x % Word
      <4> HIDE DEF r
      <4>1. r + 0 = r
        BY <3>4
      <4> QED
        BY <4>1, <3>2, <3>3 DEF r
    <3>6. usedRam' + freeRam' = r
      <4>1. freeRam' = r
        BY <2>1 DEF x
      <4> HIDE DEF r
      <4> QED
        BY <4>1, <2>2, <3>4
    <3> QED
      BY <3>5, <3>6 DEF x
  <2>5. SumInv'
    BY <2>4 DEF SumInv, UsableCount, UsablePages
  <2>6. OwnedPages' = {}
    BY <1>1, <2>1 DEF IInv, PhaseInv, OwnedPages
  <2>7. (usedRam' + uncounted') % Word = Cardinality(OwnedPages') % Word
    BY <2>2, <2>6, FS_EmptySet
  <2>8. UsedInv'
    BY <2>7 DEF UsedInv, OwnedPages
  <2> QED
    BY <2>1, <2>5, <2>8 DEF CountersInv
<1>2. CASE InitializeFaults
  BY <1>2 DEF InitializeFaults, CountersInv, SumInv, UsedInv
<1>3. CASE InitializeOverruns
  BY <1>3 DEF InitializeOverruns, CountersInv, SumInv, UsedInv
<1> QED
  BY <1>1, <1>2, <1>3

\* What leaves one counter enters the other.
LEMMA CountersMove ==
  ASSUME IInv, SumInv, phase = "ready", mmap' = mmap,
         \E n \in Int : \/ usedRam' = Plus(usedRam, n) /\ freeRam' = Minus(freeRam, n)
                        \/ usedRam' = Minus(usedRam, n) /\ freeRam' = Plus(freeRam, n)
  PROVE  SumInv'
<1>1. usedRam \in Int /\ freeRam \in Int
  BY UnitsAssumption DEF IInv, TypeOK
<1>2. PICK n \in Int : \/ usedRam' = Plus(usedRam, n) /\ freeRam' = Minus(freeRam, n)
                       \/ usedRam' = Minus(usedRam, n) /\ freeRam' = Plus(freeRam, n)
  OBVIOUS
<1>3. (usedRam' + freeRam') % Word = (usedRam + freeRam) % Word
  <2>1. /\ (Plus(usedRam, n) + Minus(freeRam, n)) % Word = (usedRam + freeRam) % Word
        /\ (Plus(freeRam, n) + Minus(usedRam, n)) % Word = (freeRam + usedRam) % Word
    BY <1>1, SumWraps
  <2>2. freeRam + usedRam = usedRam + freeRam
    BY <1>1
  <2>3. Plus(usedRam, n) \in Int /\ Minus(usedRam, n) \in Int
        /\ Plus(freeRam, n) \in Int /\ Minus(freeRam, n) \in Int
    BY <1>1, UnitsAssumption, WordRemainder DEF Plus, Minus
  <2>4. Plus(freeRam, n) + Minus(usedRam, n) = Minus(usedRam, n) + Plus(freeRam, n)
    BY <2>3
  <2> QED
    BY <1>2, <2>1, <2>2, <2>4
<1>4. (usedRam' + freeRam') % Word = UsableCount(mmap)' % Word
  BY <1>3 DEF SumInv, UsableCount, UsablePages
<1> QED
  BY <1>4 DEF SumInv

\* The pages in use are finitely many.
LEMMA OwnedFinite ==
  ASSUME IInv, phase \in {"ready", "halted"}
  PROVE  IsFiniteSet(OwnedPages) /\ Cardinality(OwnedPages) \in Nat
<1>1. highest \in Nat /\ OwnedPages \subseteq 0 .. (highest - 1)
  BY DEF IInv, TypeOK, PhaseInv, OwnedUsable
<1>2. IsFiniteSet(0 .. (highest - 1))
  <2>1. highest - 1 \in Int
    BY <1>1
  <2> QED
    BY <2>1, FS_Interval
<1> QED
  BY <1>1, <1>2, FS_Subset, FS_CardinalityType

LEMMA ExtentSize ==
  ASSUME NEW e \in Extents
  PROVE  IsFiniteSet(Pages(e)) /\ Cardinality(Pages(e)) = e[2]
<1>1. e[1] \in Nat /\ e[2] \in Nat
  BY DEF Extents
<1> DEFINE lo == e[1]
           hi == e[1] + e[2] - 1
<1>2. lo \in Int /\ hi \in Int
  BY <1>1
<1>3. Pages(e) = lo .. hi
  BY DEF Pages
<1>4. IsFiniteSet(lo .. hi) /\ Cardinality(lo .. hi) = IF lo > hi THEN 0 ELSE hi - lo + 1
  <2> HIDE DEF lo, hi
  <2> QED
    BY <1>2, FS_Interval
<1>5. (IF lo > hi THEN 0 ELSE hi - lo + 1) = e[2]
  BY <1>1
<1> QED
  BY <1>3, <1>4, <1>5

\* A hit adds its pages either to usedRam or to the uncounted ones.
LEMMA HitIsAccounted ==
  ASSUME IInv, UsedInv, ScanHit
  PROVE  UsedInv'
<1> DEFINE e == <<lastI + 1 - count, count>>
           c == Cardinality(OwnedPages)
<1>1. /\ e \in Extents /\ Pages(e) \subseteq FreePages
      /\ OwnedPages' = OwnedPages \cup Pages(e)
  BY HitTakesFreePages
<1>2. /\ phase = "ready" /\ count \in Int /\ usedRam \in Int /\ uncounted \in Int
      /\ pass \in {1, 2}
  BY UnitsAssumption DEF ScanHit, CanScan, Scanning, IInv, TypeOK
<1>3. IsFiniteSet(OwnedPages) /\ c \in Nat
  BY <1>2, OwnedFinite
<1>4. IsFiniteSet(Pages(e)) /\ Cardinality(Pages(e)) = count
  BY <1>1, ExtentSize
<1>5. Pages(e) \cap OwnedPages = {}
  BY <1>1, <1>2 DEF IInv, BitmapExact
<1>6. Cardinality(OwnedPages') = c + count
  <2>1. OwnedPages \cap Pages(e) = {}
    BY <1>5
  <2>2. Cardinality(OwnedPages \cup Pages(e))
          = Cardinality(OwnedPages) + Cardinality(Pages(e))
            - Cardinality(OwnedPages \cap Pages(e))
    BY <1>3, <1>4, FS_Union
  <2> HIDE DEF e
  <2>3. Cardinality(OwnedPages') = c + count - 0
    BY <2>1, <2>2, <1>1, <1>4, FS_EmptySet
  <2> QED
    BY <2>3, <1>2, <1>3
<1>7. (usedRam + uncounted) % Word = c % Word
  BY <1>2 DEF UsedInv
<1> HIDE DEF e, c
<1>8. (usedRam + uncounted + count) % Word = (c + count) % Word
  <2> DEFINE s == usedRam + uncounted
  <2>1. s \in Int /\ c \in Int
    BY <1>2, <1>3
  <2>2. s % Word = c % Word
    BY <1>7
  <2> HIDE DEF s
  <2>3. (s + count) % Word = (c + count) % Word
    BY <2>1, <2>2, <1>2, SameRemainder
  <2> QED
    BY <2>3 DEF s
<1>9. (usedRam' + uncounted') % Word = (usedRam + uncounted + count) % Word
  <2>1. CASE pass = 2
    <3> DEFINE a == usedRam + count
    <3>1. usedRam' = a % Word /\ uncounted' = uncounted
      BY <2>1 DEF ScanHit, Plus
    <3>2. a \in Int /\ a + uncounted = usedRam + uncounted + count
      BY <1>2
    <3> HIDE DEF a
    <3>3. ((a % Word) + uncounted) % Word = (a + uncounted) % Word
      BY <3>2, <1>2, WrappedAdds
    <3> QED
      BY <3>1, <3>2, <3>3
  <2>2. CASE pass = 1
    <3> DEFINE a == uncounted + count
    <3>1. usedRam' = usedRam /\ uncounted' = a % Word
      BY <2>2 DEF ScanHit, ram
    <3>2. a \in Int /\ a + usedRam = usedRam + uncounted + count
      BY <1>2
    <3> HIDE DEF a
    <3>3. ((a % Word) + usedRam) % Word = (a + usedRam) % Word
      BY <3>2, <1>2, WrappedAdds
    <3>4. a % Word \in Int
      BY <3>2, WordRemainder
    <3>5. usedRam + (a % Word) = (a % Word) + usedRam
      <4> DEFINE m == a % Word
      <4> HIDE DEF m
      <4>1. usedRam + m = m + usedRam
        BY <1>2, <3>4 DEF m
      <4> QED
        BY <4>1 DEF m
    <3> QED
      BY <3>1, <3>2, <3>3, <3>5
  <2> QED
    BY <1>2, <2>1, <2>2
<1>10. (usedRam' + uncounted') % Word = Cardinality(OwnedPages)' % Word
  BY <1>6, <1>8, <1>9
<1> QED
  BY <1>10 DEF UsedInv

\* free takes its pages off usedRam, whichever pass handed them out.
LEMMA FreeIsAccounted ==
  ASSUME IInv, UsedInv, NEW e \in owned, Free(e)
  PROVE  UsedInv'
<1> DEFINE c == Cardinality(OwnedPages)
           n == e[2]
<1>1. /\ phase = "ready" /\ e \in Extents /\ usedRam \in Int /\ uncounted \in Int
      /\ uncounted' = uncounted /\ usedRam' = Minus(usedRam, e[2])
  BY UnitsAssumption DEF Free, IInv, TypeOK
<1>2. OwnedPages' = OwnedPages \ Pages(e) /\ Pages(e) \subseteq OwnedPages
  BY FreeGivesBack DEF OwnedPages
<1>3. IsFiniteSet(OwnedPages) /\ c \in Nat
  BY <1>1, OwnedFinite
<1>4. Cardinality(Pages(e)) = n /\ n \in Int
  BY <1>1, ExtentSize DEF Extents
<1>5. Cardinality(OwnedPages') = c - n
  <2>1. Cardinality(OwnedPages \ Pages(e))
          = Cardinality(OwnedPages) - Cardinality(OwnedPages \cap Pages(e))
    BY <1>3, FS_Difference
  <2>2. OwnedPages \cap Pages(e) = Pages(e)
    BY <1>2
  <2> QED
    BY <2>1, <2>2, <1>2, <1>4
<1>6. (usedRam + uncounted) % Word = c % Word
  BY <1>1 DEF UsedInv
<1> HIDE DEF c, n
<1>7. (usedRam + uncounted - n) % Word = (c - n) % Word
  <2> DEFINE s == usedRam + uncounted
             m == -n
  <2>1. s \in Int /\ c \in Int /\ m \in Int
    BY <1>1, <1>3, <1>4
  <2>2. s % Word = c % Word
    BY <1>6
  <2>3. s + m = usedRam + uncounted - n /\ c + m = c - n
    BY <1>1, <1>3, <1>4
  <2> HIDE DEF s, m
  <2>4. (s + m) % Word = (c + m) % Word
    BY <2>1, <2>2, SameRemainder
  <2> QED
    BY <2>3, <2>4
<1>8. (usedRam' + uncounted') % Word = (usedRam + uncounted - n) % Word
  <2> DEFINE a == usedRam - n
  <2>1. usedRam' = a % Word
    BY <1>1 DEF Minus, n
  <2>2. a \in Int /\ a + uncounted = usedRam + uncounted - n
    BY <1>1, <1>4
  <2> HIDE DEF a
  <2>3. ((a % Word) + uncounted) % Word = (a + uncounted) % Word
    BY <2>2, <1>1, WrappedAdds
  <2> QED
    BY <1>1, <2>1, <2>2, <2>3
<1>9. (usedRam' + uncounted') % Word = Cardinality(OwnedPages)' % Word
  BY <1>5, <1>7, <1>8
<1> QED
  BY <1>9 DEF UsedInv

LEMMA CountersStay ==
  ASSUME CountersInv, UNCHANGED <<mmap, highest, usedRam, freeRam, owned, uncounted>>,
         phase' = phase \/ (phase = "ready" /\ phase' = "halted")
  PROVE  CountersInv'
<1>1. SumInv'
  BY DEF CountersInv, SumInv, UsableCount, UsablePages
<1>2. UsedInv'
  BY DEF CountersInv, UsedInv, OwnedPages
<1> QED
  BY <1>1, <1>2 DEF CountersInv

LEMMA CountersInductive == Spec => []CountersInv
<1>1. Init => CountersInv
  BY DEF Init, CountersInv, SumInv, UsedInv
<1>2. IInv /\ CountersInv /\ [Next]_vars => CountersInv'
  <2> SUFFICES ASSUME IInv, CountersInv, [Next]_vars
               PROVE  CountersInv'
    OBVIOUS
  <2>1. CASE Initialize \/ InitializeFaults \/ InitializeOverruns
    BY <2>1, CountersAtBoot
  <2>2. CASE ScanHit
    <3>1. phase = "ready" /\ UNCHANGED <<phase, mmap, highest>> /\ count \in Int
      BY <2>2 DEF ScanHit, CanScan, Scanning, IInv, TypeOK
    <3>2. \/ usedRam' = Plus(usedRam, count) /\ freeRam' = Minus(freeRam, count)
          \/ UNCHANGED ram
      BY <2>2 DEF ScanHit
    <3>3. SumInv'
      <4>1. CASE UNCHANGED ram
        BY <4>1, <3>1 DEF ram, CountersInv, SumInv, UsableCount, UsablePages
      <4> QED
        BY <4>1, <3>1, <3>2, CountersMove DEF CountersInv
    <3>4. UsedInv'
      BY <2>2, HitIsAccounted DEF CountersInv
    <3> QED
      BY <3>1, <3>3, <3>4 DEF CountersInv
  <2>3. CASE \E e \in owned : Free(e)
    <3>1. PICK e \in owned : Free(e)
      BY <2>3
    <3>2. e[2] \in Int
      BY DEF IInv, TypeOK, Extents
    <3>3. phase = "ready" /\ UNCHANGED <<phase, mmap, highest>>
      BY <3>1 DEF Free
    <3>4. SumInv'
      BY <3>1, <3>2, <3>3, CountersMove DEF Free, CountersInv
    <3>5. UsedInv'
      BY <3>1, FreeIsAccounted DEF CountersInv
    <3> QED
      BY <3>3, <3>4, <3>5 DEF CountersInv
  <2>4. CASE \/ \E n \in Requests : AllocCall(n)
             \/ ScanUsed \/ ScanFree \/ ScanWrap \/ OutOfMemory
             \/ UNCHANGED vars
    <3>1. UNCHANGED <<mmap, highest, usedRam, freeRam, owned, uncounted>>
      BY <2>4 DEF AllocCall, ScanUsed, ScanFree, ScanWrap, OutOfMemory, vars, ram
    <3>2. phase' = phase \/ (phase = "ready" /\ phase' = "halted")
      BY <2>4 DEF AllocCall, ScanUsed, ScanFree, ScanWrap, OutOfMemory, Scanning, vars
    <3> QED
      BY <3>1, <3>2, CountersStay
  <2> QED
    BY <2>1, <2>2, <2>3, <2>4 DEF Next
<1> QED
  BY <1>1, <1>2, InductiveInvariant, PTL DEF Spec

\* The RAM counters through all wraps, for every map, request and word: their
\* sum stays the number of usable pages, and usedRam misses exactly the pages
\* that first passes of alloc handed out, which it does not count and free does.
THEOREM RamIsConserved == Spec => []RamConserved
<1>1. CountersInv => RamConserved
  BY DEF CountersInv, SumInv, UsedInv, RamConserved
<1> QED
  BY <1>1, CountersInductive, PTL

\* Initialize's bitmap is too short for memory exactly when one to seven pages
\* lie past a whole number of bitmap pages, for any unit sizes.
THEOREM OverrunsOnlyAtEdge == Spec => []OverrunOnlyAtEdge
<1>1. IInv /\ CountersInv => OverrunOnlyAtEdge
  <2> SUFFICES ASSUME IInv, CountersInv, phase \notin {"boot", "fault"}
               PROVE  phase = "overrun" <=> /\ highest % BitsPerByte # 0
                                            /\ (highest \div BitsPerByte) % BytesPerPage = 0
    BY DEF OverrunOnlyAtEdge
  <2>1. highest \in Nat /\ phase \in {"ready", "overrun", "halted"}
    BY DEF IInv, TypeOK
  <2>2. BitmapBits(highest) \in Nat
    BY <2>1, BitmapPagesNat, UnitsAssumption DEF BitmapBits
  <2>3. phase = "overrun" <=> highest > BitmapBits(highest)
    BY <2>1, <2>2 DEF CountersInv
  <2> QED
    BY <2>1, <2>3, ShortBitmap
<1> QED
  BY <1>1, CountersInductive, InductiveInvariant, PTL

-----------------------------------------------------------------------------
(* The code implements PageAllocator. *)

LEMMA RefinesInit == Init => Abstract!Init
BY DEF Init, Abstract!Init, FreePages

LEMMA BootRefines ==
  ASSUME IInv, IInv', Initialize \/ InitializeFaults \/ InitializeOverruns
  PROVE  Abstract!Boot
<1>1. phase = "boot" /\ phase' # "boot" /\ owned' = owned
  BY DEF Initialize, InitializeFaults, InitializeOverruns
<1>2. FreePages' \in SUBSET Nat
  <2>1. DOMAIN bitmap' = 0 .. (highest' - 1) \/ DOMAIN bitmap' = {}
    BY DEF IInv, TypeOK
  <2> QED
    BY <2>1 DEF FreePages
<1> QED
  BY <1>1, <1>2 DEF Abstract!Boot

LEMMA HitRefines ==
  ASSUME IInv, ScanHit
  PROVE  Abstract!Next
<1> DEFINE a == lastI + 1 - count
           e == <<a, count>>
<1>1. /\ e \in Extents /\ Pages(e) = a .. lastI /\ Pages(e) # {}
      /\ Pages(e) \subseteq FreePages
      /\ FreePages' = FreePages \ Pages(e)
      /\ owned' = owned \cup {e}
  BY HitTakesFreePages
<1>2. phase = "ready" /\ phase' = "ready" /\ lastI \in Nat /\ count \in Nat \ {0}
  BY RequestsAssumption DEF IInv, TypeOK, SearchInv, ScanHit, CanScan, Scanning
<1>3. a \in FreePages /\ lastI \in FreePages
  BY <1>1, <1>2
<1>4. e = <<a, lastI - a + 1>> /\ e[2] > 0 /\ Abstract!Pages(e) = Pages(e)
  BY <1>2 DEF Pages, Abstract!Pages
<1>5. Abstract!Alloc(e)
  BY <1>1, <1>2, <1>4 DEF Abstract!Alloc
<1> QED
  BY <1>3, <1>4, <1>5 DEF Abstract!Next

LEMMA FreeRefines ==
  ASSUME IInv, NEW e \in owned, Free(e)
  PROVE  Abstract!Next
<1>1. Abstract!Pages(e) = Pages(e)
  BY DEF Pages, Abstract!Pages
<1>2. Abstract!Free(e)
  BY <1>1, FreeGivesBack DEF Free, Abstract!Free
<1> QED
  BY <1>2 DEF Abstract!Next

\* A step of the search that returns nothing is invisible to the callers.
LEMMA SearchStutters ==
  ASSUME IInv,
         \/ \E n \in Requests : AllocCall(n)
         \/ ScanUsed \/ ScanFree \/ ScanWrap \/ OutOfMemory
         \/ UNCHANGED vars
  PROVE  UNCHANGED Abstract!vars
<1>1. bitmap' = bitmap /\ owned' = owned
  BY DEF AllocCall, ScanUsed, ScanFree, ScanWrap, OutOfMemory, vars
<1>2. (phase' # "boot") = (phase # "boot")
  BY DEF AllocCall, ScanUsed, ScanFree, ScanWrap, OutOfMemory, CanScan, Scanning, vars
<1> QED
  BY <1>1, <1>2 DEF Abstract!vars, FreePages

\* Whatever the search does, callers see an allocator that takes extents out of
\* a pool and puts them back.
THEOREM Implementation == Spec => ImplementsPageAllocator
<1>1. Init => Abstract!Init
  BY RefinesInit
<1>2. IInv /\ IInv' /\ [Next]_vars => [Abstract!Next]_(Abstract!vars)
  <2> SUFFICES ASSUME IInv, IInv', [Next]_vars
               PROVE  Abstract!Next \/ UNCHANGED Abstract!vars
    OBVIOUS
  <2>1. CASE Initialize \/ InitializeFaults \/ InitializeOverruns
    BY <2>1, BootRefines DEF Abstract!Next
  <2>2. CASE ScanHit
    BY <2>2, HitRefines
  <2>3. CASE \E e \in owned : Free(e)
    BY <2>3, FreeRefines
  <2>4. CASE \/ \E n \in Requests : AllocCall(n)
             \/ ScanUsed \/ ScanFree \/ ScanWrap \/ OutOfMemory
             \/ UNCHANGED vars
    BY <2>4, SearchStutters
  <2> QED
    BY <2>1, <2>2, <2>3, <2>4 DEF Next
<1> QED
  BY <1>1, <1>2, InductiveInvariant, PTL DEF Spec, ImplementsPageAllocator, Abstract!Spec
=============================================================================
