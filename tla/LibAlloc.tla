------------------------------ MODULE LibAlloc ------------------------------
(***************************************************************************)
(* The kernel heap of src/src/mm/liballoc.cpp: blocks of whole pages, cut  *)
(* into tagged pieces, with a list of free pieces for each power of two.   *)
(*                                                                         *)
(* Addresses and sizes are in bytes.  A tag stands for the piece it heads. *)
(* One step is one iteration of a loop of malloc or free; what follows a   *)
(* loop up to the return is one step.  Calls do not overlap: only          *)
(* BspKernelThread allocates once interrupts are on.                       *)
(***************************************************************************)
EXTENDS Integers, FiniteSets, Functions

CONSTANTS
  Requests,    \* the sizes callers ask for
  HeapPages,   \* the pages the page allocator can give
  MaxGiven,    \* bound: blocks callers have at a time
  TagSize,     \* sizeof(struct boundary_tag)
  PageSize,    \* l_pageSize
  PageCount,   \* l_pageCount, the smallest number of pages taken
  MinExp,      \* MINEXP
  MaxExp,      \* MAXEXP
  MaxComplete  \* MAXCOMPLETE

ASSUME SizesAssumption ==
  /\ TagSize \in Nat \ {0} /\ PageSize \in Nat \ {0} /\ PageCount \in Nat \ {0}
  /\ MinExp \in Nat /\ MaxExp \in Nat /\ MinExp < MaxExp
  /\ MaxComplete \in Nat /\ MaxGiven \in Nat
ASSUME RequestsAssumption == Requests \subseteq Nat \ {0}
ASSUME PagesAssumption == HeapPages \subseteq Nat \ {0}

NULL == 0

VARIABLES
  tags,           \* address of a tag -> the tag
  freePages,      \* l_freePages: bin -> the first free tag
  completePages,  \* l_completePages: bin -> number of whole free blocks
  pc,             \* "idle", or where malloc or free is
  tag,            \* their local `tag`
  size,           \* malloc's argument
  index,          \* malloc's local `index`
  given,          \* ghost: what callers have, address -> bytes asked for
  pool,           \* the page allocator's free pages
  owned           \* the extents <<page, count>> taken from it

vars == <<tags, freePages, completePages, pc, tag, size, index, given, pool, owned>>
pages == <<pool, owned>>
lists == <<tags, freePages, completePages>>

Bins == MinExp .. (MaxExp - 1)

-----------------------------------------------------------------------------
(* Helper functions *)

\* getexp's loop: shift stops at the first power of two above n.
getexp(n) ==
  IF n < 2 ^ MinExp THEN -1
  ELSE LET Above == {s \in Bins : 2 ^ s > n}
       IN  (IF Above = {} THEN MaxExp ELSE CHOOSE s \in Above : \A r \in Above : s <= r) - 1

\* ... and the list for that exponent.
BinOf(n) == IF getexp(n) < MinExp THEN MinExp ELSE getexp(n)

\* f with a value for x as well.
Added(f, x, v) == [y \in DOMAIN f \cup {x} |-> IF y = x THEN v ELSE f[y]]

Payload(t) == t.real_size - TagSize

\* Wrong on purpose: a block that begins with a free piece counts as whole.
WholeFromLeft(t) == t.split_left = NULL

\* A block that is one piece.
Whole(t) == t.split_left = NULL /\ t.split_right = NULL

\* Wrong on purpose: the tag behind is not told that its predecessor has changed.
RemovedNoPrev(ts, a) ==
  [b \in DOMAIN ts |->
     CASE b = a -> [ts[a] EXCEPT !.next = NULL, !.prev = NULL, !.index = -1]
       [] b = ts[a].prev /\ b # a -> [ts[b] EXCEPT !.next = ts[a].next]
       [] OTHER -> ts[b]]

\* remove_tag: the tags, and the heads of the lists.
Removed(ts, a) ==
  [b \in DOMAIN ts |->
     CASE b = a -> [ts[a] EXCEPT !.next = NULL, !.prev = NULL, !.index = -1]
       [] b = ts[a].prev /\ b # a -> [ts[b] EXCEPT !.next = ts[a].next]
       [] b = ts[a].next /\ b # a -> [ts[b] EXCEPT !.prev = ts[a].prev]
       [] OTHER -> ts[b]]
HeadsWithout(ts, a) ==
  IF freePages[ts[a].index] = a
  THEN [freePages EXCEPT ![ts[a].index] = ts[a].next]
  ELSE freePages

\* insert_tag, at the front of list i.
Inserted(ts, heads, a, i) ==
  [b \in DOMAIN ts |->
     CASE b = a /\ heads[i] # NULL -> [ts[a] EXCEPT !.index = i, !.next = heads[i]]
       [] b = a /\ heads[i] = NULL -> [ts[a] EXCEPT !.index = i]
       [] b = heads[i] /\ b # a -> [ts[b] EXCEPT !.prev = a]
       [] OTHER -> ts[b]]
HeadsWith(heads, a, i) == [heads EXCEPT ![i] = a]

\* The tags with `right` as the right neighbour of a piece and the other way
\* round, where there is one.
LeftOf(ts, right, left) ==
  IF right = NULL THEN ts ELSE [ts EXCEPT ![right].split_left = left]

\* Wrong on purpose: the new piece is not told of its right neighbour.
SplitUntold(ts, a) ==
  LET b == a + TagSize + ts[a].size
      rest == ts[a].real_size - TagSize - ts[a].size
  IN  Added([ts EXCEPT ![a].split_right = b, ![a].real_size = @ - rest], b,
            [size |-> 0, real_size |-> rest, index |-> -1,
             split_left |-> a, split_right |-> NULL, next |-> NULL, prev |-> NULL])

\* split_tag without its insert_tag: piece a keeps what was asked for, and a
\* new piece takes the rest.
SplitPlace(t, a) == a + TagSize + t.size
Split(ts, a) ==
  LET b == SplitPlace(ts[a], a)
      rest == ts[a].real_size - TagSize - ts[a].size
  IN  Added([LeftOf(ts, ts[a].split_right, b) EXCEPT ![a].split_right = b,
                                                     ![a].real_size = @ - rest],
            b,
            [size |-> 0, real_size |-> rest, index |-> -1,
             split_left |-> a, split_right |-> ts[a].split_right,
             next |-> NULL, prev |-> NULL])

\* Piece a swallows its right neighbour r, whose tag is dead memory afterwards:
\* what melt_left and absorb_right have in common.
Joined(ts, a, r) ==
  Restrict(LeftOf([ts EXCEPT ![a].real_size = @ + ts[r].real_size,
                             ![a].split_right = ts[r].split_right],
                  ts[r].split_right, a),
           DOMAIN ts \ {r})

-----------------------------------------------------------------------------
(* PhysicalMemory, as liballoc_alloc and liballoc_free use it *)

Pages(e) == e[1] .. (e[1] + e[2] - 1)
TakePages(e) ==
  /\ Pages(e) \subseteq pool
  /\ pool' = pool \ Pages(e)
  /\ owned' = owned \cup {e}
ReturnPages(e) ==
  /\ pool' = pool \cup Pages(e)
  /\ owned' = owned \ {e}

\* Wrong on purpose: the last page is forgotten.
PagesForRoundedDown(n) ==
  IF n \div PageSize < PageCount THEN PageCount ELSE n \div PageSize

\* The pages for n bytes; allocate_new_tag and free round alike.
PagesFor(n) ==
  LET k == (n + PageSize - 1) \div PageSize
  IN  IF k < PageCount THEN PageCount ELSE k

-----------------------------------------------------------------------------
(* malloc *)

Init ==
  /\ tags = [a \in {} |-> <<>>]
  /\ freePages = [i \in Bins |-> NULL]
  /\ completePages = [i \in Bins |-> 0]
  /\ pc = "idle" /\ tag = NULL /\ size = 0 /\ index = 0
  /\ given = [a \in {} |-> 0]
  /\ pool = HeapPages
  /\ owned = {}

MallocCall(n) ==
  /\ pc = "idle"
  /\ Cardinality(DOMAIN given) < MaxGiven
  /\ pc' = "search"
  /\ size' = n
  /\ index' = BinOf(n)
  /\ tag' = freePages[index']
  /\ UNCHANGED <<lists, given, pages>>

Fits(t) == Payload(t) >= size + TagSize

\* Wrong on purpose: the search starts over.
SearchOnStartsOver ==
  /\ pc = "search" /\ tag # NULL
  /\ ~Fits(tags[tag])
  /\ tag' = freePages[index]
  /\ UNCHANGED <<lists, pc, size, index, given, pages>>

\* The tag at hand is too small: look at the next one.
SearchOn ==
  /\ pc = "search" /\ tag # NULL
  /\ ~Fits(tags[tag])
  /\ tag' = tags[tag].next
  /\ UNCHANGED <<lists, pc, size, index, given, pages>>

\* What malloc does with the tag it has settled on: cut off the excess if a
\* piece of some use is left, and return.
Settle(ts, heads, a) ==
  LET sized == [ts EXCEPT ![a].size = size]
      remainder == ts[a].real_size - size - 2 * TagSize
      b == SplitPlace(sized[a], a)
      cut == Split(sized, a)
      i == BinOf(Payload(cut[b]))
  IN  /\ \/ /\ remainder > 0 /\ getexp(remainder) >= 0
            /\ tags' = Inserted(cut, heads, b, i)
            /\ freePages' = HeadsWith(heads, b, i)
         \/ /\ ~(remainder > 0 /\ getexp(remainder) >= 0)
            /\ tags' = sized
            /\ freePages' = heads
      /\ given' = Added(given, a + TagSize, size)
      /\ pc' = "idle" /\ tag' = NULL /\ size' = 0 /\ index' = 0

SearchHit ==
  /\ pc = "search" /\ tag # NULL
  /\ Fits(tags[tag])
  /\ completePages' = IF Whole(tags[tag])
                      THEN [completePages EXCEPT ![index] = @ - 1]
                      ELSE completePages
  /\ Settle(Removed(tags, tag), HeadsWithout(tags, tag), tag)
  /\ UNCHANGED pages

\* allocate_new_tag: pages of its own for this request.
NewBlock(e) ==
  [size |-> size, real_size |-> e[2] * PageSize, index |-> -1,
   split_left |-> NULL, split_right |-> NULL, next |-> NULL, prev |-> NULL]
SearchMiss(p) ==
  /\ pc = "search" /\ tag = NULL
  /\ LET e == <<p, PagesFor(size + TagSize)>>
         a == p * PageSize
     IN  /\ TakePages(e)
         /\ Settle(Added(tags, a, NewBlock(e)), freePages, a)
  /\ UNCHANGED completePages

\* PhysicalMemory::alloc does not return: out of memory, it halts the machine.
Halt ==
  /\ pc = "search" /\ tag = NULL
  /\ pc' = "halted"
  /\ UNCHANGED <<lists, tag, size, index, given, pages>>

-----------------------------------------------------------------------------
(* free *)

FreeCall(a) ==
  /\ pc = "idle"
  /\ pc' = "left"
  /\ tag' = a - TagSize
  /\ given' = Restrict(given, DOMAIN given \ {a})
  /\ UNCHANGED <<lists, size, index, pages>>

\* Wrong on purpose: pieces in the first list do not melt.
IsFreeAbove(a) == a # NULL /\ tags[a].index > MinExp
IsFree(a) == a # NULL /\ tags[a].index >= 0

\* melt_left, then remove_tag of the piece it has grown.
MeltLeft ==
  /\ pc = "left"
  /\ IsFree(tags[tag].split_left)
  /\ LET l == tags[tag].split_left
         melted == Joined(tags, l, tag)
     IN  /\ tags' = Removed(melted, l)
         /\ freePages' = HeadsWithout(melted, l)
         /\ tag' = l
  /\ UNCHANGED <<completePages, pc, size, index, given, pages>>

MeltLeftEnds ==
  /\ pc = "left"
  /\ ~IsFree(tags[tag].split_left)
  /\ pc' = "right"
  /\ UNCHANGED <<lists, tag, size, index, given, pages>>

\* absorb_right: remove_tag of the neighbour, which is then swallowed.
AbsorbRight ==
  /\ pc = "right"
  /\ IsFree(tags[tag].split_right)
  /\ LET r == tags[tag].split_right
     IN  /\ tags' = Joined(Removed(tags, r), tag, r)
         /\ freePages' = HeadsWithout(tags, r)
  /\ UNCHANGED <<completePages, pc, tag, size, index, given, pages>>

Place == BinOf(Payload(tags[tag]))
Melted == pc = "right" /\ ~IsFree(tags[tag].split_right)
Surplus == Whole(tags[tag]) /\ completePages[Place] = MaxComplete
Returned == pc' = "idle" /\ tag' = NULL

\* Wrong on purpose: room for a tag is added, as allocate_new_tag does.
ExtentAndTag(a) == <<a \div PageSize, PagesFor(tags[a].real_size + TagSize)>>

\* The extent free makes out of a whole block.
Extent(a) == <<a \div PageSize, PagesFor(tags[a].real_size)>>

\* Enough whole blocks stand by: this one goes back to the page allocator.
GiveBack ==
  /\ Melted
  /\ Surplus
  /\ ReturnPages(Extent(tag))
  /\ tags' = Restrict(tags, DOMAIN tags \ {tag})
  /\ Returned
  /\ UNCHANGED <<freePages, completePages, size, index, given>>

\* The piece goes to the front of its list.
Keep ==
  /\ Melted
  /\ ~Surplus
  /\ completePages' = IF Whole(tags[tag])
                      THEN [completePages EXCEPT ![Place] = @ + 1]
                      ELSE completePages
  /\ tags' = Inserted(tags, freePages, tag, Place)
  /\ freePages' = HeadsWith(freePages, tag, Place)
  /\ Returned
  /\ UNCHANGED <<size, index, given, pages>>

Step ==
  \/ SearchOn \/ SearchHit \/ (\E p \in HeapPages : SearchMiss(p)) \/ Halt
  \/ MeltLeft \/ MeltLeftEnds \/ AbsorbRight \/ GiveBack \/ Keep

Next ==
  \/ \E n \in Requests : MallocCall(n)
  \/ SearchOn
  \/ SearchHit
  \/ \E p \in HeapPages : SearchMiss(p)
  \/ Halt
  \/ \E a \in DOMAIN given : FreeCall(a)
  \/ MeltLeft
  \/ MeltLeftEnds
  \/ AbsorbRight
  \/ GiveBack
  \/ Keep

Spec == Init /\ [][Next]_vars

\* A call that has begun runs on.
FairSpec == Spec /\ WF_vars(Step)

-----------------------------------------------------------------------------
(* Properties *)

Addresses == DOMAIN tags
FreeTags == {a \in Addresses : tags[a].index >= 0}
Start(e) == e[1] * PageSize
End(e) == (e[1] + e[2]) * PageSize
EndOf(a) == a + tags[a].real_size

\* The pieces tile the blocks: no byte is in two pieces or in none, and each
\* piece's split_left and split_right are the pieces before and behind it in
\* its block, after any sequence of splits and melts
\* (liballoc.cpp:179-231, 425-441).
Tiled ==
  /\ \A e \in owned : Start(e) \in Addresses
  /\ \A a, b \in Addresses : a < b => EndOf(a) <= b
  /\ \A a \in Addresses :
       LET l == tags[a].split_left
           r == tags[a].split_right
       IN  /\ tags[a].real_size > TagSize
           /\ \E e \in owned : /\ Start(e) <= a /\ EndOf(a) <= End(e)
                               /\ (l = NULL) <=> (a = Start(e))
                               /\ (r = NULL) <=> (EndOf(a) = End(e))
           /\ r # NULL => r \in Addresses /\ r = EndOf(a) /\ tags[r].split_left = a
           /\ l # NULL => l \in Addresses /\ tags[l].split_right = a

\* Every piece is in exactly one place: in a caller's hands, on its way through
\* free, or in the list for its size, whose links agree in both directions and
\* lead to it from the head (liballoc.cpp:143-176).
BinsWhole ==
  /\ Addresses \ FreeTags =
       {p - TagSize : p \in DOMAIN given} \cup (IF pc \in {"left", "right"} THEN {tag} ELSE {})
  /\ \A p \in DOMAIN given : /\ tags[p - TagSize].size = given[p]
                             /\ given[p] + TagSize <= tags[p - TagSize].real_size
  /\ \A i \in Bins : freePages[i] # NULL =>
       /\ freePages[i] \in FreeTags
       /\ tags[freePages[i]].index = i /\ tags[freePages[i]].prev = NULL
  /\ \A a \in FreeTags :
       LET t == tags[a]
           Mate(b) == b \in FreeTags /\ tags[b].index = t.index
       IN  /\ t.index = BinOf(Payload(t))
           /\ t.next # NULL => Mate(t.next) /\ tags[t.next].prev = a
           /\ t.prev # NULL => Mate(t.prev) /\ tags[t.prev].next = a
           /\ t.prev = NULL => freePages[t.index] = a
  /\ \A S \in SUBSET FreeTags : S # {} => \E a \in S : tags[a].prev \notin S

\* Between calls no two neighbours are both free: what has been cut up comes
\* together again, down to whole blocks (liballoc.cpp:425-441).
Coalesced ==
  pc \notin {"left", "right"} =>
    \A a \in FreeTags : tags[a].split_right \notin FreeTags

\* The counters of whole blocks are right and never pass MAXCOMPLETE, although
\* malloc and free find the list by different sums (liballoc.cpp:304, 341,
\* 445-473).
CompleteCounted ==
  \A i \in Bins :
    /\ completePages[i] = Cardinality({a \in FreeTags : tags[a].index = i /\ Whole(tags[a])})
    /\ completePages[i] <= MaxComplete

\* What the comments at liballoc.cpp:308 and 326 say of the search, "Find one
\* big enough" and "No page found. Make one": pages are taken only when no
\* free piece is big enough.
MakesOneIfNoneFits ==
  pc = "search" /\ tag = NULL => \A a \in FreeTags : ~Fits(tags[a])

\* malloc and free return, unless memory is out (liballoc.cpp:308-323, 425-441).
CallsEnd == (pc \notin {"idle", "halted"}) ~> (pc \in {"idle", "halted"})

-----------------------------------------------------------------------------
(* What the heap promises above and keeps to below *)

Callers == INSTANCE Heap WITH
  given <- {<<p, given[p]>> : p \in DOMAIN given},
  held  <- UNION {Pages(e) : e \in owned}

\* Callers' bytes are their own and in pages the heap holds
\* (liballoc.cpp:283-392, 398-488).
ImplementsHeap == Callers!Spec

Allocator == INSTANCE PageAllocator WITH booted <- TRUE

\* Pages go back only as the extents they came in, which PhysicalMemory::free
\* relies on: free recomputes the count from real_size (liballoc.cpp:455-460).
KeepsToPageAllocator == [][Allocator!Next]_pages
=============================================================================
