--------------------------- MODULE LibAllocProofs ---------------------------
(***************************************************************************)
(* Proofs about LibAlloc: for any requests, pages and sizes, the pieces    *)
(* tile the blocks, the lists of free pieces are whole, free pieces have   *)
(* come together, the counters are right, and malloc and free do what      *)
(* Heap promises.                                                          *)
(***************************************************************************)
EXTENDS LibAlloc, NaturalLemmas, FiniteSetTheorems

-----------------------------------------------------------------------------
(* The inductive invariant *)

Tags == [size : Nat, real_size : Nat, index : Bins \cup {-1},
         split_left : Nat, split_right : Nat, next : Nat, prev : Nat]

TypeInv ==
  /\ tags \in [Addresses -> Tags]
  /\ Addresses \subseteq Nat \ {0} /\ IsFiniteSet(Addresses)
  /\ freePages \in [Bins -> Nat]
  /\ completePages \in [Bins -> Nat]
  /\ pc \in {"idle", "search", "left", "right", "halted"}
  /\ tag \in Nat /\ size \in Nat /\ index \in Nat
  /\ given \in [DOMAIN given -> Nat \ {0}] /\ DOMAIN given \subseteq Nat
  /\ pool \subseteq HeapPages
  /\ owned \subseteq HeapPages \X Nat

\* The blocks are extents of pages that nobody else has.
BlocksInv ==
  /\ \A e \in owned : /\ PageCount <= e[2] /\ Pages(e) \subseteq HeapPages
                       /\ Pages(e) \cap pool = {}
  /\ \A e, f \in owned : e # f => Pages(e) \cap Pages(f) = {}

\* A piece that is in no list has no links left over.
Unlinked ==
  \A a \in Addresses \ FreeTags : tags[a].next = NULL /\ tags[a].prev = NULL

\* Where malloc and free are: at a piece of the list malloc searches, or
\* at the piece free has taken back, which nobody has any more.
CallInv ==
  /\ pc = "search" => /\ size > 0 /\ index \in Bins
                      /\ tag # NULL => tag \in FreeTags /\ tags[tag].index = index
  /\ pc \in {"left", "right"} => /\ tag \in Addresses \ FreeTags
                                 /\ tag + TagSize \notin DOMAIN given
  /\ pc = "right" => ~IsFree(tags[tag].split_left)

\* No two free pieces are neighbours, not even while free is at work.
Apart == \A a \in FreeTags : tags[a].split_right \notin FreeTags

IInv ==
  /\ TypeInv /\ BlocksInv /\ Tiled /\ BinsWhole
  /\ Unlinked /\ CallInv /\ Apart /\ CompleteCounted

-----------------------------------------------------------------------------
(* Arithmetic of pages *)

\* The page a byte lies in.
LEMMA PageOf ==
  ASSUME NEW x \in Nat, NEW q \in Nat, q * PageSize <= x, x < (q + 1) * PageSize
  PROVE  x \div PageSize = q
BY SizesAssumption

LEMMA PageBounds ==
  ASSUME NEW x \in Nat
  PROVE  /\ x \div PageSize \in Nat
         /\ (x \div PageSize) * PageSize <= x
         /\ x < (x \div PageSize + 1) * PageSize
BY SizesAssumption

LEMMA PageOrder ==
  ASSUME NEW p \in Int, NEW q \in Int, p < q
  PROVE  p * PageSize + PageSize <= q * PageSize
BY SizesAssumption

\* The pages taken for n bytes hold them, and rounding a whole number of pages
\* changes nothing.
LEMMA PagesForHolds ==
  ASSUME NEW n \in Nat
  PROVE  /\ PagesFor(n) \in Nat \ {0} /\ PageCount <= PagesFor(n)
         /\ n <= PagesFor(n) * PageSize
<1> DEFINE k == (n + PageSize - 1) \div PageSize
<1>1. n + PageSize - 1 \in Nat
  BY SizesAssumption
<1>2. k \in Nat /\ n + PageSize - 1 < (k + 1) * PageSize
  <2> DEFINE x == n + PageSize - 1
  <2> HIDE DEF x
  <2> QED
    BY <1>1, PageBounds DEF x
<1>3. (k + 1) * PageSize = k * PageSize + PageSize
  <2> HIDE DEF k
  <2> QED
    BY <1>2, SizesAssumption
<1>4. k * PageSize \in Nat /\ PageCount * PageSize \in Nat
  <2> HIDE DEF k
  <2> QED
    BY <1>2, SizesAssumption
<1>5. n <= k * PageSize
  <2> HIDE DEF k
  <2> QED
    BY <1>2, <1>3, <1>4, SizesAssumption
<1>6. PagesFor(n) = IF k < PageCount THEN PageCount ELSE k
  BY DEF PagesFor
<1>7. CASE k < PageCount
  <2>1. k * PageSize <= PageCount * PageSize
    <3> HIDE DEF k
    <3> QED
      BY <1>2, <1>4, <1>7, PageOrder, SizesAssumption
  <2> QED
    <3> HIDE DEF k
    <3> QED
      BY <1>2, <1>4, <1>5, <1>6, <1>7, <2>1, SizesAssumption
<1>8. CASE ~ (k < PageCount)
  <2> HIDE DEF k
  <2> QED
    BY <1>2, <1>4, <1>5, <1>6, <1>8, SizesAssumption
<1> QED
  BY <1>7, <1>8

LEMMA PagesForWhole ==
  ASSUME NEW q \in Nat, PageCount <= q
  PROVE  PagesFor(q * PageSize) = q
<1> DEFINE x == q * PageSize + PageSize - 1
<1>1. q * PageSize \in Nat /\ (q + 1) * PageSize = q * PageSize + PageSize
  BY SizesAssumption
<1>2. x \in Nat /\ q * PageSize <= x /\ x < (q + 1) * PageSize
  BY <1>1, SizesAssumption
<1>3. x \div PageSize = q
  <2> HIDE DEF x
  <2> QED
    BY <1>2, PageOf
<1> QED
  BY <1>3, SizesAssumption DEF PagesFor

\* getexp is an exponent of a list or less, so every size has a list.
LEMMA BinOfInBins ==
  ASSUME NEW n
  PROVE  getexp(n) \in Int /\ BinOf(n) \in Bins
<1> DEFINE Above == {s \in Bins : 2 ^ s > n}
           least == CHOOSE s \in Above : \A r \in Above : s <= r
<1>1. Bins \subseteq Nat
  BY SizesAssumption DEF Bins
<1>2. Above # {} => least \in Bins
  <2> SUFFICES ASSUME Above # {} PROVE least \in Above
    OBVIOUS
  <2>1. \E s \in Above : \A r \in Above : s <= r
    <3>1. Above \in SUBSET Nat
      BY <1>1
    <3> HIDE DEF Above
    <3> QED
      BY <3>1, LeastNat
  <2> HIDE DEF Above
  <2> QED
    BY <2>1
<1>3. getexp(n) = IF n < 2 ^ MinExp THEN -1 ELSE (IF Above = {} THEN MaxExp ELSE least) - 1
  BY DEF getexp
<1>4. getexp(n) \in Int /\ getexp(n) < MaxExp
  <2> HIDE DEF Above, least
  <2> QED
    BY <1>2, <1>3, SizesAssumption DEF Bins
<1> QED
  BY <1>4, SizesAssumption DEF BinOf, Bins

-----------------------------------------------------------------------------
(* What the operators on tags do, field by field *)

Typed(ts) == /\ ts \in [DOMAIN ts -> Tags]
             /\ DOMAIN ts \subseteq Nat \ {0} /\ IsFiniteSet(DOMAIN ts)

FreeOf(ts) == {a \in DOMAIN ts : ts[a].index >= 0}

\* us has the pieces of ts, with the same bounds and neighbours; the same
\* places in lists; the same sizes asked for.
SamePieces(ts, us) ==
  \A b \in DOMAIN us : /\ us[b].real_size = ts[b].real_size
                       /\ us[b].split_left = ts[b].split_left
                       /\ us[b].split_right = ts[b].split_right
SameLinks(ts, us) ==
  \A b \in DOMAIN us : /\ us[b].index = ts[b].index
                       /\ us[b].next = ts[b].next
                       /\ us[b].prev = ts[b].prev
SameSizes(ts, us) == \A b \in DOMAIN us : us[b].size = ts[b].size

\* us is ts with a in no list; with a at the front of list i, before h.
Unlinks(ts, us, a) ==
  \A b \in DOMAIN us :
    /\ us[b].index = IF b = a THEN -1 ELSE ts[b].index
    /\ us[b].next = IF b = a THEN NULL
                    ELSE IF b = ts[a].prev THEN ts[a].next ELSE ts[b].next
    /\ us[b].prev = IF b = a THEN NULL
                    ELSE IF b # ts[a].prev /\ b = ts[a].next THEN ts[a].prev
                    ELSE ts[b].prev
LinksFirst(ts, us, a, i, h) ==
  \A b \in DOMAIN us :
    /\ us[b].index = IF b = a THEN i ELSE ts[b].index
    /\ us[b].next = IF b = a /\ h # NULL THEN h ELSE ts[b].next
    /\ us[b].prev = IF b # a /\ b = h THEN a ELSE ts[b].prev

\* us is ts with piece a ending where the new piece b begins; with a
\* grown by its right neighbour r.
Cuts(ts, us, a, b) ==
  LET r == ts[a].split_right
  IN  /\ us[a].real_size = b - a
      /\ us[b].real_size = ts[a].real_size - (b - a)
      /\ us[b].split_left = a /\ us[b].split_right = r
      /\ us[a].split_left = ts[a].split_left /\ us[a].split_right = b
      /\ us[b].index = -1 /\ us[b].next = NULL /\ us[b].prev = NULL
      /\ \A c \in DOMAIN us \ {a, b} :
           /\ us[c].real_size = ts[c].real_size
           /\ us[c].split_left = IF c = r THEN b ELSE ts[c].split_left
           /\ us[c].split_right = ts[c].split_right
Joins(ts, us, a, r) ==
  LET s == ts[r].split_right
  IN  \A c \in DOMAIN us :
        /\ us[c].real_size = IF c = a THEN ts[a].real_size + ts[r].real_size
                             ELSE ts[c].real_size
        /\ us[c].split_left = IF c = s THEN a ELSE ts[c].split_left
        /\ us[c].split_right = IF c = a THEN s ELSE ts[c].split_right

LEMMA RemovedIs ==
  ASSUME NEW ts, Typed(ts), NEW a \in DOMAIN ts,
         ts[a].prev # NULL => ts[a].prev # ts[a].next
  PROVE  /\ Typed(Removed(ts, a)) /\ DOMAIN Removed(ts, a) = DOMAIN ts
         /\ SamePieces(ts, Removed(ts, a)) /\ SameSizes(ts, Removed(ts, a))
         /\ Unlinks(ts, Removed(ts, a), a)
<1> DEFINE us == Removed(ts, a)
           body(b) ==
             CASE b = a -> [ts[a] EXCEPT !.next = NULL, !.prev = NULL, !.index = -1]
               [] b = ts[a].prev /\ b # a -> [ts[b] EXCEPT !.next = ts[a].next]
               [] b = ts[a].next /\ b # a -> [ts[b] EXCEPT !.prev = ts[a].prev]
               [] OTHER -> ts[b]
<1>1. /\ DOMAIN us = DOMAIN ts /\ us = [b \in DOMAIN ts |-> us[b]]
      /\ \A b \in DOMAIN ts : us[b] = body(b)
  <2>1. us = [b \in DOMAIN ts |-> body(b)]
    BY DEF Removed
  <2> HIDE DEF us, body
  <2> QED
    BY <2>1
<1>2. ASSUME NEW b \in DOMAIN ts
      PROVE  us[b] = IF b = a THEN [ts[a] EXCEPT !.next = NULL, !.prev = NULL, !.index = -1]
                     ELSE IF b = ts[a].prev THEN [ts[b] EXCEPT !.next = ts[a].next]
                     ELSE IF b = ts[a].next THEN [ts[b] EXCEPT !.prev = ts[a].prev]
                     ELSE ts[b]
  <2>1. b # NULL
    BY DEF Typed, NULL
  <2>2. ~ (b = ts[a].prev /\ b = ts[a].next)
    BY <2>1
  <2>3. b = a => body(b) = [ts[a] EXCEPT !.next = NULL, !.prev = NULL, !.index = -1]
    BY Zenon
  <2>4. b = ts[a].prev /\ b # a => body(b) = [ts[b] EXCEPT !.next = ts[a].next]
    BY <2>2, Zenon
  <2>5. b = ts[a].next /\ b # a => body(b) = [ts[b] EXCEPT !.prev = ts[a].prev]
    BY <2>2, Zenon
  <2>6. b # a /\ b # ts[a].prev /\ b # ts[a].next => body(b) = ts[b]
    BY Zenon
  <2> HIDE DEF us, body
  <2> QED
    BY <1>1, <2>3, <2>4, <2>5, <2>6
<1> HIDE DEF body
<1>3. /\ \A b \in DOMAIN ts : ts[b] \in Tags
      /\ ts[a].next \in Nat /\ ts[a].prev \in Nat
  BY DEF Typed, Tags
<1> HIDE DEF us
<1>4. ASSUME NEW b \in DOMAIN ts
      PROVE  /\ us[b] \in Tags
             /\ us[b].real_size = ts[b].real_size /\ us[b].size = ts[b].size
             /\ us[b].split_left = ts[b].split_left
             /\ us[b].split_right = ts[b].split_right
             /\ us[b].index = IF b = a THEN -1 ELSE ts[b].index
             /\ us[b].next = IF b = a THEN NULL
                             ELSE IF b = ts[a].prev THEN ts[a].next ELSE ts[b].next
             /\ us[b].prev = IF b = a THEN NULL
                             ELSE IF b # ts[a].prev /\ b = ts[a].next THEN ts[a].prev
                             ELSE ts[b].prev
  <2>1. CASE b = a
    <3>1. us[b] = [ts[b] EXCEPT !.next = NULL, !.prev = NULL, !.index = -1]
      BY <1>2, <2>1
    <3>2. us[b] \in Tags
      <4>1. -1 \in Bins \cup {-1} /\ NULL \in Nat
        BY DEF NULL
      <4> QED
        BY <1>3, <3>1, <4>1 DEF Tags
    <3>3. us[b].index = -1 /\ us[b].next = NULL /\ us[b].prev = NULL
      BY <1>3, <3>1 DEF Tags
    <3>4. /\ us[b].real_size = ts[b].real_size /\ us[b].size = ts[b].size
          /\ us[b].split_left = ts[b].split_left
          /\ us[b].split_right = ts[b].split_right
      BY <1>3, <3>1 DEF Tags
    <3> QED
      BY <2>1, <3>2, <3>3, <3>4
  <2>2. CASE b # a /\ b = ts[a].prev
    <3>1. us[b] = [ts[b] EXCEPT !.next = ts[a].next]
      BY <1>2, <2>2
    <3> QED
      BY <1>3, <2>2, <3>1 DEF Tags
  <2>3. CASE b # a /\ b # ts[a].prev /\ b = ts[a].next
    <3>1. us[b] = [ts[b] EXCEPT !.prev = ts[a].prev]
      BY <1>2, <2>3
    <3> QED
      BY <1>3, <2>3, <3>1 DEF Tags
  <2>4. CASE b # a /\ b # ts[a].prev /\ b # ts[a].next
    <3>1. us[b] = ts[b]
      BY <1>2, <2>4
    <3> QED
      BY <1>3, <2>4, <3>1
  <2> QED
    BY <2>1, <2>2, <2>3, <2>4
<1>5. Typed(us)
  BY <1>1, <1>4 DEF Typed
<1> QED
  <2>1. SamePieces(ts, us) /\ SameSizes(ts, us) /\ Unlinks(ts, us, a)
    BY <1>1, <1>4 DEF SamePieces, SameSizes, Unlinks
  <2> QED
    BY <1>1, <1>5, <2>1 DEF us

LEMMA InsertedIs ==
  ASSUME NEW ts, Typed(ts), NEW heads \in [Bins -> Nat], NEW i \in Bins,
         NEW a \in DOMAIN ts
  PROVE  /\ Typed(Inserted(ts, heads, a, i)) /\ DOMAIN Inserted(ts, heads, a, i) = DOMAIN ts
         /\ SamePieces(ts, Inserted(ts, heads, a, i)) /\ SameSizes(ts, Inserted(ts, heads, a, i))
         /\ LinksFirst(ts, Inserted(ts, heads, a, i), a, i, heads[i])
<1> DEFINE us == Inserted(ts, heads, a, i)
           body(b) ==
             CASE b = a /\ heads[i] # NULL -> [ts[a] EXCEPT !.index = i, !.next = heads[i]]
               [] b = a /\ heads[i] = NULL -> [ts[a] EXCEPT !.index = i]
               [] b = heads[i] /\ b # a -> [ts[b] EXCEPT !.prev = a]
               [] OTHER -> ts[b]
<1>1. /\ DOMAIN us = DOMAIN ts /\ us = [b \in DOMAIN ts |-> us[b]]
      /\ \A b \in DOMAIN ts : us[b] = body(b)
  <2>1. us = [b \in DOMAIN ts |-> body(b)]
    BY DEF Inserted
  <2> HIDE DEF us, body
  <2> QED
    BY <2>1
<1>2. ASSUME NEW b \in DOMAIN ts
      PROVE  us[b] = IF b = a
                     THEN IF heads[i] # NULL
                          THEN [ts[a] EXCEPT !.index = i, !.next = heads[i]]
                          ELSE [ts[a] EXCEPT !.index = i]
                     ELSE IF b = heads[i] THEN [ts[b] EXCEPT !.prev = a]
                     ELSE ts[b]
  <2>1. b = a /\ heads[i] # NULL =>
          body(b) = [ts[a] EXCEPT !.index = i, !.next = heads[i]]
    BY Zenon
  <2>2. b = a /\ heads[i] = NULL => body(b) = [ts[a] EXCEPT !.index = i]
    BY Zenon
  <2>3. b = heads[i] /\ b # a => body(b) = [ts[b] EXCEPT !.prev = a]
    BY Zenon
  <2>4. b # a /\ b # heads[i] => body(b) = ts[b]
    BY Zenon
  <2> HIDE DEF us, body
  <2> QED
    BY <1>1, <2>1, <2>2, <2>3, <2>4
<1> HIDE DEF body
<1>3. heads[i] \in Nat /\ a \in Nat /\ \A b \in DOMAIN ts : ts[b] \in Tags
  BY DEF Typed
<1> HIDE DEF us
<1>4. ASSUME NEW b \in DOMAIN ts
      PROVE  /\ us[b] \in Tags
             /\ us[b].real_size = ts[b].real_size /\ us[b].size = ts[b].size
             /\ us[b].split_left = ts[b].split_left
             /\ us[b].split_right = ts[b].split_right
             /\ us[b].index = IF b = a THEN i ELSE ts[b].index
             /\ us[b].next = IF b = a /\ heads[i] # NULL THEN heads[i] ELSE ts[b].next
             /\ us[b].prev = IF b # a /\ b = heads[i] THEN a ELSE ts[b].prev
  <2>1. CASE b = a /\ heads[i] # NULL
    <3>1. us[b] = [ts[b] EXCEPT !.index = i, !.next = heads[i]]
      BY <1>2, <2>1
    <3> QED
      BY <1>3, <2>1, <3>1 DEF Tags
  <2>2. CASE b = a /\ heads[i] = NULL
    <3>1. us[b] = [ts[b] EXCEPT !.index = i]
      BY <1>2, <2>2
    <3> QED
      BY <1>3, <2>2, <3>1 DEF Tags
  <2>3. CASE b # a /\ b = heads[i]
    <3>1. us[b] = [ts[b] EXCEPT !.prev = a]
      BY <1>2, <2>3
    <3> QED
      BY <1>3, <2>3, <3>1 DEF Tags
  <2>4. CASE b # a /\ b # heads[i]
    <3>1. us[b] = ts[b]
      BY <1>2, <2>4
    <3> QED
      BY <1>3, <2>4, <3>1
  <2> QED
    BY <2>1, <2>2, <2>3, <2>4
<1>5. Typed(us)
  BY <1>1, <1>4 DEF Typed
<1> QED
  <2>1. SamePieces(ts, us) /\ SameSizes(ts, us) /\ LinksFirst(ts, us, a, i, heads[i])
    BY <1>1, <1>4 DEF SamePieces, SameSizes, LinksFirst
  <2> QED
    BY <1>1, <1>5, <2>1 DEF us

LEMMA SizedIs ==
  ASSUME NEW ts, Typed(ts), NEW a \in DOMAIN ts, NEW n \in Nat, NEW us,
         us = [ts EXCEPT ![a].size = n]
  PROVE  /\ Typed(us) /\ DOMAIN us = DOMAIN ts
         /\ SamePieces(ts, us) /\ SameLinks(ts, us)
         /\ \A b \in DOMAIN us : us[b].size = IF b = a THEN n ELSE ts[b].size
<1>1. DOMAIN us = DOMAIN ts
  OBVIOUS
<1>2. \A b \in DOMAIN ts : ts[b] \in Tags
  BY DEF Typed
<1>3. us \in [DOMAIN ts -> Tags]
  BY <1>2 DEF Tags, Typed
<1>4. ASSUME NEW b \in DOMAIN ts
      PROVE  us[b] = IF b = a THEN [ts[a] EXCEPT !.size = n] ELSE ts[b]
  BY <1>2
<1>5. SamePieces(ts, us) /\ SameLinks(ts, us)
  BY <1>1, <1>2, <1>4 DEF SamePieces, SameLinks, Tags
<1>6. \A b \in DOMAIN us : us[b].size = IF b = a THEN n ELSE ts[b].size
  BY <1>1, <1>2, <1>4 DEF Tags
<1> QED
  BY <1>1, <1>3, <1>5, <1>6 DEF Typed

LEMMA LeftOfIs ==
  ASSUME NEW ts, Typed(ts), NEW r \in (DOMAIN ts) \cup {NULL}, NEW a \in Nat
  PROVE  /\ Typed(LeftOf(ts, r, a)) /\ DOMAIN LeftOf(ts, r, a) = DOMAIN ts
         /\ SameLinks(ts, LeftOf(ts, r, a)) /\ SameSizes(ts, LeftOf(ts, r, a))
         /\ \A b \in DOMAIN ts :
              /\ LeftOf(ts, r, a)[b].real_size = ts[b].real_size
              /\ LeftOf(ts, r, a)[b].split_right = ts[b].split_right
              /\ LeftOf(ts, r, a)[b].split_left = IF b = r THEN a ELSE ts[b].split_left
<1> DEFINE us == LeftOf(ts, r, a)
<1>1. /\ NULL \notin DOMAIN ts
      /\ \A b \in DOMAIN ts : ts[b] \in Tags
      /\ ts \in [DOMAIN ts -> Tags]
  BY DEF Typed, NULL
<1>2. CASE r = NULL
  <2>1. us = ts
    BY <1>2 DEF LeftOf
  <2> HIDE DEF us
  <2> QED
    BY <1>1, <1>2, <2>1 DEF us, SameLinks, SameSizes
<1>3. CASE r # NULL
  <2>1. us = [ts EXCEPT ![r].split_left = a] /\ r \in DOMAIN ts
    BY <1>3 DEF LeftOf
  <2> HIDE DEF us
  <2>2. DOMAIN us = DOMAIN ts
    BY <2>1
  <2>3. ASSUME NEW b \in DOMAIN ts
        PROVE  us[b] = IF b = r THEN [ts[r] EXCEPT !.split_left = a] ELSE ts[b]
    BY <2>1
  <2>4. us \in [DOMAIN ts -> Tags]
    BY <1>1, <2>1 DEF Tags
  <2>5. SameLinks(ts, us) /\ SameSizes(ts, us)
    BY <1>1, <2>2, <2>3 DEF Tags, SameLinks, SameSizes
  <2>6. \A b \in DOMAIN ts :
          /\ us[b].real_size = ts[b].real_size
          /\ us[b].split_right = ts[b].split_right
          /\ us[b].split_left = IF b = r THEN a ELSE ts[b].split_left
    BY <1>1, <2>3 DEF Tags
  <2> QED
    BY <2>2, <2>4, <2>5, <2>6 DEF us, Typed
<1> QED
  BY <1>2, <1>3

LEMMA AddedIs ==
  ASSUME NEW ts, Typed(ts), NEW b \in Nat \ {0}, b \notin DOMAIN ts, NEW t \in Tags
  PROVE  /\ Typed(Added(ts, b, t)) /\ DOMAIN Added(ts, b, t) = (DOMAIN ts) \cup {b}
         /\ \A c \in DOMAIN ts : Added(ts, b, t)[c] = ts[c]
         /\ Added(ts, b, t)[b] = t
<1> DEFINE us == Added(ts, b, t)
<1>1. /\ DOMAIN us = (DOMAIN ts) \cup {b} /\ us = [c \in DOMAIN us |-> us[c]]
      /\ \A c \in DOMAIN ts : us[c] = ts[c]
      /\ us[b] = t
  BY DEF Added
<1>2. IsFiniteSet((DOMAIN ts) \cup {b})
  BY FS_AddElement DEF Typed
<1>3. \A c \in DOMAIN us : us[c] \in Tags
  <2> HIDE DEF us
  <2> QED
    BY <1>1 DEF Typed
<1>4. Typed(us)
  <2> HIDE DEF us
  <2> QED
    BY <1>1, <1>2, <1>3 DEF Typed
<1> QED
  BY <1>1, <1>4

LEMMA SplitIs ==
  ASSUME NEW ts, Typed(ts), NEW a \in DOMAIN ts, NEW b, b = SplitPlace(ts[a], a),
         b \notin DOMAIN ts, b < a + ts[a].real_size,
         ts[a].split_right \in (DOMAIN ts) \cup {NULL}, ts[a].split_right # a
  PROVE  /\ Typed(Split(ts, a)) /\ DOMAIN Split(ts, a) = (DOMAIN ts) \cup {b}
         /\ Cuts(ts, Split(ts, a), a, b)
         /\ \A c \in DOMAIN ts : /\ Split(ts, a)[c].index = ts[c].index
                                 /\ Split(ts, a)[c].next = ts[c].next
                                 /\ Split(ts, a)[c].prev = ts[c].prev
                                 /\ Split(ts, a)[c].size = ts[c].size
<1> DEFINE rest == ts[a].real_size - TagSize - ts[a].size
           vs == LeftOf(ts, ts[a].split_right, b)
           ws == [vs EXCEPT ![a].split_right = b, ![a].real_size = @ - rest]
           new == [size |-> 0, real_size |-> rest, index |-> -1,
                   split_left |-> a, split_right |-> ts[a].split_right,
                   next |-> NULL, prev |-> NULL]
<1>1. /\ ts[a] \in Tags /\ a \in Nat \ {0} /\ ts \in [DOMAIN ts -> Tags]
      /\ \A c \in DOMAIN ts : ts[c] \in Tags
  BY DEF Typed
<1>2. b = a + TagSize + ts[a].size
  BY DEF SplitPlace
<1>3. b \in Nat \ {0} /\ rest \in Nat /\ ts[a].real_size - rest = b - a
  BY <1>1, <1>2, SizesAssumption DEF Tags
<1>4. Split(ts, a) = Added(ws, b, new)
  BY Zenon DEF Split, SplitPlace
<1> HIDE DEF rest
<1>5. /\ Typed(vs) /\ DOMAIN vs = DOMAIN ts
      /\ SameLinks(ts, vs) /\ SameSizes(ts, vs)
      /\ \A c \in DOMAIN ts :
           /\ vs[c].real_size = ts[c].real_size
           /\ vs[c].split_right = ts[c].split_right
           /\ vs[c].split_left = IF c = ts[a].split_right THEN b ELSE ts[c].split_left
  <2> DEFINE r == ts[a].split_right
             ls == LeftOf(ts, r, b)
  <2>1. r \in (DOMAIN ts) \cup {NULL} /\ b \in Nat
    BY <1>3
  <2> HIDE DEF r, ls
  <2>2. /\ Typed(ls) /\ DOMAIN ls = DOMAIN ts
        /\ SameLinks(ts, ls) /\ SameSizes(ts, ls)
        /\ \A c \in DOMAIN ts :
             /\ ls[c].real_size = ts[c].real_size
             /\ ls[c].split_right = ts[c].split_right
             /\ ls[c].split_left = IF c = r THEN b ELSE ts[c].split_left
    BY <2>1, LeftOfIs DEF ls
  <2>3. ls = vs
    BY DEF ls, r
  <2> HIDE DEF vs
  <2> QED
    BY <2>2, <2>3 DEF r
<1> HIDE DEF vs
<1>6. /\ DOMAIN ws = DOMAIN vs /\ ws \in [DOMAIN vs -> Tags]
      /\ \A c \in DOMAIN vs :
           ws[c] = IF c = a THEN [vs[a] EXCEPT !.split_right = b, !.real_size = @ - rest]
                   ELSE vs[c]
  <2>1. vs[a] \in Tags /\ vs \in [DOMAIN vs -> Tags] /\ a \in DOMAIN vs
    BY <1>5 DEF Typed
  <2>2. vs[a].real_size - rest \in Nat
    BY <1>1, <1>2, <1>3, <1>5, SizesAssumption DEF Tags
  <2>3. [vs[a] EXCEPT !.split_right = b, !.real_size = @ - rest] \in Tags
    BY <1>3, <2>1, <2>2 DEF Tags
  <2>4. \A c \in DOMAIN vs :
           ws[c] = IF c = a THEN [vs[a] EXCEPT !.split_right = b, !.real_size = @ - rest]
                   ELSE vs[c]
    BY <2>1
  <2>5. DOMAIN ws = DOMAIN vs /\ ws = [c \in DOMAIN vs |-> ws[c]]
    BY <2>1
  <2> HIDE DEF ws
  <2> QED
    BY <2>1, <2>3, <2>4, <2>5
<1> HIDE DEF ws
<1>7. Typed(ws)
  BY <1>5, <1>6 DEF Typed
<1>8. new \in Tags
  BY <1>1, <1>3 DEF Tags, NULL
<1>9. /\ \A c \in DOMAIN ws : Added(ws, b, new)[c] = ws[c]
      /\ Added(ws, b, new)[b] = new
      /\ DOMAIN Added(ws, b, new) = (DOMAIN ws) \cup {b}
      /\ Typed(Added(ws, b, new))
  <2>1. b \notin DOMAIN ws
    BY <1>5, <1>6
  <2>2. b \in Nat \ {0}
    BY <1>3
  <2> HIDE DEF new
  <2>3. Typed(Added(ws, b, new))
    BY <1>7, <1>8, <2>1, <2>2, AddedIs
  <2>4. /\ \A c \in DOMAIN ws : Added(ws, b, new)[c] = ws[c]
        /\ Added(ws, b, new)[b] = new
        /\ DOMAIN Added(ws, b, new) = (DOMAIN ws) \cup {b}
    BY <2>1 DEF Added
  <2> QED
    BY <2>3, <2>4
<1> DEFINE us == Added(ws, b, new)
<1> HIDE DEF us
<1>10. ASSUME NEW c \in DOMAIN ts
       PROVE  /\ us[c].index = ts[c].index /\ us[c].next = ts[c].next
              /\ us[c].prev = ts[c].prev /\ us[c].size = ts[c].size
              /\ us[c].real_size = IF c = a THEN b - a ELSE ts[c].real_size
              /\ us[c].split_left = IF c = ts[a].split_right THEN b ELSE ts[c].split_left
              /\ us[c].split_right = IF c = a THEN b ELSE ts[c].split_right
  <2>1. us[c] = ws[c] /\ c \in DOMAIN vs /\ vs[c] \in Tags
    BY <1>5, <1>6, <1>9 DEF us, Typed
  <2>2. /\ vs[c].index = ts[c].index /\ vs[c].next = ts[c].next
        /\ vs[c].prev = ts[c].prev /\ vs[c].size = ts[c].size
    BY <1>5 DEF SameLinks, SameSizes
  <2>3. vs[a].real_size - rest = b - a
    BY <1>3, <1>5
  <2>4. CASE c = a
    <3>1. us[c] = [vs[c] EXCEPT !.split_right = b, !.real_size = @ - rest]
      BY <1>6, <2>1, <2>4
    <3>2. /\ us[c].index = vs[c].index /\ us[c].next = vs[c].next
          /\ us[c].prev = vs[c].prev /\ us[c].size = vs[c].size
          /\ us[c].split_left = vs[c].split_left /\ us[c].split_right = b
          /\ us[c].real_size = vs[c].real_size - rest
      BY <2>1, <3>1 DEF Tags
    <3> QED
      BY <1>5, <2>2, <2>3, <2>4, <3>2
  <2>5. CASE c # a
    <3>1. us[c] = vs[c]
      BY <1>6, <2>1, <2>5
    <3> QED
      BY <1>5, <2>2, <2>5, <3>1
  <2> QED
    BY <2>4, <2>5
<1>11. Cuts(ts, us, a, b)
  <2>1. us[b] = new /\ a # b /\ DOMAIN us = (DOMAIN ts) \cup {b} /\ b \notin DOMAIN ts
    BY <1>5, <1>6, <1>9 DEF us
  <2>2. ts[a].real_size - (b - a) = rest
    BY <1>1, <1>2, <1>3, SizesAssumption DEF Tags
  <2> QED
    BY <1>10, <2>1, <2>2 DEF Cuts
<1> QED
  BY <1>4, <1>5, <1>6, <1>9, <1>10, <1>11 DEF us

LEMMA JoinedIs ==
  ASSUME NEW ts, Typed(ts), NEW a \in DOMAIN ts, NEW r \in DOMAIN ts, a # r,
         ts[r].split_right \in (DOMAIN ts) \cup {NULL}
  PROVE  /\ Typed(Joined(ts, a, r)) /\ DOMAIN Joined(ts, a, r) = (DOMAIN ts) \ {r}
         /\ Joins(ts, Joined(ts, a, r), a, r)
         /\ SameLinks(ts, Joined(ts, a, r)) /\ SameSizes(ts, Joined(ts, a, r))
<1> DEFINE s == ts[r].split_right
           n == ts[r].real_size
           vs == [ts EXCEPT ![a].real_size = @ + n, ![a].split_right = s]
           ws == LeftOf(vs, s, a)
           us == Joined(ts, a, r)
<1>1. /\ a \in Nat /\ s \in Nat /\ n \in Nat /\ ts \in [DOMAIN ts -> Tags]
      /\ \A c \in DOMAIN ts : ts[c] \in Tags
  BY DEF Typed, Tags
<1>2. us = Restrict(ws, (DOMAIN ts) \ {r})
  BY Zenon DEF Joined
<1> HIDE DEF s, n
<1>3. /\ DOMAIN vs = DOMAIN ts
      /\ \A c \in DOMAIN ts :
           vs[c] = IF c = a THEN [ts[a] EXCEPT !.real_size = @ + n, !.split_right = s]
                   ELSE ts[c]
  BY <1>1
<1>4. Typed(vs)
  <2>1. [ts[a] EXCEPT !.real_size = @ + n, !.split_right = s] \in Tags
    <3>1. ts[a] \in Tags /\ ts[a].real_size + n \in Nat /\ s \in Nat
      BY <1>1 DEF Tags
    <3>2. [ts[a] EXCEPT !.real_size = ts[a].real_size + n, !.split_right = s] \in Tags
      BY <3>1 DEF Tags
    <3> QED
      BY <3>2
  <2>2. vs = [c \in DOMAIN ts |-> vs[c]]
    BY <1>1
  <2> HIDE DEF vs
  <2> QED
    BY <1>1, <1>3, <2>1, <2>2 DEF Typed
<1> HIDE DEF vs
<1>5. /\ Typed(ws) /\ DOMAIN ws = DOMAIN ts
      /\ SameLinks(vs, ws) /\ SameSizes(vs, ws)
      /\ \A c \in DOMAIN ts :
           /\ ws[c].real_size = vs[c].real_size
           /\ ws[c].split_right = vs[c].split_right
           /\ ws[c].split_left = IF c = s THEN a ELSE vs[c].split_left
  <2>1. a \in Nat /\ s \in (DOMAIN vs) \cup {NULL}
    BY <1>1, <1>3 DEF s
  <2> HIDE DEF ws
  <2>2. /\ Typed(ws) /\ DOMAIN ws = DOMAIN vs
        /\ SameLinks(vs, ws) /\ SameSizes(vs, ws)
        /\ \A c \in DOMAIN vs :
             /\ ws[c].real_size = vs[c].real_size
             /\ ws[c].split_right = vs[c].split_right
             /\ ws[c].split_left = IF c = s THEN a ELSE vs[c].split_left
    BY <1>4, <2>1, LeftOfIs DEF ws
  <2> QED
    BY <1>3, <2>2
<1> HIDE DEF ws, us
<1>6. /\ DOMAIN us = (DOMAIN ts) \ {r} /\ us = [c \in DOMAIN us |-> us[c]]
      /\ \A c \in DOMAIN us : us[c] = ws[c]
  BY <1>2, <1>5 DEF Restrict
<1>7. Typed(us)
  <2>1. IsFiniteSet((DOMAIN ts) \ {r})
    BY FS_RemoveElement DEF Typed
  <2> QED
    BY <1>5, <1>6, <2>1 DEF Typed
<1>8. ASSUME NEW c \in DOMAIN us
      PROVE  /\ us[c].index = ts[c].index /\ us[c].next = ts[c].next
             /\ us[c].prev = ts[c].prev /\ us[c].size = ts[c].size
             /\ us[c].real_size = IF c = a THEN ts[a].real_size + n ELSE ts[c].real_size
             /\ us[c].split_left = IF c = s THEN a ELSE ts[c].split_left
             /\ us[c].split_right = IF c = a THEN s ELSE ts[c].split_right
  <2>1. us[c] = ws[c] /\ c \in DOMAIN ts /\ ts[c] \in Tags
    BY <1>1, <1>6
  <2>2. /\ ws[c].index = vs[c].index /\ ws[c].next = vs[c].next
        /\ ws[c].prev = vs[c].prev /\ ws[c].size = vs[c].size
    BY <1>5, <2>1 DEF SameLinks, SameSizes
  <2>3. CASE c = a
    <3>1. vs[c] = [ts[c] EXCEPT !.real_size = @ + n, !.split_right = s]
      BY <1>3, <2>1, <2>3
    <3>2. /\ vs[c].index = ts[c].index /\ vs[c].next = ts[c].next
          /\ vs[c].prev = ts[c].prev /\ vs[c].size = ts[c].size
          /\ vs[c].split_left = ts[c].split_left /\ vs[c].split_right = s
          /\ vs[c].real_size = ts[c].real_size + n
      BY <2>1, <3>1 DEF Tags
    <3> QED
      BY <1>5, <2>1, <2>2, <2>3, <3>2
  <2>4. CASE c # a
    <3>1. vs[c] = ts[c]
      BY <1>3, <2>1, <2>4
    <3> QED
      BY <1>5, <2>1, <2>2, <2>4, <3>1
  <2> QED
    BY <2>3, <2>4
<1> QED
  BY <1>6, <1>7, <1>8 DEF us, s, n, Joins, SameLinks, SameSizes

-----------------------------------------------------------------------------
(* Pieces that tile the blocks *)

\* Tiled, for any tags and extents.
TiledIn(ts, blocks) ==
  /\ \A e \in blocks : Start(e) \in DOMAIN ts
  /\ \A a, b \in DOMAIN ts : a < b => a + ts[a].real_size <= b
  /\ \A a \in DOMAIN ts :
       LET l == ts[a].split_left
           r == ts[a].split_right
           end == a + ts[a].real_size
       IN  /\ ts[a].real_size > TagSize
           /\ \E e \in blocks : /\ Start(e) <= a /\ end <= End(e)
                                /\ (l = NULL) <=> (a = Start(e))
                                /\ (r = NULL) <=> (end = End(e))
           /\ r # NULL => r \in DOMAIN ts /\ r = end /\ ts[r].split_left = a
           /\ l # NULL => l \in DOMAIN ts /\ ts[l].split_right = a

LEMMA TiledKept ==
  ASSUME NEW ts, NEW us, NEW blocks, TiledIn(ts, blocks),
         DOMAIN us = DOMAIN ts, SamePieces(ts, us)
  PROVE  TiledIn(us, blocks)
BY DEF TiledIn, SamePieces

Blocks == HeapPages \X Nat

LEMMA BlockBounds ==
  ASSUME NEW e \in Blocks
  PROVE  /\ e[1] \in Nat \ {0} /\ e[2] \in Nat
         /\ Start(e) \in Nat \ {0} /\ End(e) \in Nat
         /\ End(e) = Start(e) + e[2] * PageSize /\ e[2] * PageSize \in Nat
<1>1. e[1] \in Nat \ {0} /\ e[2] \in Nat
  BY PagesAssumption DEF Blocks
<1> QED
  BY <1>1, SizesAssumption DEF Start, End

\* What Tiled says of one piece.
LEMMA PieceIs ==
  ASSUME NEW ts, Typed(ts), NEW blocks, TiledIn(ts, blocks), NEW a \in DOMAIN ts
  PROVE  /\ a \in Nat \ {0} /\ ts[a].real_size \in Nat /\ ts[a].size \in Nat
         /\ ts[a].real_size > TagSize /\ a < a + ts[a].real_size
         /\ ts[a].split_left \in (DOMAIN ts) \cup {NULL}
         /\ ts[a].split_right \in (DOMAIN ts) \cup {NULL}
         /\ ts[a].split_right # NULL =>
              /\ ts[a].split_right = a + ts[a].real_size
              /\ ts[ts[a].split_right].split_left = a
              /\ ts[a].split_right # a
         /\ ts[a].split_left # NULL =>
              /\ ts[ts[a].split_left].split_right = a
              /\ a = ts[a].split_left + ts[ts[a].split_left].real_size
              /\ ts[a].split_left # a
<1>1. /\ \A c \in DOMAIN ts : /\ c \in Nat \ {0} /\ ts[c].real_size \in Nat /\ ts[c].size \in Nat
                              /\ ts[c].real_size > TagSize
  BY DEF Typed, Tags, TiledIn
<1>2. \A c \in DOMAIN ts :
        /\ ts[c].split_right # NULL =>
             /\ ts[c].split_right \in DOMAIN ts
             /\ ts[c].split_right = c + ts[c].real_size
             /\ ts[ts[c].split_right].split_left = c
        /\ ts[c].split_left # NULL =>
             ts[c].split_left \in DOMAIN ts /\ ts[ts[c].split_left].split_right = c
  BY DEF TiledIn
<1> QED
  BY <1>1, <1>2, SizesAssumption DEF NULL

\* Cutting a piece in two.
LEMMA TiledCut ==
  ASSUME NEW ts, Typed(ts), NEW us, NEW blocks \in SUBSET Blocks, TiledIn(ts, blocks),
         NEW a \in DOMAIN ts, NEW b \in Nat, a + TagSize < b,
         b + TagSize < a + ts[a].real_size,
         DOMAIN us = (DOMAIN ts) \cup {b}, Cuts(ts, us, a, b)
  PROVE  b \notin DOMAIN ts /\ TiledIn(us, blocks)
<1> DEFINE r == ts[a].split_right
           Pos(c) == c \in Nat \ {0} /\ ts[c].real_size \in Nat /\ ts[c].real_size > TagSize
<1>1. Pos(a) /\ \A c \in DOMAIN ts : Pos(c)
  BY PieceIs
<1>2. \A c, d \in DOMAIN ts : c < d => c + ts[c].real_size <= d
  BY DEF TiledIn
<1>3. b \notin DOMAIN ts /\ a # b
  BY <1>1, <1>2, SizesAssumption
<1>4. /\ us[a].real_size = b - a
      /\ us[b].real_size = ts[a].real_size - (b - a)
      /\ us[b].split_left = a /\ us[b].split_right = r
      /\ us[a].split_left = ts[a].split_left /\ us[a].split_right = b
      /\ \A c \in DOMAIN ts \ {a} :
           /\ us[c].real_size = ts[c].real_size
           /\ us[c].split_left = IF c = r THEN b ELSE ts[c].split_left
           /\ us[c].split_right = ts[c].split_right
  BY <1>3 DEF Cuts
<1>5. \A c \in DOMAIN us : c \in DOMAIN ts \ {a} \/ c = a \/ c = b
  OBVIOUS
<1>6. \A c, d \in DOMAIN us : c < d => c + us[c].real_size <= d
  <2> SUFFICES ASSUME NEW c \in DOMAIN us, NEW d \in DOMAIN us, c < d
               PROVE  c + us[c].real_size <= d
    OBVIOUS
  <2>1. CASE c \in DOMAIN ts \ {a} /\ d \in DOMAIN ts
    BY <1>2, <1>4, <2>1
  <2>2. CASE c \in DOMAIN ts \ {a} /\ d = b
    <3>1. c < a
      BY <1>1, <1>2, <2>2, SizesAssumption
    <3>2. c + ts[c].real_size <= a
      BY <1>2, <2>2, <3>1
    <3> QED
      BY <1>1, <1>4, <2>2, <3>2, SizesAssumption
  <2>3. CASE c = a /\ d \in DOMAIN ts
    BY <1>1, <1>2, <1>4, <2>3, SizesAssumption
  <2>4. CASE c = a /\ d = b
    BY <1>1, <1>4, <2>4
  <2>5. CASE c = b /\ d \in DOMAIN ts
    BY <1>1, <1>2, <1>4, <2>5, SizesAssumption
  <2> QED
    BY <1>5, <2>1, <2>2, <2>3, <2>4, <2>5
<1>7. \A e \in blocks : Start(e) \in DOMAIN us
  BY DEF TiledIn
<1> DEFINE Placed(c) ==
             \E e \in blocks : /\ Start(e) <= c /\ c + us[c].real_size <= End(e)
                               /\ (us[c].split_left = NULL) <=> (c = Start(e))
                               /\ (us[c].split_right = NULL) <=> (c + us[c].real_size = End(e))
           Linked(c) ==
             /\ us[c].split_right # NULL =>
                  /\ us[c].split_right \in DOMAIN us
                  /\ us[c].split_right = c + us[c].real_size
                  /\ us[us[c].split_right].split_left = c
             /\ us[c].split_left # NULL =>
                  us[c].split_left \in DOMAIN us /\ us[us[c].split_left].split_right = c
<1>8. PICK e \in blocks : /\ Start(e) <= a /\ a + ts[a].real_size <= End(e)
                          /\ (ts[a].split_left = NULL) <=> (a = Start(e))
                          /\ (r = NULL) <=> (a + ts[a].real_size = End(e))
  BY DEF TiledIn
<1>9. Start(e) \in Nat \ {0} /\ End(e) \in Nat
  BY BlockBounds
<1>10. Placed(a) /\ us[a].real_size > TagSize
  BY <1>1, <1>4, <1>8, <1>9, SizesAssumption DEF NULL
<1>11. Placed(b) /\ us[b].real_size > TagSize
  BY <1>1, <1>4, <1>8, <1>9, SizesAssumption DEF NULL
<1>12. ASSUME NEW c \in DOMAIN ts \ {a}
       PROVE  Placed(c) /\ us[c].real_size > TagSize
  <2>1. PICK f \in blocks : /\ Start(f) <= c /\ c + ts[c].real_size <= End(f)
                            /\ (ts[c].split_left = NULL) <=> (c = Start(f))
                            /\ (ts[c].split_right = NULL) <=> (c + ts[c].real_size = End(f))
    BY DEF TiledIn
  <2>2. c = r => ts[c].split_left = a
    BY <1>1, PieceIs DEF NULL
  <2>3. (us[c].split_left = NULL) <=> (ts[c].split_left = NULL)
    BY <1>1, <1>4, <2>2, SizesAssumption DEF NULL
  <2> QED
    BY <1>1, <1>4, <2>1, <2>3
<1>13. Linked(a) /\ Linked(b)
  <2>1. a # r
    BY <1>1, PieceIs DEF NULL
  <2>2. /\ ts[a].split_left # NULL =>
             /\ ts[a].split_left \in DOMAIN ts \ {a}
             /\ ts[ts[a].split_left].split_right = a
        /\ r # NULL => r \in DOMAIN ts \ {a} /\ r = a + ts[a].real_size
    BY PieceIs
  <2> QED
    BY <1>1, <1>3, <1>4, <2>1, <2>2
<1>14. ASSUME NEW c \in DOMAIN ts \ {a}
       PROVE  Linked(c)
  <2>1. /\ ts[c].split_right # NULL =>
             /\ ts[c].split_right \in DOMAIN ts
             /\ ts[c].split_right = c + ts[c].real_size
             /\ ts[ts[c].split_right].split_left = c
        /\ ts[c].split_left # NULL =>
             /\ ts[c].split_left \in DOMAIN ts
             /\ ts[ts[c].split_left].split_right = c
    BY PieceIs
  <2>2. r # NULL => ts[r].split_left = a
    BY PieceIs
  <2>3. ts[c].split_right # NULL => us[ts[c].split_right].split_left = c
    BY <1>1, <1>3, <1>4, <2>1, <2>2
  <2>4. c = r => us[c].split_left = b
    BY <1>4
  <2>5. c # r /\ ts[c].split_left # NULL => ts[c].split_left # a
    BY <2>1
  <2> QED
    BY <1>4, <2>1, <2>3, <2>4, <2>5
<1>15. \A c \in DOMAIN us : Placed(c) /\ us[c].real_size > TagSize /\ Linked(c)
  <2> HIDE DEF Placed, Linked
  <2> QED
    BY <1>5, <1>10, <1>11, <1>12, <1>13, <1>14
<1> QED
  BY <1>3, <1>6, <1>7, <1>15 DEF TiledIn

\* No extent is empty, and no two share a byte.
Separate(blocks) ==
  /\ \A e \in blocks : Start(e) < End(e)
  /\ \A e, f \in blocks : e # f => End(e) <= Start(f) \/ End(f) <= Start(e)

\* Melting two pieces into one.
LEMMA TiledJoined ==
  ASSUME NEW ts, Typed(ts), NEW us, NEW blocks \in SUBSET Blocks, TiledIn(ts, blocks),
         Separate(blocks), NEW a \in DOMAIN ts, NEW r, r = ts[a].split_right, r # NULL,
         DOMAIN us = (DOMAIN ts) \ {r}, Joins(ts, us, a, r)
  PROVE  TiledIn(us, blocks)
<1> DEFINE s == ts[r].split_right
           Pos(c) == c \in Nat \ {0} /\ ts[c].real_size \in Nat /\ ts[c].real_size > TagSize
<1>1. /\ a \in DOMAIN us /\ r \in DOMAIN ts /\ r = a + ts[a].real_size
      /\ ts[r].split_left = a /\ a # r
  BY PieceIs
<1>2. \A c \in DOMAIN ts : Pos(c)
  BY PieceIs
<1>3. \A c, d \in DOMAIN ts : c < d => c + ts[c].real_size <= d
  BY DEF TiledIn
<1>4. s # NULL => /\ s \in DOMAIN ts /\ s = r + ts[r].real_size /\ ts[s].split_left = r
                  /\ s # r /\ s # a
  BY <1>1, <1>2, PieceIs
<1>5. \A c \in DOMAIN us :
        /\ us[c].real_size = IF c = a THEN ts[a].real_size + ts[r].real_size
                             ELSE ts[c].real_size
        /\ us[c].split_left = IF c = s THEN a ELSE ts[c].split_left
        /\ us[c].split_right = IF c = a THEN s ELSE ts[c].split_right
  BY DEF Joins
<1>6. \A c, d \in DOMAIN us : c < d => c + us[c].real_size <= d
  <2> SUFFICES ASSUME NEW c \in DOMAIN us, NEW d \in DOMAIN us, c < d
               PROVE  c + us[c].real_size <= d
    OBVIOUS
  <2>1. CASE c = a
    <3>1. a + ts[a].real_size <= d /\ d # r
      BY <1>3, <2>1
    <3>2. r < d
      BY <1>1, <1>2, <3>1
    <3> QED
      BY <1>1, <1>2, <1>3, <1>5, <2>1, <3>2
  <2>2. CASE c # a
    BY <1>3, <1>5, <2>2
  <2> QED
    BY <2>1, <2>2
<1> DEFINE In(c, e) ==
             /\ Start(e) <= c /\ c + ts[c].real_size <= End(e)
             /\ (ts[c].split_left = NULL) <=> (c = Start(e))
             /\ (ts[c].split_right = NULL) <=> (c + ts[c].real_size = End(e))
           Placed(c) ==
             \E e \in blocks : /\ Start(e) <= c /\ c + us[c].real_size <= End(e)
                               /\ (us[c].split_left = NULL) <=> (c = Start(e))
                               /\ (us[c].split_right = NULL) <=> (c + us[c].real_size = End(e))
           Linked(c) ==
             /\ us[c].split_right # NULL =>
                  /\ us[c].split_right \in DOMAIN us
                  /\ us[c].split_right = c + us[c].real_size
                  /\ us[us[c].split_right].split_left = c
             /\ us[c].split_left # NULL =>
                  us[c].split_left \in DOMAIN us /\ us[us[c].split_left].split_right = c
<1>7. \A c \in DOMAIN ts : \E e \in blocks : In(c, e)
  BY DEF TiledIn
<1>8. PICK e \in blocks : In(r, e)
  BY <1>1, <1>7
<1>9. \A f \in blocks : Start(f) \in Nat \ {0} /\ End(f) \in Nat
  BY BlockBounds
<1>10. ASSUME NEW f \in blocks
       PROVE  Start(f) \in DOMAIN us
  <2>1. Start(f) \in DOMAIN ts
    BY DEF TiledIn
  <2>2. Start(e) < r /\ r < End(e)
    BY <1>1, <1>2, <1>8, <1>9, SizesAssumption DEF NULL
  <2>3. ASSUME Start(f) = r
        PROVE  FALSE
    <3>1. f # e
      BY <1>1, <1>2, <1>9, <2>2, <2>3
    <3>2. End(e) <= Start(f) \/ End(f) <= Start(e)
      BY <3>1 DEF Separate
    <3>3. Start(f) < End(f)
      BY DEF Separate
    <3> QED
      BY <1>1, <1>2, <1>9, <2>2, <2>3, <3>2, <3>3
  <2> QED
    BY <2>1, <2>3
<1>11. PICK f \in blocks : In(a, f)
  BY <1>7
<1>12. e = f
  <2>1. Start(e) < r /\ r < End(e) /\ Start(f) < r /\ r <= End(f)
    BY <1>1, <1>2, <1>8, <1>9, <1>11, SizesAssumption DEF NULL
  <2> QED
    BY <1>1, <1>2, <1>9, <2>1 DEF Separate
<1>13. Placed(a)
  <2>1. a + (ts[a].real_size + ts[r].real_size) = r + ts[r].real_size
    BY <1>1, <1>2
  <2>2. us[a].split_left = ts[a].split_left /\ us[a].split_right = s
        /\ us[a].real_size = ts[a].real_size + ts[r].real_size
    BY <1>1, <1>2, <1>4, <1>5 DEF NULL
  <2> QED
    BY <1>8, <1>11, <1>12, <2>1, <2>2
<1>14. ASSUME NEW c \in DOMAIN us, c # a
       PROVE  Placed(c)
  <2>1. PICK g \in blocks : In(c, g)
    BY <1>7
  <2>2. (us[c].split_left = NULL) <=> (ts[c].split_left = NULL)
    BY <1>1, <1>2, <1>4, <1>5 DEF NULL
  <2> QED
    BY <1>5, <1>14, <2>1, <2>2
<1>15. ASSUME NEW c \in DOMAIN us
       PROVE  us[c].real_size > TagSize /\ Linked(c)
  <2>1. us[c].real_size > TagSize
    BY <1>1, <1>2, <1>5, SizesAssumption
  <2>2. /\ ts[c].split_right # NULL =>
             /\ ts[c].split_right \in DOMAIN ts
             /\ ts[c].split_right = c + ts[c].real_size
             /\ ts[ts[c].split_right].split_left = c
        /\ ts[c].split_left # NULL =>
             /\ ts[c].split_left \in DOMAIN ts
             /\ ts[ts[c].split_left].split_right = c
    BY PieceIs
  <2>3. CASE c = a
    <3>1. us[c].split_left # NULL => us[c].split_left \in DOMAIN us /\ us[us[c].split_left].split_right = c
      BY <1>1, <1>2, <1>4, <1>5, <2>2, <2>3, PieceIs DEF NULL
    <3>2. us[c].split_right # NULL =>
                  /\ us[c].split_right \in DOMAIN us
                  /\ us[c].split_right = c + us[c].real_size
                  /\ us[us[c].split_right].split_left = c
      BY <1>1, <1>2, <1>4, <1>5, <2>3
    <3> QED
      BY <2>1, <3>1, <3>2
  <2>4. CASE c # a
    <3>1. ts[c].split_right # r
      BY <1>1, <2>2, <2>4 DEF NULL
    <3>2. c # s => ts[c].split_left # r
      BY <1>1, <1>2, <2>2 DEF NULL
    <3>3. ts[c].split_right # s \/ s = NULL
      BY <1>4, <2>2, <2>4
    <3>4. us[c].split_right = ts[c].split_right /\ us[c].real_size = ts[c].real_size
      BY <1>5, <2>4
    <3>5. us[c].split_right # NULL =>
                  /\ us[c].split_right \in DOMAIN us
                  /\ us[c].split_right = c + us[c].real_size
                  /\ us[us[c].split_right].split_left = c
      <4> SUFFICES ASSUME ts[c].split_right # NULL
                   PROVE  /\ ts[c].split_right \in DOMAIN us
                          /\ ts[c].split_right = c + ts[c].real_size
                          /\ us[ts[c].split_right].split_left = c
        BY <3>4
      <4>1. ts[c].split_right # s
        BY <3>3
      <4> QED
        BY <1>5, <2>2, <3>1, <4>1
    <3>6. us[c].split_left # NULL =>
            us[c].split_left \in DOMAIN us /\ us[us[c].split_left].split_right = c
      <4>1. CASE c = s
        <5>1. us[c].split_left = a /\ us[a].split_right = c
          BY <1>1, <1>5, <4>1
        <5> QED
          BY <1>1, <5>1
      <4>2. CASE c # s
        <5>1. us[c].split_left = ts[c].split_left
          BY <1>5, <4>2
        <5>2. ts[c].split_left # NULL => ts[c].split_left # a
          BY <1>1, <2>2, <4>2
        <5> QED
          BY <1>5, <2>2, <3>2, <4>2, <5>1, <5>2
      <4> QED
        BY <4>1, <4>2
    <3> QED
      BY <2>1, <3>5, <3>6
  <2> QED
    BY <2>3, <2>4
<1> QED
  <2>1. \A c \in DOMAIN us : Placed(c) /\ us[c].real_size > TagSize /\ Linked(c)
    <3> HIDE DEF Placed, Linked
    <3> QED
      BY <1>13, <1>14, <1>15
  <2> QED
    BY <1>6, <1>10, <2>1 DEF TiledIn

\* A block of its own for a new piece.
LEMMA TiledWithBlock ==
  ASSUME NEW ts, Typed(ts), NEW us, NEW blocks \in SUBSET Blocks, TiledIn(ts, blocks),
         NEW e \in Blocks, \A f \in blocks : End(e) <= Start(f) \/ End(f) <= Start(e),
         NEW a, a = Start(e), a + TagSize < End(e),
         a \notin DOMAIN ts, DOMAIN us = (DOMAIN ts) \cup {a},
         \A c \in DOMAIN ts : us[c] = ts[c],
         us[a].real_size = e[2] * PageSize, us[a].split_left = NULL, us[a].split_right = NULL
  PROVE  TiledIn(us, blocks \cup {e})
<1>1. /\ a \in Nat \ {0} /\ a + us[a].real_size = End(e) /\ us[a].real_size \in Nat
      /\ us[a].real_size > TagSize
  BY BlockBounds, SizesAssumption
<1>2. \A c \in DOMAIN ts : /\ c \in Nat \ {0} /\ ts[c].real_size \in Nat
                           /\ ts[c].real_size > TagSize
  BY PieceIs
<1>3. ASSUME NEW c \in DOMAIN ts
      PROVE  c + ts[c].real_size <= a \/ a + us[a].real_size <= c
  <2>1. PICK f \in blocks : Start(f) <= c /\ c + ts[c].real_size <= End(f)
    BY DEF TiledIn
  <2>2. Start(f) \in Nat /\ End(f) \in Nat
    BY BlockBounds
  <2> QED
    BY <1>1, <1>2, <2>1, <2>2
<1>4. \A c, d \in DOMAIN ts : c < d => c + ts[c].real_size <= d
  BY DEF TiledIn
<1>5. \A c, d \in DOMAIN us : c < d => c + us[c].real_size <= d
  <2> SUFFICES ASSUME NEW c \in DOMAIN us, NEW d \in DOMAIN us, c < d
               PROVE  c + us[c].real_size <= d
    OBVIOUS
  <2>1. CASE c \in DOMAIN ts /\ d \in DOMAIN ts
    BY <1>4, <2>1
  <2>2. CASE c = a /\ d \in DOMAIN ts
    BY <1>1, <1>2, <1>3, <2>2, SizesAssumption
  <2>3. CASE c \in DOMAIN ts /\ d = a
    BY <1>1, <1>2, <1>3, <2>3, SizesAssumption
  <2> QED
    BY <1>1, <2>1, <2>2, <2>3
<1>6. \A f \in blocks \cup {e} : Start(f) \in DOMAIN us
  BY DEF TiledIn
<1>7. ASSUME NEW c \in DOMAIN us
      PROVE  LET l == us[c].split_left
                 r == us[c].split_right
                 end == c + us[c].real_size
             IN  /\ us[c].real_size > TagSize
                 /\ \E f \in blocks \cup {e} : /\ Start(f) <= c /\ end <= End(f)
                                               /\ (l = NULL) <=> (c = Start(f))
                                               /\ (r = NULL) <=> (end = End(f))
                 /\ r # NULL => r \in DOMAIN us /\ r = end /\ us[r].split_left = c
                 /\ l # NULL => l \in DOMAIN us /\ us[l].split_right = c
  <2>1. CASE c = a
    BY <1>1, <2>1
  <2>2. CASE c \in DOMAIN ts
    BY <2>2 DEF TiledIn
  <2> QED
    BY <2>1, <2>2
<1> QED
  BY <1>5, <1>6, <1>7 DEF TiledIn

\* The block of a piece that is whole.
LEMMA WholeBlock ==
  ASSUME NEW ts, Typed(ts), NEW blocks \in SUBSET Blocks, TiledIn(ts, blocks),
         NEW a \in DOMAIN ts, Whole(ts[a])
  PROVE  \E e \in blocks : a = Start(e) /\ ts[a].real_size = e[2] * PageSize
<1>1. PICK e \in blocks : a = Start(e) /\ a + ts[a].real_size = End(e)
  BY DEF TiledIn, Whole
<1>2. /\ End(e) = Start(e) + e[2] * PageSize /\ e[2] * PageSize \in Nat
      /\ Start(e) \in Nat
  BY BlockBounds
<1>3. ts[a].real_size \in Nat
  BY PieceIs
<1> QED
  BY <1>1, <1>2, <1>3

\* A block that is one piece goes.
LEMMA TiledWithout ==
  ASSUME NEW ts, Typed(ts), NEW us, NEW blocks \in SUBSET Blocks, TiledIn(ts, blocks),
         Separate(blocks), NEW e \in blocks, NEW a \in DOMAIN ts, a = Start(e),
         ts[a].real_size = e[2] * PageSize, Whole(ts[a]),
         DOMAIN us = (DOMAIN ts) \ {a}, SamePieces(ts, us)
  PROVE  TiledIn(us, blocks \ {e})
<1>1. \A c \in DOMAIN ts : /\ c \in Nat \ {0} /\ ts[c].real_size \in Nat
                           /\ ts[c].real_size > TagSize
  BY PieceIs
<1>2. \A f \in blocks : Start(f) \in Nat \ {0} /\ End(f) \in Nat
  BY BlockBounds
<1>3. a + ts[a].real_size = End(e)
  BY BlockBounds
<1>4. \A c, d \in DOMAIN ts : c < d => c + ts[c].real_size <= d
  BY DEF TiledIn
<1>5. ASSUME NEW c \in DOMAIN us, NEW f \in blocks, Start(f) <= c, c + ts[c].real_size <= End(f)
      PROVE  f # e
  <2> SUFFICES ASSUME f = e
               PROVE  FALSE
    OBVIOUS
  <2>1. a < c
    BY <1>1, <1>5
  <2> QED
    BY <1>1, <1>2, <1>3, <1>4, <1>5, <2>1, SizesAssumption
<1>6. ASSUME NEW f \in blocks \ {e}
      PROVE  Start(f) \in DOMAIN us
  <2>1. Start(f) \in DOMAIN ts
    BY DEF TiledIn
  <2>2. Start(f) # a
    <3>1. End(e) <= Start(f) \/ End(f) <= Start(e)
      BY DEF Separate
    <3>2. Start(e) < End(e) /\ Start(f) < End(f)
      BY DEF Separate
    <3> QED
      BY <1>2, <3>1, <3>2
  <2> QED
    BY <2>1, <2>2
<1>7. ASSUME NEW c \in DOMAIN us
      PROVE  LET l == us[c].split_left
                 r == us[c].split_right
                 end == c + us[c].real_size
             IN  /\ us[c].real_size > TagSize
                 /\ \E f \in blocks \ {e} : /\ Start(f) <= c /\ end <= End(f)
                                            /\ (l = NULL) <=> (c = Start(f))
                                            /\ (r = NULL) <=> (end = End(f))
                 /\ r # NULL => r \in DOMAIN us /\ r = end /\ us[r].split_left = c
                 /\ l # NULL => l \in DOMAIN us /\ us[l].split_right = c
  <2>1. PICK f \in blocks : /\ Start(f) <= c /\ c + ts[c].real_size <= End(f)
                            /\ (ts[c].split_left = NULL) <=> (c = Start(f))
                            /\ (ts[c].split_right = NULL) <=> (c + ts[c].real_size = End(f))
    BY DEF TiledIn
  <2>2. f # e
    BY <1>5, <2>1
  <2>3. ts[c].split_right # a /\ ts[c].split_left # a
    BY PieceIs DEF Whole, NULL
  <2> QED
    BY <2>1, <2>2, <2>3 DEF SamePieces, TiledIn
<1> QED
  <2>1. \A c, d \in DOMAIN us : c < d => c + us[c].real_size <= d
    BY <1>4 DEF SamePieces
  <2> QED
    BY <1>6, <1>7, <2>1 DEF TiledIn

-----------------------------------------------------------------------------
(* Lists of free pieces *)

\* The links of BinsWhole and Unlinked, for any tags and heads.
Linked(ts, heads, a) ==
  LET t == ts[a]
      Mate(b) == b \in FreeOf(ts) /\ ts[b].index = t.index
  IN  /\ t.next # NULL => Mate(t.next) /\ ts[t.next].prev = a
      /\ t.prev # NULL => Mate(t.prev) /\ ts[t.prev].next = a
      /\ t.prev = NULL => heads[t.index] = a
HeadsIn(ts, heads) ==
  \A i \in Bins : heads[i] # NULL =>
    /\ heads[i] \in FreeOf(ts)
    /\ ts[heads[i]].index = i /\ ts[heads[i]].prev = NULL
NoCycle(ts) == \A S \in SUBSET FreeOf(ts) : S # {} => \E a \in S : ts[a].prev \notin S
NoLinks(ts) == \A a \in (DOMAIN ts) \ FreeOf(ts) : ts[a].next = NULL /\ ts[a].prev = NULL
ListsIn(ts, heads) ==
  /\ HeadsIn(ts, heads)
  /\ \A a \in FreeOf(ts) : Linked(ts, heads, a)
  /\ NoCycle(ts) /\ NoLinks(ts)

\* Free pieces have no marks on them but their bins; so only these matter.
LEMMA FreeIs ==
  ASSUME NEW ts, Typed(ts)
  PROVE  /\ FreeOf(ts) = {a \in DOMAIN ts : ts[a].index \in Bins}
         /\ \A a \in (DOMAIN ts) \ FreeOf(ts) : ts[a].index = -1
         /\ \A a \in DOMAIN ts : /\ a \in Nat \ {0} /\ a # NULL
                                 /\ ts[a].index \in Bins \cup {-1}
                                 /\ ts[a].next \in Nat /\ ts[a].prev \in Nat
         /\ \A i \in Bins : i \in Nat /\ i # -1
<1>1. \A i \in Bins : i \in Nat /\ i # -1
  BY SizesAssumption DEF Bins
<1>2. \A a \in DOMAIN ts : ts[a] \in Tags /\ a \in Nat \ {0}
  BY DEF Typed
<1> QED
  BY <1>1, <1>2 DEF Tags, FreeOf, NULL

LEMMA ListsKept ==
  ASSUME NEW ts, NEW us, NEW heads, ListsIn(ts, heads),
         FreeOf(us) = FreeOf(ts),
         \A a \in FreeOf(ts) : /\ us[a].index = ts[a].index
                               /\ us[a].next = ts[a].next /\ us[a].prev = ts[a].prev,
         NoLinks(us)
  PROVE  ListsIn(us, heads)
<1>1. HeadsIn(us, heads)
  BY DEF ListsIn, HeadsIn
<1>2. \A a \in FreeOf(us) : Linked(us, heads, a)
  BY DEF ListsIn, Linked
<1>3. NoCycle(us)
  BY DEF ListsIn, NoCycle
<1> QED
  BY <1>1, <1>2, <1>3 DEF ListsIn

\* The neighbours of a piece in its list are two, and not itself.
LEMMA NeighboursDiffer ==
  ASSUME NEW ts, Typed(ts), NEW heads, ListsIn(ts, heads), NEW a \in FreeOf(ts)
  PROVE  /\ ts[a].prev # a /\ ts[a].next # a
         /\ ts[a].prev # NULL => ts[a].prev # ts[a].next
<1>1. a # NULL
  BY FreeIs DEF FreeOf
<1>2. Linked(ts, heads, a)
  BY DEF ListsIn
<1>3. ts[a].prev # a
  <2>1. {a} \in SUBSET FreeOf(ts) /\ {a} # {}
    OBVIOUS
  <2>2. \E b \in {a} : ts[b].prev \notin {a}
    BY <2>1 DEF ListsIn, NoCycle
  <2> QED
    BY <2>2
<1>4. ts[a].next # a
  BY <1>1, <1>2, <1>3 DEF Linked
<1>5. ASSUME ts[a].prev # NULL, ts[a].prev = ts[a].next
      PROVE  FALSE
  <2> DEFINE S == {a, ts[a].prev}
  <2>1. S \in SUBSET FreeOf(ts) /\ S # {}
    BY <1>2, <1>5 DEF Linked
  <2>2. PICK b \in S : ts[b].prev \notin S
    BY <2>1 DEF ListsIn, NoCycle
  <2>3. ts[ts[a].prev].prev = a
    BY <1>2, <1>5 DEF Linked
  <2> QED
    BY <2>2, <2>3
<1> QED
  BY <1>3, <1>4, <1>5

LEMMA ListsRemoved ==
  ASSUME freePages \in [Bins -> Nat], NEW ts, Typed(ts), ListsIn(ts, freePages),
         NEW a \in FreeOf(ts), NEW us, DOMAIN us = DOMAIN ts, Unlinks(ts, us, a),
         NEW rest, rest = HeadsWithout(ts, a)
  PROVE  /\ rest \in [Bins -> Nat] /\ FreeOf(us) = FreeOf(ts) \ {a}
         /\ ListsIn(us, rest)
<1> DEFINE heads == freePages
           n == ts[a].next
           p == ts[a].prev
           i == ts[a].index
<1>1. /\ a \in DOMAIN ts /\ a # NULL /\ i \in Bins /\ n \in Nat /\ p \in Nat
      /\ \A b \in FreeOf(ts) : b \in DOMAIN ts /\ ts[b].index \in Bins /\ b # NULL
  BY FreeIs
<1>2. FreeOf(us) = FreeOf(ts) \ {a}
  BY <1>1 DEF Unlinks, FreeOf
<1>3. /\ rest \in [Bins -> Nat]
      /\ \A j \in Bins : rest[j] = IF j = i /\ heads[i] = a THEN n ELSE heads[j]
  BY <1>1 DEF HeadsWithout
<1>4. \A b \in FreeOf(ts) : Linked(ts, heads, b)
  BY DEF ListsIn
<1>5. p # a /\ n # a /\ (p # NULL => p # n)
  BY NeighboursDiffer
<1>6. \A b \in FreeOf(us) :
        /\ us[b].index = ts[b].index
        /\ us[b].next = IF b = p THEN n ELSE ts[b].next
        /\ us[b].prev = IF b # p /\ b = n THEN p ELSE ts[b].prev
  BY <1>1, <1>2 DEF Unlinks
<1>7. /\ n # NULL => n \in FreeOf(us) /\ ts[n].index = i /\ ts[n].prev = a
      /\ p # NULL => p \in FreeOf(us) /\ ts[p].index = i /\ ts[p].next = a
      /\ p = NULL <=> heads[i] = a
  <2>1. Linked(ts, heads, a)
    BY <1>4
  <2>2. heads[i] = a => p = NULL
    BY <1>1 DEF ListsIn, HeadsIn
  <2> QED
    BY <1>2, <1>5, <2>1, <2>2 DEF Linked
<1>8. HeadsIn(us, rest)
  <2> SUFFICES ASSUME NEW j \in Bins, rest[j] # NULL
               PROVE  rest[j] \in FreeOf(us) /\ us[rest[j]].index = j /\ us[rest[j]].prev = NULL
    BY DEF HeadsIn
  <2>1. CASE j = i /\ heads[i] = a
    BY <1>1, <1>3, <1>5, <1>6, <1>7, <2>1
  <2>2. CASE ~ (j = i /\ heads[i] = a)
    <3>1. /\ rest[j] = heads[j] /\ heads[j] \in FreeOf(ts)
          /\ ts[heads[j]].index = j /\ ts[heads[j]].prev = NULL
      BY <1>3, <2>2 DEF ListsIn, HeadsIn
    <3>2. heads[j] # a
      BY <2>2, <3>1
    <3>3. heads[j] = n => n = NULL
      BY <1>1, <1>7, <3>1
    <3> QED
      BY <1>2, <1>6, <1>7, <3>1, <3>2, <3>3
  <2> QED
    BY <2>1, <2>2
<1>9. ASSUME NEW b \in FreeOf(us)
      PROVE  Linked(us, rest, b)
  <2>1. /\ Linked(ts, heads, b) /\ b # a /\ b # NULL /\ ts[b].index \in Bins
    BY <1>1, <1>2, <1>4
  <2>2. us[b].next # NULL => /\ us[b].next \in FreeOf(us)
                             /\ us[us[b].next].index = us[b].index
                             /\ us[us[b].next].prev = b
    <3>1. CASE b = p
      BY <1>5, <1>6, <1>7, <2>1, <3>1
    <3>2. CASE b # p
      <4>1. us[b].next = ts[b].next
        BY <1>6, <3>2
      <4>2. ts[b].next # NULL =>
              ts[b].next \in FreeOf(ts) /\ ts[ts[b].next].index = ts[b].index /\ ts[ts[b].next].prev = b
        BY <2>1 DEF Linked
      <4>3. ts[b].next # a \/ ts[b].next = NULL
        BY <3>2, <4>2
      <4>4. ts[b].next # NULL => ts[b].next # n
        BY <1>7, <2>1, <4>2
      <4> QED
        BY <1>2, <1>6, <4>1, <4>2, <4>3, <4>4
    <3> QED
      BY <3>1, <3>2
  <2>3. us[b].prev # NULL => /\ us[b].prev \in FreeOf(us)
                             /\ us[us[b].prev].index = us[b].index
                             /\ us[us[b].prev].next = b
    <3>1. CASE b = n
      BY <1>5, <1>6, <1>7, <2>1, <3>1
    <3>2. CASE b # n
      <4>1. us[b].prev = ts[b].prev
        BY <1>6, <3>2
      <4>2. ts[b].prev # NULL =>
              ts[b].prev \in FreeOf(ts) /\ ts[ts[b].prev].index = ts[b].index /\ ts[ts[b].prev].next = b
        BY <2>1 DEF Linked
      <4>3. ts[b].prev # a \/ ts[b].prev = NULL
        BY <3>2, <4>2
      <4>4. ts[b].prev # NULL => ts[b].prev # p
        BY <1>7, <2>1, <4>2
      <4> QED
        BY <1>2, <1>6, <4>1, <4>2, <4>3, <4>4
    <3> QED
      BY <3>1, <3>2
  <2>4. us[b].prev = NULL => rest[us[b].index] = b
    <3>1. CASE b = n
      BY <1>1, <1>3, <1>5, <1>6, <1>7, <2>1, <3>1
    <3>2. CASE b # n
      <4>1. us[b].prev = NULL => heads[ts[b].index] = b
        BY <1>6, <2>1, <3>2 DEF Linked
      <4> QED
        BY <1>3, <1>6, <2>1, <4>1
    <3> QED
      BY <3>1, <3>2
  <2> QED
    BY <2>2, <2>3, <2>4 DEF Linked
<1>10. NoCycle(us)
  <2> SUFFICES ASSUME NEW S \in SUBSET FreeOf(us), S # {}
               PROVE  \E b \in S : us[b].prev \notin S
    BY DEF NoCycle
  <2>1. a \notin S /\ S \in SUBSET FreeOf(ts)
    BY <1>2
  <2>2. CASE n \in S
    <3>1. S \cup {a} \in SUBSET FreeOf(ts) /\ S \cup {a} # {}
      BY <2>1
    <3>2. PICK b \in S \cup {a} : ts[b].prev \notin S \cup {a}
      BY <3>1 DEF ListsIn, NoCycle
    <3>3. CASE b = a
      BY <1>1, <1>2, <1>5, <1>6, <1>7, <2>2, <3>2, <3>3
    <3>4. CASE b # a
      <4>1. b \in S /\ b # n
        BY <1>1, <1>2, <1>7, <2>1, <2>2, <3>2, <3>4
      <4> QED
        BY <1>6, <3>2, <4>1
    <3> QED
      BY <3>3, <3>4
  <2>3. CASE n \notin S
    <3>1. PICK b \in S : ts[b].prev \notin S
      BY <2>1 DEF ListsIn, NoCycle
    <3> QED
      BY <1>6, <2>3, <3>1
  <2> QED
    BY <2>2, <2>3
<1>11. NoLinks(us)
  <2> SUFFICES ASSUME NEW b \in (DOMAIN us) \ FreeOf(us)
               PROVE  us[b].next = NULL /\ us[b].prev = NULL
    BY DEF NoLinks
  <2>1. CASE b = a
    BY <2>1 DEF Unlinks
  <2>2. CASE b # a
    <3>1. b \in (DOMAIN ts) \ FreeOf(ts) /\ b # NULL
      BY <1>2, <2>2, FreeIs
    <3>2. ts[b].next = NULL /\ ts[b].prev = NULL
      BY <3>1 DEF ListsIn, NoLinks
    <3>3. b # p /\ b # n
      BY <1>2, <1>7, <3>1
    <3> QED
      BY <2>2, <3>1, <3>2, <3>3 DEF Unlinks
  <2> QED
    BY <2>1, <2>2
<1> QED
  BY <1>2, <1>3, <1>8, <1>9, <1>10, <1>11 DEF ListsIn

LEMMA ListsInserted ==
  ASSUME NEW ts, Typed(ts), NEW us, NEW heads \in [Bins -> Nat], ListsIn(ts, heads),
         NEW a \in (DOMAIN ts) \ FreeOf(ts), NEW i \in Bins, DOMAIN us = DOMAIN ts,
         LinksFirst(ts, us, a, i, heads[i])
  PROVE  /\ HeadsWith(heads, a, i) \in [Bins -> Nat]
         /\ FreeOf(us) = FreeOf(ts) \cup {a}
         /\ ListsIn(us, HeadsWith(heads, a, i))
<1> DEFINE h == heads[i]
           rest == HeadsWith(heads, a, i)
<1>1. /\ a \in Nat \ {0} /\ a # NULL /\ h \in Nat /\ i >= 0
      /\ \A b \in FreeOf(ts) : b \in DOMAIN ts /\ ts[b].index \in Bins /\ b # NULL
  BY FreeIs
<1>2. FreeOf(us) = FreeOf(ts) \cup {a}
  BY <1>1 DEF LinksFirst, FreeOf
<1>3. /\ rest \in [Bins -> Nat]
      /\ \A j \in Bins : rest[j] = IF j = i THEN a ELSE heads[j]
  BY <1>1 DEF HeadsWith
<1>4. ts[a].next = NULL /\ ts[a].prev = NULL
  BY DEF ListsIn, NoLinks
<1>5. h # NULL => h \in FreeOf(ts) /\ ts[h].index = i /\ ts[h].prev = NULL
  BY DEF ListsIn, HeadsIn
<1>6. h # a /\ a \notin FreeOf(ts)
  BY <1>1, <1>5
<1>7. /\ us[a].index = i /\ us[a].next = h /\ us[a].prev = NULL
      /\ \A b \in DOMAIN ts \ {a} : /\ us[b].index = ts[b].index
                                    /\ us[b].next = ts[b].next
                                    /\ us[b].prev = IF b = h THEN a ELSE ts[b].prev
  BY <1>4, <1>6 DEF LinksFirst
<1> HIDE DEF rest
<1>8. HeadsIn(us, rest)
  <2> SUFFICES ASSUME NEW j \in Bins, rest[j] # NULL
               PROVE  rest[j] \in FreeOf(us) /\ us[rest[j]].index = j /\ us[rest[j]].prev = NULL
    BY DEF HeadsIn
  <2>1. CASE j = i
    BY <1>2, <1>3, <1>7, <2>1
  <2>2. CASE j # i
    <3>1. /\ rest[j] = heads[j] /\ heads[j] \in FreeOf(ts)
          /\ ts[heads[j]].index = j /\ ts[heads[j]].prev = NULL
      BY <1>3, <2>2 DEF ListsIn, HeadsIn
    <3> QED
      BY <1>1, <1>2, <1>5, <1>6, <1>7, <2>2, <3>1
  <2> QED
    BY <2>1, <2>2
<1>9. ASSUME NEW b \in FreeOf(us)
      PROVE  Linked(us, rest, b)
  <2>1. CASE b = a
    BY <1>1, <1>2, <1>3, <1>5, <1>6, <1>7, <2>1 DEF Linked
  <2>2. CASE b # a
    <3>1. b \in FreeOf(ts) /\ b \in DOMAIN ts \ {a} /\ b # NULL /\ Linked(ts, heads, b)
      BY <1>1, <1>2, <2>2 DEF ListsIn
    <3>2. ts[b].next # NULL =>
            ts[b].next \in FreeOf(ts) /\ ts[ts[b].next].index = ts[b].index /\ ts[ts[b].next].prev = b
      BY <3>1 DEF Linked
    <3>3. ts[b].prev # NULL =>
            ts[b].prev \in FreeOf(ts) /\ ts[ts[b].prev].index = ts[b].index /\ ts[ts[b].prev].next = b
      BY <3>1 DEF Linked
    <3>4. ts[b].prev = NULL => heads[ts[b].index] = b
      BY <3>1 DEF Linked
    <3>5. us[b].next # NULL => us[b].next \in FreeOf(us) /\ us[us[b].next].index = us[b].index
                               /\ us[us[b].next].prev = b
      <4>1. ts[b].next # NULL => ts[b].next # h
        BY <1>5, <3>1, <3>2
      <4>2. ts[b].next # NULL => ts[b].next \in DOMAIN ts \ {a}
        BY <1>1, <1>6, <3>2
      <4> QED
        BY <1>2, <1>7, <3>1, <3>2, <4>1, <4>2
    <3>6. us[b].prev # NULL => us[b].prev \in FreeOf(us) /\ us[us[b].prev].index = us[b].index
                               /\ us[us[b].prev].next = b
      <4>1. CASE b = h
        BY <1>2, <1>5, <1>7, <3>1, <4>1
      <4>2. CASE b # h
        <5>1. ts[b].prev # NULL => ts[b].prev \in DOMAIN ts \ {a}
          BY <1>1, <1>6, <3>3
        <5> QED
          BY <1>2, <1>7, <3>1, <3>3, <4>2, <5>1
      <4> QED
        BY <4>1, <4>2
    <3>7. us[b].prev = NULL => rest[us[b].index] = b
      BY <1>1, <1>3, <1>7, <3>1, <3>4
    <3> QED
      BY <3>5, <3>6, <3>7 DEF Linked
  <2> QED
    BY <2>1, <2>2
<1>10. NoCycle(us)
  <2> SUFFICES ASSUME NEW S \in SUBSET FreeOf(us), S # {}
               PROVE  \E b \in S : us[b].prev \notin S
    BY DEF NoCycle
  <2>1. CASE a \in S
    <3>1. NULL \notin S
      BY <1>1, <1>2
    <3> QED
      BY <1>7, <2>1, <3>1
  <2>2. CASE a \notin S
    <3>1. S \in SUBSET FreeOf(ts)
      BY <1>2, <2>2
    <3>2. PICK b \in S : ts[b].prev \notin S
      BY <3>1 DEF ListsIn, NoCycle
    <3>3. b \in DOMAIN ts \ {a}
      BY <1>1, <2>2, <3>1
    <3> QED
      BY <1>7, <2>2, <3>2, <3>3
  <2> QED
    BY <2>1, <2>2
<1>11. NoLinks(us)
  <2> SUFFICES ASSUME NEW b \in (DOMAIN us) \ FreeOf(us)
               PROVE  us[b].next = NULL /\ us[b].prev = NULL
    BY DEF NoLinks
  <2>1. b \in (DOMAIN ts) \ FreeOf(ts) /\ b # a /\ b # h
    BY <1>1, <1>2, <1>5, FreeIs
  <2> QED
    BY <1>7, <2>1 DEF ListsIn, NoLinks
<1> QED
  BY <1>2, <1>3, <1>8, <1>9, <1>10, <1>11 DEF ListsIn, rest

-----------------------------------------------------------------------------
(* The other parts of the invariant, for any tags *)

Binned(ts) == \A a \in FreeOf(ts) : ts[a].index = BinOf(Payload(ts[a]))
ApartIn(ts) == \A a \in FreeOf(ts) : ts[a].split_right \notin FreeOf(ts)
WholeIn(ts, i) == {a \in FreeOf(ts) : ts[a].index = i /\ Whole(ts[a])}
CountedIn(ts, counts) ==
  \A i \in Bins : counts[i] = Cardinality(WholeIn(ts, i)) /\ counts[i] <= MaxComplete

\* The pieces in no list are those callers have, and those on their way.
HeldIn(ts, blocks, passing) ==
  (DOMAIN ts) \ FreeOf(ts) = {p - TagSize : p \in DOMAIN blocks} \cup passing
FitIn(ts, blocks) ==
  \A p \in DOMAIN blocks : /\ ts[p - TagSize].size = blocks[p]
                           /\ blocks[p] + TagSize <= ts[p - TagSize].real_size
Callable(blocks) ==
  blocks \in [DOMAIN blocks -> Nat \ {0}] /\ DOMAIN blocks \subseteq Nat

Passing == IF pc \in {"left", "right"} THEN {tag} ELSE {}

\* The invariant, part by part.
LEMMA Parts ==
  IInv <=> /\ Typed(tags) /\ TypeInv /\ BlocksInv /\ CallInv
           /\ TiledIn(tags, owned) /\ ListsIn(tags, freePages)
           /\ Binned(tags) /\ ApartIn(tags) /\ CountedIn(tags, completePages)
           /\ HeldIn(tags, given, Passing) /\ FitIn(tags, given)
<1>1. FreeTags = FreeOf(tags) /\ Addresses = DOMAIN tags
  BY DEF FreeTags, FreeOf, Addresses
<1>2. Tiled <=> TiledIn(tags, owned)
  BY DEF Tiled, TiledIn, Addresses, EndOf
<1>3. BinsWhole /\ Unlinked <=> /\ ListsIn(tags, freePages) /\ Binned(tags)
                                /\ HeldIn(tags, given, Passing) /\ FitIn(tags, given)
  BY <1>1 DEF BinsWhole, Unlinked, ListsIn, HeadsIn, Linked, NoCycle, NoLinks, Binned,
              HeldIn, FitIn, Passing
<1>4. Apart <=> ApartIn(tags)
  BY <1>1 DEF Apart, ApartIn
<1>5. CompleteCounted <=> CountedIn(tags, completePages)
  BY <1>1 DEF CompleteCounted, CountedIn, WholeIn
<1>6. TypeInv => Typed(tags)
  BY DEF TypeInv, Typed, Addresses
<1> QED
  BY <1>2, <1>3, <1>4, <1>5, <1>6 DEF IInv

\* A piece that keeps its size and stays out of the lists is no one else's.
LEMMA HeldIs ==
  ASSUME NEW ts, NEW blocks, Callable(blocks), NEW passing, HeldIn(ts, blocks, passing)
  PROVE  /\ passing \subseteq (DOMAIN ts) \ FreeOf(ts)
         /\ \A p \in DOMAIN blocks : /\ p \in Nat /\ p - TagSize \in (DOMAIN ts) \ FreeOf(ts)
                                     /\ blocks[p] \in Nat \ {0}
BY DEF HeldIn, Callable

LEMMA CutPlaceFree ==
  ASSUME NEW ts, Typed(ts), NEW blocks, TiledIn(ts, blocks), NEW a \in DOMAIN ts,
         NEW b \in Nat, a < b, b < a + ts[a].real_size
  PROVE  b \notin DOMAIN ts
<1>1. \A c, d \in DOMAIN ts : c < d => c + ts[c].real_size <= d
  BY DEF TiledIn
<1>2. a \in Nat /\ ts[a].real_size \in Nat
  BY PieceIs
<1> QED
  BY <1>1, <1>2

\* What malloc does when it has settled on piece a: the lists, the pieces and
\* the counts are whole again, and the caller has a.
LEMMA SettleKeeps ==
  ASSUME NEW ts, Typed(ts), NEW heads \in [Bins -> Nat], NEW blocks \in SUBSET Blocks,
         TiledIn(ts, blocks), ListsIn(ts, heads), Binned(ts), ApartIn(ts),
         NEW a \in (DOMAIN ts) \ FreeOf(ts), ts[a].split_right \notin FreeOf(ts),
         size \in Nat \ {0}, size + TagSize <= ts[a].real_size,
         Callable(given), HeldIn(ts, given, {a}), FitIn(ts, given),
         a + TagSize \notin DOMAIN given,
         Settle(ts, heads, a)
  PROVE  /\ Typed(tags') /\ freePages' \in [Bins -> Nat] /\ Callable(given')
         /\ TiledIn(tags', blocks) /\ ListsIn(tags', freePages')
         /\ Binned(tags') /\ ApartIn(tags')
         /\ \A i \in Bins : WholeIn(tags', i) = WholeIn(ts, i)
         /\ HeldIn(tags', given', {}) /\ FitIn(tags', given')
<1> DEFINE sized == [ts EXCEPT ![a].size = size]
           remainder == ts[a].real_size - size - 2 * TagSize
           b == SplitPlace(sized[a], a)
           cut == Split(sized, a)
           i == BinOf(Payload(cut[b]))
           us == Inserted(cut, heads, b, i)
<1>1. /\ \/ /\ remainder > 0
            /\ tags' = us
            /\ freePages' = HeadsWith(heads, b, i)
         \/ tags' = sized /\ freePages' = heads
      /\ given' = Added(given, a + TagSize, size)
  BY DEF Settle
<1>2. /\ Typed(sized) /\ DOMAIN sized = DOMAIN ts
      /\ SamePieces(ts, sized) /\ SameLinks(ts, sized)
      /\ \A c \in DOMAIN ts : sized[c].size = IF c = a THEN size ELSE ts[c].size
  <2> HIDE DEF sized
  <2> QED
    BY SizedIs DEF sized
<1> HIDE DEF sized
<1>3. FreeOf(sized) = FreeOf(ts)
  BY <1>2 DEF FreeOf, SameLinks
<1>4. TiledIn(sized, blocks)
  BY <1>2, TiledKept
<1>5. ListsIn(sized, heads)
  <2>1. NoLinks(sized)
    BY <1>2, <1>3 DEF ListsIn, NoLinks, SameLinks
  <2>2. \A c \in FreeOf(ts) : /\ sized[c].index = ts[c].index
                              /\ sized[c].next = ts[c].next /\ sized[c].prev = ts[c].prev
    BY <1>2 DEF FreeOf, SameLinks
  <2> QED
    BY <1>3, <2>1, <2>2, ListsKept
<1>6. Binned(sized) /\ ApartIn(sized) /\ \A j \in Bins : WholeIn(sized, j) = WholeIn(ts, j)
  <2>1. \A c \in FreeOf(ts) : /\ c \in DOMAIN sized /\ sized[c].index = ts[c].index
                              /\ Payload(sized[c]) = Payload(ts[c])
                              /\ Whole(sized[c]) <=> Whole(ts[c])
                              /\ sized[c].split_right = ts[c].split_right
    BY <1>2 DEF FreeOf, SameLinks, SamePieces, Payload, Whole
  <2> QED
    BY <1>3, <2>1 DEF Binned, ApartIn, WholeIn
<1>7. /\ a \in Nat \ {0} /\ ts[a].real_size \in Nat
      /\ \A c \in DOMAIN ts : ts[c].real_size \in Nat
  BY PieceIs
<1>8. /\ Callable(given') /\ DOMAIN given' = (DOMAIN given) \cup {a + TagSize}
      /\ given'[a + TagSize] = size /\ \A p \in DOMAIN given : given'[p] = given[p]
  <2>1. /\ DOMAIN given' = (DOMAIN given) \cup {a + TagSize}
        /\ given' = [p \in DOMAIN given' |-> given'[p]]
        /\ given'[a + TagSize] = size /\ \A p \in DOMAIN given : given'[p] = given[p]
    BY <1>1 DEF Added
  <2>2. a + TagSize \in Nat
    BY <1>7, SizesAssumption
  <2> QED
    BY <2>1, <2>2 DEF Callable
<1>9. ASSUME NEW vs, (DOMAIN vs) \ FreeOf(vs) = (DOMAIN ts) \ FreeOf(ts),
             vs[a].size = size, size + TagSize <= vs[a].real_size,
             \A c \in (DOMAIN ts) \ FreeOf(ts) : c # a =>
               vs[c].size = ts[c].size /\ vs[c].real_size = ts[c].real_size
      PROVE  HeldIn(vs, given', {}) /\ FitIn(vs, given')
  <2>1. \A p \in DOMAIN given : /\ p \in Nat /\ p - TagSize \in (DOMAIN ts) \ FreeOf(ts)
                                /\ p - TagSize # a
    BY <1>7, HeldIs, SizesAssumption
  <2>2. (a + TagSize) - TagSize = a
    BY <1>7, SizesAssumption
  <2>3. HeldIn(vs, given', {})
    BY <1>8, <1>9, <2>1, <2>2 DEF HeldIn
  <2>4. FitIn(vs, given')
    BY <1>8, <1>9, <2>1, <2>2 DEF FitIn
  <2> QED
    BY <2>3, <2>4
<1>10. CASE tags' = sized /\ freePages' = heads
  <2>1. HeldIn(sized, given', {}) /\ FitIn(sized, given')
    <3>1. sized[a].size = size /\ size + TagSize <= sized[a].real_size
      BY <1>2 DEF SamePieces
    <3>2. \A c \in (DOMAIN ts) \ FreeOf(ts) : c # a =>
            sized[c].size = ts[c].size /\ sized[c].real_size = ts[c].real_size
      BY <1>2 DEF SamePieces
    <3> QED
      BY <1>2, <1>3, <1>9, <3>1, <3>2
  <2> QED
    BY <1>2, <1>4, <1>5, <1>6, <1>8, <1>10, <2>1
<1>11. CASE remainder > 0 /\ tags' = us /\ freePages' = HeadsWith(heads, b, i)
  <2> DEFINE r == sized[a].split_right
  <2>1. /\ b = a + TagSize + size /\ b \in Nat \ {0} /\ a + TagSize < b
        /\ b + TagSize < a + sized[a].real_size /\ a < b /\ b < a + sized[a].real_size
    BY <1>2, <1>7, <1>11, SizesAssumption DEF SplitPlace, SamePieces
  <2>2. b \notin DOMAIN sized
    BY <1>2, <1>4, <2>1, CutPlaceFree
  <2>3. r \in (DOMAIN sized) \cup {NULL} /\ r # a /\ r \notin FreeOf(sized)
    <3>1. r = ts[a].split_right
      BY <1>2 DEF SamePieces
    <3> QED
      BY <1>2, <1>3, <1>4, <1>7, <3>1, PieceIs DEF NULL
  <2>4. /\ Typed(cut) /\ DOMAIN cut = (DOMAIN sized) \cup {b}
        /\ Cuts(sized, cut, a, b)
        /\ \A c \in DOMAIN sized : /\ cut[c].index = sized[c].index
                                   /\ cut[c].next = sized[c].next
                                   /\ cut[c].prev = sized[c].prev
                                   /\ cut[c].size = sized[c].size
    <3> HIDE DEF b
    <3> QED
      BY <1>2, <2>1, <2>2, <2>3, SplitIs DEF b
  <2>5. TiledIn(cut, blocks)
    <3> HIDE DEF b, cut
    <3> QED
      BY <1>2, <1>4, <2>1, <2>4, TiledCut
  <2> HIDE DEF b, cut
  <2>6. FreeOf(cut) = FreeOf(sized) /\ b \notin FreeOf(cut)
    BY <2>2, <2>4 DEF FreeOf, Cuts
  <2>7. ListsIn(cut, heads)
    <3>1. NoLinks(cut)
      BY <1>5, <2>4, <2>6 DEF ListsIn, NoLinks, Cuts
    <3>2. \A c \in FreeOf(sized) : /\ cut[c].index = sized[c].index
                                   /\ cut[c].next = sized[c].next /\ cut[c].prev = sized[c].prev
      BY <2>4 DEF FreeOf
    <3> QED
      BY <1>5, <2>6, <3>1, <3>2, ListsKept
  <2>8. i \in Bins
    BY BinOfInBins
  <2> HIDE DEF i
  <2>9. /\ Typed(us) /\ DOMAIN us = DOMAIN cut /\ SamePieces(cut, us) /\ SameSizes(cut, us)
        /\ LinksFirst(cut, us, b, i, heads[i])
    <3>1. b \in DOMAIN cut
      BY <2>4
    <3> QED
      BY <2>4, <2>8, <3>1, InsertedIs
  <2> HIDE DEF us
  <2>10. /\ HeadsWith(heads, b, i) \in [Bins -> Nat] /\ FreeOf(us) = FreeOf(cut) \cup {b}
         /\ ListsIn(us, HeadsWith(heads, b, i))
    <3>1. b \in (DOMAIN cut) \ FreeOf(cut)
      BY <2>4, <2>6
    <3> QED
      BY <2>4, <2>7, <2>8, <2>9, <3>1, ListsInserted
  <2>11. TiledIn(us, blocks)
    BY <2>5, <2>9, TiledKept
  <2>12. \A c \in FreeOf(sized) :
           /\ c \in DOMAIN us /\ c # b /\ c # a /\ us[c].index = sized[c].index
           /\ us[c].real_size = sized[c].real_size
           /\ us[c].split_right = sized[c].split_right
           /\ us[c].split_left = IF c = r THEN b ELSE sized[c].split_left
    BY <1>3, <2>2, <2>4, <2>9 DEF FreeOf, LinksFirst, SamePieces, Cuts
  <2>13. /\ us[b].index = i /\ us[b].real_size = cut[b].real_size
         /\ us[b].split_left = a /\ us[b].split_right = r
    BY <2>4, <2>9 DEF LinksFirst, SamePieces, Cuts
  <2>14. Binned(us)
    <3>1. \A c \in FreeOf(sized) : us[c].index = BinOf(Payload(us[c]))
      BY <1>6, <2>12 DEF Binned, Payload
    <3>2. us[b].index = BinOf(Payload(us[b]))
      BY <2>13 DEF i, Payload
    <3> QED
      BY <2>6, <2>10, <3>1, <3>2 DEF Binned
  <2>15. ApartIn(us)
    <3>1. \A c \in FreeOf(sized) : us[c].split_right \notin FreeOf(us)
      <4>1. \A c \in FreeOf(sized) : sized[c].split_right \in (DOMAIN sized) \cup {NULL}
        BY <1>2, <1>4, PieceIs DEF FreeOf
      <4> QED
        BY <1>6, <2>1, <2>2, <2>6, <2>10, <2>12, <4>1 DEF ApartIn, NULL
    <3>2. us[b].split_right \notin FreeOf(us)
      BY <2>1, <2>2, <2>3, <2>6, <2>10, <2>13 DEF NULL
    <3> QED
      BY <2>6, <2>10, <3>1, <3>2 DEF ApartIn
  <2>16. \A j \in Bins : WholeIn(us, j) = WholeIn(ts, j)
    <3>1. ~ Whole(us[b])
      BY <1>7, <2>13 DEF Whole, NULL
    <3>2. r # NULL => sized[r].split_left = a
      BY <1>2, <1>4, PieceIs
    <3>3. \A c \in FreeOf(sized) : Whole(us[c]) <=> Whole(sized[c])
      <4>1. NULL \notin FreeOf(sized)
        BY <1>2, FreeIs
      <4> QED
        BY <1>7, <2>1, <2>12, <3>2, <4>1 DEF Whole, NULL
    <3> QED
      BY <1>6, <2>6, <2>10, <2>12, <3>1, <3>3 DEF WholeIn
  <2>17. HeldIn(us, given', {}) /\ FitIn(us, given')
    <3>1. (DOMAIN us) \ FreeOf(us) = (DOMAIN ts) \ FreeOf(ts)
      BY <1>2, <1>3, <2>2, <2>4, <2>6, <2>9, <2>10
    <3>2. us[a].size = size /\ size + TagSize <= us[a].real_size
      <4>1. us[a].real_size = b - a
        BY <1>2, <2>4, <2>9 DEF SamePieces, Cuts
      <4>2. us[a].size = size
        BY <1>2, <2>4, <2>9 DEF SameSizes
      <4> QED
        BY <1>7, <2>1, <4>1, <4>2, SizesAssumption
    <3>3. \A c \in (DOMAIN ts) \ FreeOf(ts) : c # a =>
            us[c].size = ts[c].size /\ us[c].real_size = ts[c].real_size
      BY <1>2, <2>2, <2>4, <2>9 DEF SameSizes, SamePieces, Cuts
    <3> QED
      BY <1>9, <3>1, <3>2, <3>3
  <2> QED
    BY <1>8, <1>11, <2>9, <2>10, <2>11, <2>14, <2>15, <2>16, <2>17
<1> QED
  BY <1>1, <1>10, <1>11

-----------------------------------------------------------------------------
(* Every step keeps the invariant *)

LEMMA PartsNext ==
  IInv' <=> /\ Typed(tags') /\ TypeInv' /\ BlocksInv' /\ CallInv'
            /\ TiledIn(tags', owned') /\ ListsIn(tags', freePages')
            /\ Binned(tags') /\ ApartIn(tags') /\ CountedIn(tags', completePages')
            /\ HeldIn(tags', given', Passing') /\ FitIn(tags', given')
<1>1. IInv' <=> ( /\ Typed(tags) /\ TypeInv /\ BlocksInv /\ CallInv
                  /\ TiledIn(tags, owned) /\ ListsIn(tags, freePages)
                  /\ Binned(tags) /\ ApartIn(tags) /\ CountedIn(tags, completePages)
                  /\ HeldIn(tags, given, Passing) /\ FitIn(tags, given) )'
  BY Parts, PTL
<1> QED
  BY <1>1

\* Extents of different pages share no byte.
LEMMA SeparateIs ==
  ASSUME NEW blocks \in SUBSET Blocks, \A e \in blocks : PageCount <= e[2],
         \A e, f \in blocks : e # f => Pages(e) \cap Pages(f) = {}
  PROVE  Separate(blocks)
<1>1. ASSUME NEW e \in blocks
      PROVE  /\ e[1] \in Nat /\ e[2] \in Nat \ {0} /\ Start(e) < End(e)
  <2>1. e[1] \in Nat /\ e[2] \in Nat
    BY BlockBounds
  <2>2. e[2] \in Nat \ {0} /\ e[1] < e[1] + e[2]
    BY <2>1, SizesAssumption
  <2> QED
    BY <2>1, <2>2, PageOrder, SizesAssumption DEF Start, End
<1>2. ASSUME NEW e \in blocks, NEW f \in blocks, e[1] + e[2] <= f[1]
      PROVE  End(e) <= Start(f)
  BY <1>1, <1>2, PageOrder, SizesAssumption DEF Start, End
<1>3. ASSUME NEW e \in blocks, NEW f \in blocks, e # f
      PROVE  e[1] + e[2] <= f[1] \/ f[1] + f[2] <= e[1]
  <2>1. Pages(e) \cap Pages(f) = {}
    BY <1>3
  <2>2. e[1] \notin Pages(f) /\ f[1] \notin Pages(e)
    BY <1>1, <2>1 DEF Pages
  <2> QED
    BY <1>1, <2>2 DEF Pages
<1> QED
  BY <1>1, <1>2, <1>3 DEF Separate

LEMMA BlocksAre ==
  ASSUME TypeInv, BlocksInv
  PROVE  owned \in SUBSET Blocks /\ Separate(owned)
<1>1. owned \in SUBSET Blocks
  BY DEF TypeInv, Blocks
<1> QED
  BY <1>1, SeparateIs DEF BlocksInv

LEMMA InitInv == Init => IInv
<1> SUFFICES ASSUME Init
             PROVE  IInv
  OBVIOUS
<1>1. DOMAIN tags = {} /\ Addresses = {} /\ FreeOf(tags) = {} /\ DOMAIN given = {}
  BY DEF Init, Addresses, FreeOf
<1>2. /\ owned = {} /\ \A i \in Bins : freePages[i] = NULL /\ completePages[i] = 0
      /\ Passing = {} /\ pc = "idle"
  BY DEF Init, Passing
<1>3. TypeInv
  <2>1. tags \in [Addresses -> Tags] /\ given \in [DOMAIN given -> Nat \ {0}]
    BY <1>1 DEF Init
  <2>2. freePages \in [Bins -> Nat] /\ completePages \in [Bins -> Nat]
    BY DEF Init, NULL
  <2> QED
    BY <1>1, <2>1, <2>2, FS_EmptySet DEF Init, TypeInv, NULL
<1>4. Typed(tags)
  BY <1>3 DEF TypeInv, Typed, Addresses
<1>5. BlocksInv /\ CallInv
  BY <1>2 DEF BlocksInv, CallInv
<1>6. TiledIn(tags, owned)
  BY <1>1, <1>2 DEF TiledIn
<1>7. ListsIn(tags, freePages)
  BY <1>1, <1>2 DEF ListsIn, HeadsIn, NoCycle, NoLinks
<1>8. Binned(tags) /\ ApartIn(tags) /\ HeldIn(tags, given, Passing) /\ FitIn(tags, given)
  BY <1>1, <1>2 DEF Binned, ApartIn, HeldIn, FitIn
<1>9. CountedIn(tags, completePages)
  <2>1. \A i \in Bins : WholeIn(tags, i) = {}
    BY <1>1 DEF WholeIn
  <2> QED
    BY <1>2, <2>1, FS_EmptySet, SizesAssumption DEF CountedIn
<1> QED
  BY <1>3, <1>4, <1>5, <1>6, <1>7, <1>8, <1>9, Parts

\* Steps that touch no tag and no list.
LEMMA CallsKeep ==
  ASSUME IInv, UNCHANGED <<lists, pages>>, UNCHANGED given, TypeInv', CallInv', Passing' = Passing
  PROVE  IInv'
<1>1. BlocksInv'
  BY Parts DEF BlocksInv, pages
<1> QED
  BY <1>1, Parts, PartsNext DEF lists, pages

LEMMA MallocCallKeeps ==
  ASSUME IInv, NEW n \in Requests, MallocCall(n)
  PROVE  IInv'
<1>1. TypeInv /\ CallInv /\ ListsIn(tags, freePages) /\ Typed(tags)
  BY Parts
<1>2. /\ n \in Nat \ {0} /\ index' \in Bins /\ index' \in Nat /\ tag' = freePages[index']
      /\ size' = n /\ pc' = "search" /\ pc = "idle"
  BY BinOfInBins, FreeIs, RequestsAssumption, <1>1 DEF MallocCall
<1>3. tag' \in Nat /\ TypeInv'
  BY <1>1, <1>2 DEF MallocCall, TypeInv, lists, pages, Addresses
<1>4. CallInv'
  <2>1. tag' # NULL => tag' \in FreeOf(tags) /\ tags[tag'].index = index'
    BY <1>1, <1>2 DEF ListsIn, HeadsIn
  <2>2. tags' = tags /\ FreeTags' = FreeOf(tags)
    BY DEF MallocCall, lists, FreeTags, FreeOf, Addresses
  <2> QED
    BY <1>2, <2>1, <2>2 DEF CallInv
<1>5. Passing' = Passing
  BY <1>2 DEF Passing
<1> QED
  BY <1>3, <1>4, <1>5, CallsKeep DEF MallocCall

LEMMA SearchOnKeeps ==
  ASSUME IInv, SearchOn
  PROVE  IInv'
<1>1. TypeInv /\ CallInv /\ ListsIn(tags, freePages) /\ Typed(tags) /\ pc = "search"
      /\ tag # NULL /\ FreeTags = FreeOf(tags)
  BY Parts DEF SearchOn, FreeTags, FreeOf, Addresses
<1>2. tag \in FreeOf(tags) /\ tags[tag].index = index /\ size > 0 /\ index \in Bins
  BY <1>1 DEF CallInv
<1>3. tag' \in Nat /\ (tag' # NULL => tag' \in FreeOf(tags) /\ tags[tag'].index = index)
  <2>1. tag' = tags[tag].next
    BY DEF SearchOn
  <2>2. tags[tag].next \in Nat
    BY <1>1, <1>2, FreeIs
  <2> QED
    BY <1>1, <1>2, <2>1, <2>2 DEF ListsIn, Linked
<1>4. TypeInv'
  BY <1>1, <1>3 DEF SearchOn, TypeInv, lists, pages, Addresses
<1>5. CallInv'
  <2>1. tags' = tags /\ FreeTags' = FreeOf(tags) /\ pc' = pc /\ size' = size /\ index' = index
    BY DEF SearchOn, lists, FreeTags, FreeOf, Addresses
  <2> QED
    BY <1>1, <1>2, <1>3, <2>1 DEF CallInv
<1>6. Passing' = Passing
  BY <1>1 DEF Passing, SearchOn
<1> QED
  BY <1>4, <1>5, <1>6, CallsKeep DEF SearchOn

LEMMA HaltKeeps ==
  ASSUME IInv, Halt
  PROVE  IInv'
<1>1. TypeInv'
  BY Parts DEF Halt, TypeInv, lists, pages, Addresses
<1>2. CallInv' /\ Passing' = Passing
  BY DEF Halt, CallInv, Passing
<1> QED
  BY <1>1, <1>2, CallsKeep DEF Halt

LEMMA MeltLeftEndsKeeps ==
  ASSUME IInv, MeltLeftEnds
  PROVE  IInv'
<1>1. TypeInv'
  BY Parts DEF MeltLeftEnds, TypeInv, lists, pages, Addresses
<1>2. CallInv'
  BY Parts DEF MeltLeftEnds, CallInv, lists, Addresses, FreeTags, IsFree
<1>3. Passing' = Passing
  BY DEF MeltLeftEnds, Passing
<1> QED
  BY <1>1, <1>2, <1>3, CallsKeep DEF MeltLeftEnds

\* A piece taken out of its list.
LEMMA RemovedKeeps ==
  ASSUME IInv, NEW a \in FreeOf(tags), NEW us, us = Removed(tags, a),
         NEW heads, heads = HeadsWithout(tags, a)
  PROVE  /\ Typed(us) /\ DOMAIN us = DOMAIN tags /\ heads \in [Bins -> Nat]
         /\ SamePieces(tags, us) /\ SameSizes(tags, us) /\ Unlinks(tags, us, a)
         /\ FreeOf(us) = FreeOf(tags) \ {a} /\ ListsIn(us, heads)
         /\ TiledIn(us, owned) /\ Binned(us) /\ ApartIn(us)
         /\ us[a].split_right \notin FreeOf(us)
         /\ \A i \in Bins : WholeIn(us, i) = WholeIn(tags, i) \ {a}
<1>1. Typed(tags) /\ a \in DOMAIN tags /\ freePages \in [Bins -> Nat]
  BY Parts DEF FreeOf, TypeInv
<1>2. /\ Typed(us) /\ DOMAIN us = DOMAIN tags
      /\ SamePieces(tags, us) /\ SameSizes(tags, us) /\ Unlinks(tags, us, a)
  <2>1. ListsIn(tags, freePages)
    BY Parts
  <2>2. tags[a].prev # NULL => tags[a].prev # tags[a].next
    BY <1>1, <2>1, NeighboursDiffer
  <2> QED
    BY <1>1, <2>2, RemovedIs
<1>3. heads \in [Bins -> Nat] /\ FreeOf(us) = FreeOf(tags) \ {a} /\ ListsIn(us, heads)
  <2>1. ListsIn(tags, freePages)
    BY Parts
  <2> QED
    BY <1>1, <1>2, <2>1, ListsRemoved
<1>4. TiledIn(us, owned)
  BY <1>2, Parts, TiledKept
<1>5. \A c \in FreeOf(us) : /\ c \in DOMAIN us /\ us[c].index = tags[c].index
                            /\ Payload(us[c]) = Payload(tags[c])
                            /\ Whole(us[c]) <=> Whole(tags[c])
                            /\ us[c].split_right = tags[c].split_right
  BY <1>2, <1>3 DEF FreeOf, SamePieces, Payload, Whole, Unlinks
<1>6. Binned(us)
  BY <1>3, <1>5, Parts DEF Binned
<1>7. ApartIn(us) /\ us[a].split_right \notin FreeOf(us)
  BY <1>1, <1>2, <1>3, <1>5, Parts DEF ApartIn, SamePieces
<1>8. \A i \in Bins : WholeIn(us, i) = WholeIn(tags, i) \ {a}
  BY <1>3, <1>5 DEF WholeIn
<1> QED
  BY <1>2, <1>3, <1>4, <1>6, <1>7, <1>8

LEMMA WholeFinite ==
  ASSUME NEW ts, Typed(ts), NEW i
  PROVE  IsFiniteSet(WholeIn(ts, i)) /\ Cardinality(WholeIn(ts, i)) \in Nat
<1>1. WholeIn(ts, i) \subseteq DOMAIN ts
  BY DEF WholeIn, FreeOf
<1> QED
  BY <1>1, FS_Subset, FS_CardinalityType DEF Typed

\* The types of what malloc leaves when it returns.
LEMMA ReturnTypes ==
  ASSUME TypeInv, Typed(tags'), freePages' \in [Bins -> Nat], completePages' \in [Bins -> Nat],
         Callable(given'), pc' = "idle", tag' = NULL, size' \in Nat, index' \in Nat,
         pool' \subseteq HeapPages, owned' \subseteq HeapPages \X Nat
  PROVE  TypeInv' /\ CallInv' /\ Passing' = {}
<1>1. TypeInv'
  BY DEF TypeInv, Typed, Callable, Addresses, NULL
<1>2. CallInv' /\ Passing' = {}
  BY DEF CallInv, Passing
<1> QED
  BY <1>1, <1>2

LEMMA SearchHitKeeps ==
  ASSUME IInv, SearchHit
  PROVE  IInv'
<1> DEFINE ts == Removed(tags, tag)
           heads == HeadsWithout(tags, tag)
<1>1. TypeInv /\ CallInv /\ Typed(tags) /\ pc = "search" /\ tag # NULL
      /\ FreeTags = FreeOf(tags) /\ UNCHANGED pages /\ Settle(ts, heads, tag)
  BY Parts DEF SearchHit, FreeTags, FreeOf, Addresses
<1>2. tag \in FreeOf(tags) /\ tags[tag].index = index /\ size \in Nat \ {0} /\ index \in Bins
  BY <1>1 DEF CallInv, TypeInv
<1> HIDE DEF ts, heads
<1>3. /\ Typed(ts) /\ DOMAIN ts = DOMAIN tags /\ heads \in [Bins -> Nat]
      /\ SamePieces(tags, ts) /\ SameSizes(tags, ts) /\ Unlinks(tags, ts, tag)
      /\ FreeOf(ts) = FreeOf(tags) \ {tag} /\ ListsIn(ts, heads)
      /\ TiledIn(ts, owned) /\ Binned(ts) /\ ApartIn(ts)
      /\ ts[tag].split_right \notin FreeOf(ts)
      /\ \A i \in Bins : WholeIn(ts, i) = WholeIn(tags, i) \ {tag}
  BY <1>2, RemovedKeeps DEF ts, heads
<1>4. tag \in (DOMAIN ts) \ FreeOf(ts) /\ tag \in DOMAIN tags
  BY <1>2, <1>3 DEF FreeOf
<1>5. Callable(given) /\ HeldIn(tags, given, {}) /\ FitIn(tags, given)
  BY <1>1, Parts DEF TypeInv, Callable, Passing
<1>6. HeldIn(ts, given, {tag}) /\ FitIn(ts, given) /\ tag + TagSize \notin DOMAIN given
  <2>1. HeldIn(ts, given, {tag})
    BY <1>3, <1>4, <1>5, <1>2 DEF HeldIn
  <2>2. \A p \in DOMAIN given : p - TagSize \in (DOMAIN tags) \ FreeOf(tags) /\ p \in Nat
    BY <1>5, HeldIs
  <2>3. FitIn(ts, given)
    BY <1>3, <1>5, <2>2 DEF FitIn, SamePieces, SameSizes
  <2>4. (tag + TagSize) - TagSize = tag
    BY <1>1, SizesAssumption DEF TypeInv
  <2>5. tag + TagSize \notin DOMAIN given
    BY <1>2, <2>2, <2>4
  <2> QED
    BY <2>1, <2>3, <2>5
<1>7. size + TagSize <= ts[tag].real_size
  <2>1. Payload(tags[tag]) >= size + TagSize
    BY DEF SearchHit, Fits
  <2>2. tags[tag].real_size \in Nat /\ ts[tag].real_size = tags[tag].real_size
    BY <1>3, <1>4 DEF Typed, Tags, SamePieces
  <2> QED
    BY <1>2, <2>1, <2>2, SizesAssumption DEF Payload
<1>8. owned \in SUBSET Blocks
  BY Parts, BlocksAre
<1>9. /\ Typed(tags') /\ freePages' \in [Bins -> Nat] /\ Callable(given')
      /\ TiledIn(tags', owned) /\ ListsIn(tags', freePages')
      /\ Binned(tags') /\ ApartIn(tags')
      /\ \A i \in Bins : WholeIn(tags', i) = WholeIn(ts, i)
      /\ HeldIn(tags', given', {}) /\ FitIn(tags', given')
  BY <1>1, <1>2, <1>3, <1>4, <1>5, <1>6, <1>7, <1>8, SettleKeeps
<1>10. completePages' \in [Bins -> Nat] /\ CountedIn(tags', completePages')
  <2>1. CountedIn(tags, completePages) /\ completePages \in [Bins -> Nat]
    BY Parts DEF TypeInv
  <2>2. \A i \in Bins : /\ IsFiniteSet(WholeIn(tags, i))
                        /\ completePages[i] = Cardinality(WholeIn(tags, i))
                        /\ completePages[i] \in Nat /\ completePages[i] <= MaxComplete
    BY <1>1, <2>1, WholeFinite DEF CountedIn
  <2>3. \A i \in Bins : tag \in WholeIn(tags, i) <=> i = index /\ Whole(tags[tag])
    BY <1>2 DEF WholeIn
  <2>4. \A i \in Bins : completePages'[i] = IF i = index /\ Whole(tags[tag])
                                            THEN completePages[i] - 1 ELSE completePages[i]
    BY <1>2, <2>1 DEF SearchHit
  <2>5. ASSUME NEW i \in Bins
        PROVE  completePages'[i] = Cardinality(WholeIn(tags', i))
    <3>1. WholeIn(tags', i) = WholeIn(tags, i) \ {tag}
      BY <1>3, <1>9
    <3>2. CASE tag \in WholeIn(tags, i)
      <4>1. Cardinality(WholeIn(tags, i) \ {tag}) = Cardinality(WholeIn(tags, i)) - 1
        BY <2>2, <3>2, FS_RemoveElement
      <4> QED
        BY <2>2, <2>3, <2>4, <3>1, <3>2, <4>1
    <3>3. CASE tag \notin WholeIn(tags, i)
      <4>1. WholeIn(tags', i) = WholeIn(tags, i)
        BY <3>1, <3>3
      <4> QED
        BY <2>2, <2>3, <2>4, <3>3, <4>1
    <3> QED
      BY <3>2, <3>3
  <2>6. \A i \in Bins : completePages'[i] \in Nat /\ completePages'[i] <= MaxComplete
    <3>1. \A i \in Bins : completePages'[i] \in Nat
      BY <1>9, <2>5, WholeFinite
    <3> QED
      BY <2>2, <2>4, <3>1, SizesAssumption
  <2>7. completePages' = [i \in Bins |-> completePages'[i]]
    BY <2>1 DEF SearchHit
  <2> QED
    BY <2>5, <2>6, <2>7 DEF CountedIn
<1>11. TypeInv' /\ CallInv' /\ Passing' = {}
  <2>1. pc' = "idle" /\ tag' = NULL /\ size' \in Nat /\ index' \in Nat
    BY <1>1 DEF Settle
  <2>2. pool' \subseteq HeapPages /\ owned' \subseteq HeapPages \X Nat
    BY <1>1 DEF pages, TypeInv
  <2> QED
    BY <1>1, <1>9, <1>10, <2>1, <2>2, ReturnTypes
<1>12. BlocksInv' /\ owned' = owned
  BY <1>1, Parts DEF BlocksInv, pages
<1> QED
  BY <1>9, <1>10, <1>11, <1>12, PartsNext

LEMMA SearchMissKeeps ==
  ASSUME IInv, NEW p \in HeapPages, SearchMiss(p)
  PROVE  IInv'
<1> DEFINE n == PagesFor(size + TagSize)
           e == <<p, n>>
           a == p * PageSize
           t == NewBlock(e)
           ts == Added(tags, a, t)
<1>1. /\ TypeInv /\ CallInv /\ BlocksInv /\ Typed(tags) /\ pc = "search"
      /\ TakePages(e) /\ Settle(ts, freePages, a) /\ UNCHANGED completePages
      /\ TiledIn(tags, owned) /\ ListsIn(tags, freePages) /\ Binned(tags) /\ ApartIn(tags)
      /\ CountedIn(tags, completePages)
  BY Parts DEF SearchMiss
<1>2. size \in Nat \ {0} /\ p \in Nat \ {0}
  BY <1>1, PagesAssumption DEF CallInv, TypeInv
<1>3. /\ n \in Nat \ {0} /\ PageCount <= n /\ size + TagSize <= n * PageSize
      /\ n * PageSize \in Nat
  <2>1. size + TagSize \in Nat
    BY <1>2, SizesAssumption
  <2>2. n \in Nat \ {0} /\ PageCount <= n /\ size + TagSize <= n * PageSize
    BY <2>1, PagesForHolds
  <2> HIDE DEF n
  <2> QED
    BY <2>2, SizesAssumption
<1> HIDE DEF n
<1>4. e \in Blocks /\ e[1] = p /\ e[2] = n
  BY <1>3 DEF Blocks
<1>5. Pages(e) \subseteq pool /\ pool' = pool \ Pages(e) /\ owned' = owned \cup {e}
  BY <1>1 DEF TakePages
<1> HIDE DEF e
<1>6. owned' \in SUBSET Blocks /\ owned' \subseteq HeapPages \X Nat /\ pool' \subseteq HeapPages
  BY <1>1, <1>4, <1>5 DEF TypeInv, Blocks
<1>7. e \notin owned /\ \A f \in owned : Pages(e) \cap Pages(f) = {}
  <2>1. \A f \in owned : Pages(e) \cap Pages(f) = {}
    BY <1>1, <1>5 DEF BlocksInv
  <2>2. p \in Pages(e)
    BY <1>2, <1>3, <1>4 DEF Pages
  <2> QED
    BY <2>1, <2>2
<1>8. BlocksInv' /\ Separate(owned')
  <2>1. /\ \A f \in owned' : PageCount <= f[2]
        /\ \A f, g \in owned' : f # g => Pages(f) \cap Pages(g) = {}
    BY <1>1, <1>3, <1>4, <1>5, <1>7 DEF BlocksInv
  <2>2. \A f \in owned' : Pages(f) \cap pool' = {} /\ Pages(f) \subseteq HeapPages
    BY <1>1, <1>5 DEF BlocksInv, TypeInv
  <2>3. Separate(owned')
    BY <1>6, <2>1, SeparateIs
  <2> QED
    BY <2>1, <2>2, <2>3 DEF BlocksInv, Pages
<1>9. a = Start(e) /\ a \in Nat \ {0} /\ End(e) = a + n * PageSize /\ End(e) \in Nat
  BY <1>4, BlockBounds DEF Start
<1> HIDE DEF a
<1>10. \A f \in owned : End(e) <= Start(f) \/ End(f) <= Start(e)
  BY <1>5, <1>7, <1>8 DEF Separate
<1>11. owned \in SUBSET Blocks
  BY <1>1, BlocksAre
<1>12. a \notin DOMAIN tags
  <2> SUFFICES ASSUME a \in DOMAIN tags
               PROVE  FALSE
    OBVIOUS
  <2>1. PICK f \in owned : Start(f) <= a /\ a + tags[a].real_size <= End(f)
    BY <1>1 DEF TiledIn
  <2>2. tags[a].real_size \in Nat \ {0}
    BY <1>1, PieceIs, SizesAssumption
  <2>3. Start(f) \in Nat /\ End(f) \in Nat /\ n * PageSize > 0
    BY <1>2, <1>3, <1>11, BlockBounds, SizesAssumption
  <2> QED
    BY <1>3, <1>9, <1>10, <2>1, <2>2, <2>3
<1>13. t \in Tags /\ t.real_size = n * PageSize /\ t.index = -1 /\ t.next = NULL /\ t.prev = NULL
       /\ t.split_left = NULL /\ t.split_right = NULL
  BY <1>2, <1>3, <1>4 DEF NewBlock, Tags, NULL
<1> HIDE DEF t
<1>14. /\ Typed(ts) /\ DOMAIN ts = (DOMAIN tags) \cup {a}
       /\ \A c \in DOMAIN tags : ts[c] = tags[c]
       /\ ts[a] = t
  <2>1. Typed(tags)
    BY <1>1
  <2>2. Typed(ts)
    BY <1>9, <1>12, <1>13, <2>1, AddedIs
  <2> QED
    BY <1>12, <2>2 DEF Added
<1> HIDE DEF ts
<1>15. FreeOf(ts) = FreeOf(tags) /\ a \in (DOMAIN ts) \ FreeOf(ts) /\ NULL \notin FreeOf(ts)
  <2>1. NULL \notin FreeOf(tags)
    BY <1>1, FreeIs DEF FreeOf
  <2> QED
    BY <1>12, <1>13, <1>14, <2>1 DEF FreeOf
<1>16. TiledIn(ts, owned')
  <2>1. a + TagSize < End(e)
    BY <1>2, <1>3, <1>9, SizesAssumption
  <2> QED
    BY <1>1, <1>4, <1>5, <1>9, <1>10, <1>11, <1>12, <1>13, <1>14, <2>1, TiledWithBlock
<1>17. ListsIn(ts, freePages)
  <2>1. NoLinks(ts)
    BY <1>1, <1>13, <1>14, <1>15 DEF ListsIn, NoLinks
  <2>2. \A c \in FreeOf(tags) : ts[c] = tags[c]
    BY <1>14 DEF FreeOf
  <2> QED
    BY <1>1, <1>15, <2>1, <2>2, ListsKept
<1>18. Binned(ts) /\ ApartIn(ts) /\ \A i \in Bins : WholeIn(ts, i) = WholeIn(tags, i)
  <2>1. \A c \in FreeOf(tags) : ts[c] = tags[c]
    BY <1>14 DEF FreeOf
  <2> QED
    BY <1>1, <1>15, <2>1 DEF Binned, ApartIn, WholeIn
<1>19. Callable(given) /\ HeldIn(tags, given, {}) /\ FitIn(tags, given)
  BY <1>1, Parts DEF TypeInv, Callable, Passing
<1>20. HeldIn(ts, given, {a}) /\ FitIn(ts, given) /\ a + TagSize \notin DOMAIN given
  <2>1. HeldIn(ts, given, {a})
    BY <1>12, <1>14, <1>15, <1>19 DEF HeldIn
  <2>2. \A q \in DOMAIN given : q - TagSize \in DOMAIN tags /\ q \in Nat
    BY <1>19, HeldIs
  <2>3. FitIn(ts, given)
    BY <1>14, <1>19, <2>2 DEF FitIn
  <2>4. (a + TagSize) - TagSize = a
    BY <1>9, SizesAssumption
  <2> QED
    BY <1>12, <2>1, <2>2, <2>3, <2>4
<1>21. /\ freePages \in [Bins -> Nat] /\ ts[a].split_right \notin FreeOf(ts)
       /\ size + TagSize <= ts[a].real_size
  BY <1>1, <1>3, <1>13, <1>14, <1>15 DEF TypeInv
<1>22. /\ Typed(tags') /\ freePages' \in [Bins -> Nat] /\ Callable(given')
       /\ TiledIn(tags', owned') /\ ListsIn(tags', freePages')
       /\ Binned(tags') /\ ApartIn(tags')
       /\ \A i \in Bins : WholeIn(tags', i) = WholeIn(ts, i)
       /\ HeldIn(tags', given', {}) /\ FitIn(tags', given')
  <2> DEFINE blocks == owned'
  <2>1. blocks \in SUBSET Blocks /\ TiledIn(ts, blocks)
    BY <1>6, <1>16
  <2>2. /\ Typed(tags') /\ freePages' \in [Bins -> Nat] /\ Callable(given')
        /\ TiledIn(tags', blocks) /\ ListsIn(tags', freePages')
        /\ Binned(tags') /\ ApartIn(tags')
        /\ \A i \in Bins : WholeIn(tags', i) = WholeIn(ts, i)
        /\ HeldIn(tags', given', {}) /\ FitIn(tags', given')
    <3> HIDE DEF blocks
    <3> QED
      BY <1>1, <1>2, <1>14, <1>15, <1>17, <1>18, <1>19, <1>20, <1>21, <2>1, SettleKeeps
  <2> QED
    BY <2>2
<1>23. CountedIn(tags', completePages') /\ completePages' \in [Bins -> Nat]
  BY <1>1, <1>18, <1>22 DEF CountedIn, TypeInv
<1>24. TypeInv' /\ CallInv' /\ Passing' = {}
  <2>1. pc' = "idle" /\ tag' = NULL /\ size' \in Nat /\ index' \in Nat
    BY <1>1 DEF Settle
  <2> QED
    BY <1>1, <1>6, <1>22, <1>23, <2>1, ReturnTypes
<1> QED
  BY <1>8, <1>22, <1>23, <1>24, PartsNext

LEMMA FreeCallKeeps ==
  ASSUME IInv, NEW a \in DOMAIN given, FreeCall(a)
  PROVE  IInv'
<1>1. /\ TypeInv /\ Typed(tags) /\ pc = "idle" /\ pc' = "left" /\ tag' = a - TagSize
      /\ UNCHANGED <<lists, size, index, pages>>
      /\ given' = Restrict(given, DOMAIN given \ {a})
      /\ HeldIn(tags, given, {}) /\ FitIn(tags, given)
  BY Parts DEF FreeCall, Passing
<1>2. Callable(given)
  BY <1>1 DEF TypeInv, Callable
<1>3. /\ DOMAIN given' = DOMAIN given \ {a} /\ Callable(given')
      /\ \A p \in DOMAIN given' : given'[p] = given[p]
  <2>1. given' = [p \in DOMAIN given \ {a} |-> given[p]]
    BY <1>1 DEF Restrict
  <2>2. given \in [DOMAIN given -> Nat \ {0}] /\ DOMAIN given \subseteq Nat
    BY <1>2 DEF Callable
  <2>3. given' \in [DOMAIN given \ {a} -> Nat \ {0}] /\ DOMAIN given' = DOMAIN given \ {a}
    BY <2>1, <2>2
  <2> QED
    BY <2>1, <2>2, <2>3 DEF Callable
<1>4. /\ a \in Nat /\ a - TagSize \in (DOMAIN tags) \ FreeOf(tags) /\ a - TagSize \in Nat \ {0}
      /\ (a - TagSize) + TagSize = a
      /\ \A p \in DOMAIN given : p \in Nat
  <2>1. /\ a \in Nat /\ a - TagSize \in (DOMAIN tags) \ FreeOf(tags)
        /\ \A p \in DOMAIN given : p \in Nat
    BY <1>1, <1>2, HeldIs
  <2>2. a - TagSize \in Nat \ {0}
    BY <1>1, <2>1 DEF Typed
  <2> QED
    BY <2>1, <2>2, SizesAssumption
<1>5. TypeInv'
  BY <1>1, <1>3, <1>4 DEF TypeInv, Callable, lists, pages, Addresses
<1>6. CallInv'
  <2>1. Addresses' = DOMAIN tags /\ FreeTags' = FreeOf(tags)
    BY <1>1 DEF lists, Addresses, FreeTags, FreeOf
  <2> QED
    BY <1>1, <1>3, <1>4, <2>1 DEF CallInv
<1>7. HeldIn(tags, given', Passing') /\ FitIn(tags, given')
  <2>1. Passing' = {a - TagSize}
    BY <1>1 DEF Passing
  <2>2. HeldIn(tags, given', Passing')
    BY <1>1, <1>3, <2>1 DEF HeldIn
  <2>3. FitIn(tags, given')
    BY <1>1, <1>3 DEF FitIn
  <2> QED
    BY <2>2, <2>3
<1>8. tags' = tags /\ freePages' = freePages /\ completePages' = completePages /\ owned' = owned
      /\ pool' = pool
  BY <1>1 DEF lists, pages
<1>9. BlocksInv'
  BY <1>8, Parts DEF BlocksInv
<1> QED
  BY <1>5, <1>6, <1>7, <1>8, <1>9, Parts, PartsNext

\* What free does to the pieces when it melts a and its right neighbour r,
\* one of which was free and the other not: a is in no list then.
LEMMA MeltKeeps ==
  ASSUME IInv, pc \in {"left", "right"}, NEW a \in DOMAIN tags, NEW r,
         r = tags[a].split_right, r # NULL,
         (a = tag /\ r \in FreeOf(tags)) \/ (r = tag /\ a \in FreeOf(tags)),
         NEW us, Typed(us), DOMAIN us = (DOMAIN tags) \ {r}, Joins(tags, us, a, r),
         SameSizes(tags, us), FreeOf(us) = FreeOf(tags) \ {a, r},
         \A c \in FreeOf(us) : us[c].index = tags[c].index
  PROVE  /\ TiledIn(us, owned) /\ Binned(us) /\ ApartIn(us)
         /\ \A i \in Bins : WholeIn(us, i) = WholeIn(tags, i)
         /\ HeldIn(us, given, {a}) /\ FitIn(us, given) /\ a + TagSize \notin DOMAIN given
<1>1. /\ TypeInv /\ CallInv /\ BlocksInv /\ Typed(tags)
      /\ TiledIn(tags, owned) /\ Binned(tags) /\ ApartIn(tags)
      /\ HeldIn(tags, given, {tag}) /\ FitIn(tags, given) /\ Callable(given)
      /\ owned \in SUBSET Blocks /\ Separate(owned)
  BY Parts, BlocksAre DEF Passing, TypeInv, Callable
<1>2. TiledIn(us, owned)
  BY <1>1, TiledJoined
<1>3. /\ r \in DOMAIN tags /\ r # a /\ tags[r].split_left = a /\ a # NULL
      /\ tags[r].split_right \in (DOMAIN tags) \cup {NULL}
  BY <1>1, PieceIs DEF NULL
<1> DEFINE s == tags[r].split_right
<1>4. s # NULL => s \in DOMAIN tags /\ tags[s].split_left = r /\ s # r
  BY <1>1, <1>3, PieceIs
<1>5. \A c \in DOMAIN us :
        /\ us[c].real_size = IF c = a THEN tags[a].real_size + tags[r].real_size
                             ELSE tags[c].real_size
        /\ us[c].split_left = IF c = s THEN a ELSE tags[c].split_left
        /\ us[c].split_right = IF c = a THEN s ELSE tags[c].split_right
  BY DEF Joins
<1>6. \A c \in FreeOf(us) : c \in FreeOf(tags) /\ c \in DOMAIN us /\ c # a /\ c # r /\ c # NULL
  BY <1>1, FreeIs DEF FreeOf
<1>7. Binned(us)
  BY <1>1, <1>5, <1>6 DEF Binned, Payload
<1>8. ApartIn(us)
  BY <1>1, <1>5, <1>6 DEF ApartIn
<1>9. ASSUME NEW i \in Bins
      PROVE  WholeIn(us, i) = WholeIn(tags, i)
  <2>1. \A c \in FreeOf(us) : Whole(us[c]) <=> Whole(tags[c])
    BY <1>3, <1>4, <1>5, <1>6 DEF Whole, NULL
  <2>2. ~ Whole(tags[a]) /\ ~ Whole(tags[r])
    BY <1>3 DEF Whole, NULL
  <2> QED
    BY <1>6, <2>1, <2>2 DEF WholeIn
<1>10. tag + TagSize \notin DOMAIN given /\ tag \in DOMAIN tags /\ tag \notin FreeOf(tags)
  BY <1>1 DEF CallInv, FreeTags, FreeOf, Addresses
<1>11. HeldIn(us, given, {a})
  <2>1. (DOMAIN us) \ FreeOf(us) = (((DOMAIN tags) \ FreeOf(tags)) \ {tag}) \cup {a}
    BY <1>3, <1>10
  <2>2. \A p \in DOMAIN given : p - TagSize # tag
    BY <1>1, <1>10, HeldIs, SizesAssumption DEF TypeInv
  <2> QED
    BY <1>1, <2>1, <2>2 DEF HeldIn
<1>12. \A p \in DOMAIN given : p \in Nat /\ p - TagSize \in (DOMAIN tags) \ FreeOf(tags)
                               /\ p - TagSize # tag
  BY <1>1, <1>10, HeldIs, SizesAssumption DEF TypeInv
<1>13. a + TagSize \notin DOMAIN given
  <2>1. (a + TagSize) - TagSize = a
    BY <1>1, PieceIs, SizesAssumption
  <2> QED
    BY <1>12, <2>1
<1>14. FitIn(us, given)
  <2>1. \A p \in DOMAIN given : p - TagSize \in DOMAIN us /\ p - TagSize # a
    BY <1>12
  <2> QED
    BY <1>1, <1>5, <2>1 DEF FitIn, SameSizes
<1> QED
  BY <1>2, <1>7, <1>8, <1>9, <1>11, <1>13, <1>14

\* Types while free is at work.
LEMMA FreeTypes ==
  ASSUME IInv, Typed(tags'), freePages' \in [Bins -> Nat], tag' \in DOMAIN tags',
         pc \in {"left", "right"}, pc' = pc,
         UNCHANGED <<completePages, size, index, given, pages>>
  PROVE  TypeInv'
<1>1. TypeInv /\ tag' \in Nat
  BY Parts DEF Typed
<1> QED
  BY <1>1 DEF TypeInv, Typed, pages, Addresses

LEMMA MeltLeftKeeps ==
  ASSUME IInv, MeltLeft
  PROVE  IInv'
<1> DEFINE l == tags[tag].split_left
           melted == Joined(tags, l, tag)
           us == Removed(melted, l)
<1>1. /\ TypeInv /\ CallInv /\ Typed(tags) /\ BlocksInv
      /\ TiledIn(tags, owned) /\ ListsIn(tags, freePages) /\ CountedIn(tags, completePages)
      /\ pc = "left" /\ pc' = "left" /\ tag' = l /\ IsFree(l) /\ tags' = us
      /\ freePages' = HeadsWithout(melted, l)
      /\ UNCHANGED <<completePages, size, index, given, pages>>
  BY Parts DEF MeltLeft
<1>2. tag \in DOMAIN tags /\ tag \notin FreeOf(tags)
  BY <1>1 DEF CallInv, FreeTags, FreeOf, Addresses
<1>3. /\ l \in FreeOf(tags) /\ l \in DOMAIN tags /\ l # tag /\ tags[l].split_right = tag
      /\ tags[tag].split_right \in (DOMAIN tags) \cup {NULL} /\ tag # NULL /\ l # NULL
  BY <1>1, <1>2, PieceIs DEF IsFree, FreeOf, NULL
<1> HIDE DEF l
<1>4. /\ Typed(melted) /\ DOMAIN melted = (DOMAIN tags) \ {tag}
      /\ Joins(tags, melted, l, tag)
      /\ SameLinks(tags, melted) /\ SameSizes(tags, melted)
  BY <1>1, <1>2, <1>3, JoinedIs
<1> HIDE DEF melted
<1>5. FreeOf(melted) = FreeOf(tags) /\ l \in FreeOf(melted) /\ l \in DOMAIN melted
  BY <1>2, <1>3, <1>4 DEF FreeOf, SameLinks
<1>6. ListsIn(melted, freePages)
  <2>1. NoLinks(melted)
    BY <1>1, <1>4, <1>5 DEF ListsIn, NoLinks, SameLinks
  <2>2. \A c \in FreeOf(tags) : /\ melted[c].index = tags[c].index
                                /\ melted[c].next = tags[c].next /\ melted[c].prev = tags[c].prev
    BY <1>4, <1>5 DEF FreeOf, SameLinks
  <2> QED
    BY <1>1, <1>5, <2>1, <2>2, ListsKept
<1>7. /\ Typed(us) /\ DOMAIN us = DOMAIN melted
      /\ SamePieces(melted, us) /\ SameSizes(melted, us) /\ Unlinks(melted, us, l)
  <2>1. melted[l].prev # NULL => melted[l].prev # melted[l].next
    BY <1>4, <1>5, <1>6, NeighboursDiffer
  <2> QED
    BY <1>4, <1>5, <2>1, RemovedIs
<1> HIDE DEF us
<1>8. freePages' \in [Bins -> Nat] /\ FreeOf(us) = FreeOf(melted) \ {l} /\ ListsIn(us, freePages')
  <2>1. freePages \in [Bins -> Nat]
    BY <1>1 DEF TypeInv
  <2>2. freePages' = HeadsWithout(melted, l)
    BY <1>1
  <2> QED
    BY <1>4, <1>5, <1>6, <1>7, <2>1, <2>2, ListsRemoved
<1>9. /\ TiledIn(us, owned) /\ Binned(us) /\ ApartIn(us)
      /\ \A i \in Bins : WholeIn(us, i) = WholeIn(tags, i)
      /\ HeldIn(us, given, {l}) /\ FitIn(us, given) /\ l + TagSize \notin DOMAIN given
  <2>1. Joins(tags, us, l, tag) /\ SameSizes(tags, us)
    BY <1>4, <1>7 DEF Joins, SamePieces, SameSizes
  <2>2. FreeOf(us) = FreeOf(tags) \ {l, tag}
    BY <1>2, <1>5, <1>8
  <2>3. \A c \in FreeOf(us) : us[c].index = tags[c].index
    BY <1>2, <1>4, <1>5, <1>7, <1>8 DEF Unlinks, SameLinks, FreeOf
  <2>4. DOMAIN us = (DOMAIN tags) \ {tag}
    BY <1>4, <1>7
  <2> QED
    BY <1>1, <1>3, <1>7, <2>1, <2>2, <2>3, <2>4, MeltKeeps
<1>10. TypeInv'
  BY <1>1, <1>5, <1>7, <1>8, FreeTypes
<1>11. CallInv'
  <2>1. FreeTags' = FreeOf(us) /\ Addresses' = DOMAIN us
    BY <1>1 DEF FreeTags, FreeOf, Addresses
  <2> QED
    BY <1>1, <1>5, <1>7, <1>8, <1>9, <2>1 DEF CallInv
<1>12. Passing' = {l} /\ BlocksInv' /\ owned' = owned /\ given' = given
       /\ completePages' = completePages
  BY <1>1 DEF Passing, BlocksInv, pages
<1>13. CountedIn(us, completePages)
  BY <1>1, <1>9 DEF CountedIn
<1> QED
  BY <1>1, <1>7, <1>8, <1>9, <1>10, <1>11, <1>12, <1>13, PartsNext

LEMMA AbsorbRightKeeps ==
  ASSUME IInv, AbsorbRight
  PROVE  IInv'
<1> DEFINE r == tags[tag].split_right
           ts == Removed(tags, r)
           us == Joined(ts, tag, r)
<1>1. /\ TypeInv /\ CallInv /\ Typed(tags) /\ BlocksInv
      /\ TiledIn(tags, owned) /\ ListsIn(tags, freePages) /\ CountedIn(tags, completePages)
      /\ pc = "right" /\ pc' = "right" /\ tag' = tag /\ IsFree(r) /\ tags' = us
      /\ freePages' = HeadsWithout(tags, r)
      /\ UNCHANGED <<completePages, size, index, given, pages>>
  BY Parts DEF AbsorbRight
<1>2. tag \in DOMAIN tags /\ tag \notin FreeOf(tags) /\ ~ IsFree(tags[tag].split_left)
  BY <1>1 DEF CallInv, FreeTags, FreeOf, Addresses
<1>3. /\ r \in FreeOf(tags) /\ r \in DOMAIN tags /\ r # tag /\ r # NULL
      /\ tags[r].split_right \in (DOMAIN tags) \cup {NULL}
  <2>1. r \in FreeOf(tags) /\ r \in DOMAIN tags /\ r # tag /\ r # NULL
    BY <1>1, <1>2, PieceIs DEF IsFree, FreeOf, NULL
  <2> HIDE DEF r
  <2> QED
    BY <1>1, <2>1, PieceIs
<1>4. tags[tag].split_right = r /\ tags[r].split_right # r
  <2> HIDE DEF r
  <2>1. tags[tag].split_right = r
    BY DEF r
  <2> QED
    BY <1>1, <1>3, <2>1, PieceIs DEF NULL
<1> HIDE DEF r
<1>5. /\ Typed(ts) /\ DOMAIN ts = DOMAIN tags /\ freePages' \in [Bins -> Nat]
      /\ SamePieces(tags, ts) /\ SameSizes(tags, ts) /\ Unlinks(tags, ts, r)
      /\ FreeOf(ts) = FreeOf(tags) \ {r} /\ ListsIn(ts, freePages')
  BY <1>1, <1>3, RemovedKeeps
<1> HIDE DEF ts
<1>6. /\ Typed(us) /\ DOMAIN us = (DOMAIN ts) \ {r}
      /\ Joins(ts, us, tag, r)
      /\ SameLinks(ts, us) /\ SameSizes(ts, us)
  <2>1. ts[r].split_right \in (DOMAIN ts) \cup {NULL}
    BY <1>3, <1>5 DEF SamePieces
  <2> QED
    BY <1>2, <1>3, <1>5, <2>1, JoinedIs
<1> HIDE DEF us
<1>7. FreeOf(us) = FreeOf(ts)
  BY <1>5, <1>6 DEF FreeOf, SameLinks
<1>8. ListsIn(us, freePages')
  <2>1. NoLinks(us)
    BY <1>5, <1>6, <1>7 DEF ListsIn, NoLinks, SameLinks
  <2>2. \A c \in FreeOf(ts) : /\ us[c].index = ts[c].index
                              /\ us[c].next = ts[c].next /\ us[c].prev = ts[c].prev
    BY <1>6, <1>7 DEF FreeOf, SameLinks
  <2> QED
    BY <1>5, <1>7, <2>1, <2>2, ListsKept
<1>9. /\ TiledIn(us, owned) /\ Binned(us) /\ ApartIn(us)
      /\ \A i \in Bins : WholeIn(us, i) = WholeIn(tags, i)
      /\ HeldIn(us, given, {tag}) /\ FitIn(us, given) /\ tag + TagSize \notin DOMAIN given
  <2>1. Joins(tags, us, tag, r) /\ SameSizes(tags, us)
    BY <1>2, <1>3, <1>5, <1>6 DEF Joins, SamePieces, SameSizes
  <2>2. FreeOf(us) = FreeOf(tags) \ {tag, r}
    BY <1>2, <1>5, <1>7
  <2>3. \A c \in FreeOf(us) : us[c].index = tags[c].index
    BY <1>5, <1>6, <1>7 DEF Unlinks, SameLinks, FreeOf
  <2>4. DOMAIN us = (DOMAIN tags) \ {r}
    BY <1>5, <1>6
  <2> QED
    <3> DEFINE a == tag
    <3>1. /\ pc \in {"left", "right"} /\ a \in DOMAIN tags
          /\ r = tags[a].split_right /\ r # NULL /\ Typed(us)
          /\ ((a = tag /\ r \in FreeOf(tags)) \/ (r = tag /\ a \in FreeOf(tags)))
      <4>1. pc \in {"left", "right"}
        BY <1>1
      <4> QED
        BY <1>2, <1>3, <1>4, <1>6, <4>1
    <3>2. /\ Joins(tags, us, a, r) /\ SameSizes(tags, us) /\ FreeOf(us) = FreeOf(tags) \ {a, r}
          /\ DOMAIN us = (DOMAIN tags) \ {r}
          /\ \A c \in FreeOf(us) : us[c].index = tags[c].index
      BY <2>1, <2>2, <2>3, <2>4
    <3> HIDE DEF a
    <3>3. /\ TiledIn(us, owned) /\ Binned(us) /\ ApartIn(us)
          /\ \A i \in Bins : WholeIn(us, i) = WholeIn(tags, i)
          /\ HeldIn(us, given, {a}) /\ FitIn(us, given) /\ a + TagSize \notin DOMAIN given
      BY <3>1, <3>2, MeltKeeps
    <3> QED
      BY <3>3 DEF a
<1>10. tag' \in DOMAIN us
  BY <1>1, <1>2, <1>3, <1>5, <1>6
<1>11. TypeInv'
  BY <1>1, <1>5, <1>6, <1>10, FreeTypes
<1>12. CallInv'
  <2>1. FreeTags' = FreeOf(us) /\ Addresses' = DOMAIN us
    BY <1>1 DEF FreeTags, FreeOf, Addresses
  <2>2. ~ (us[tag].split_left # NULL /\ us[us[tag].split_left].index >= 0)
    <3> SUFFICES ASSUME us[tag].split_left # NULL, us[us[tag].split_left].index >= 0
                 PROVE  FALSE
      OBVIOUS
    <3>1. us[tag].split_left \in FreeOf(us)
      <4>1. us[tag].split_left \in DOMAIN us
        BY <1>1, <1>9, <1>10 DEF TiledIn
      <4> QED
        BY <4>1 DEF FreeOf
    <3>2. us[tag].split_left = tags[tag].split_left
      <4>1. tag # tags[r].split_right
        <5>1. tags[tag].split_right = r
          BY <1>4
        <5>2. r = tag + tags[tag].real_size /\ tag < tag + tags[tag].real_size /\ tag \in Nat
          BY <1>1, <1>2, <1>3, <5>1, PieceIs
        <5>3. tags[r].split_right # NULL => r < tags[r].split_right /\ r \in Nat
          BY <1>1, <1>3, PieceIs
        <5>4. tag # NULL
          BY <1>1, <1>2, PieceIs DEF NULL
        <5> QED
          BY <5>2, <5>3, <5>4
      <4> QED
        BY <1>1, <1>2, <1>3, <1>5, <1>6, <1>10, <4>1 DEF Joins, SamePieces
    <3>3. tags[tag].split_left \in FreeOf(tags)
      BY <1>5, <1>7, <3>1, <3>2
    <3> QED
      BY <1>1, <1>2, <3>2, <3>3 DEF IsFree, FreeOf
  <2>3. ~ IsFree(tags[tag].split_left)'
    BY <1>1, <2>2 DEF IsFree
  <2> QED
    BY <1>1, <1>2, <1>7, <1>5, <1>9, <1>10, <2>1, <2>3 DEF CallInv
<1>13. Passing' = {tag} /\ BlocksInv' /\ owned' = owned /\ given' = given
       /\ completePages' = completePages
  BY <1>1 DEF Passing, BlocksInv, pages
<1>14. CountedIn(us, completePages)
  BY <1>1, <1>9 DEF CountedIn
<1> QED
  BY <1>1, <1>6, <1>5, <1>8, <1>9, <1>11, <1>12, <1>13, <1>14, PartsNext

\* The extent free computes from a whole piece is the one it came in.
LEMMA ExtentIs ==
  ASSUME IInv, NEW a \in DOMAIN tags, Whole(tags[a])
  PROVE  /\ Extent(a) \in owned /\ a = Start(Extent(a))
         /\ tags[a].real_size = Extent(a)[2] * PageSize
<1>1. /\ Typed(tags) /\ TiledIn(tags, owned) /\ BlocksInv /\ owned \in SUBSET Blocks
  BY Parts, BlocksAre
<1>2. PICK e \in owned : a = Start(e) /\ tags[a].real_size = e[2] * PageSize
  BY <1>1, WholeBlock
<1>3. e[1] \in Nat /\ e[2] \in Nat /\ PageCount <= e[2] /\ e = <<e[1], e[2]>>
  BY <1>1, BlockBounds DEF BlocksInv, Blocks
<1>4. a \div PageSize = e[1]
  <2>1. a = e[1] * PageSize /\ a \in Nat /\ (e[1] + 1) * PageSize = e[1] * PageSize + PageSize
    BY <1>2, <1>3, SizesAssumption DEF Start
  <2>2. e[1] * PageSize <= a /\ a < (e[1] + 1) * PageSize
    BY <2>1, SizesAssumption
  <2> QED
    BY <1>3, <2>1, <2>2, PageOf
<1>5. PagesFor(tags[a].real_size) = e[2]
  BY <1>2, <1>3, PagesForWhole
<1>6. Extent(a) = e
  BY <1>3, <1>4, <1>5 DEF Extent
<1> QED
  BY <1>2, <1>6

LEMMA RestTyped ==
  ASSUME NEW ts, Typed(ts), NEW a, NEW us, us = Restrict(ts, (DOMAIN ts) \ {a})
  PROVE  /\ Typed(us) /\ DOMAIN us = (DOMAIN ts) \ {a}
         /\ \A c \in DOMAIN us : us[c] = ts[c]
<1>1. us = [c \in (DOMAIN ts) \ {a} |-> ts[c]]
  BY DEF Restrict
<1>2. IsFiniteSet((DOMAIN ts) \ {a})
  BY FS_RemoveElement DEF Typed
<1> QED
  BY <1>1, <1>2 DEF Typed

LEMMA GiveBackKeeps ==
  ASSUME IInv, GiveBack
  PROVE  IInv'
<1> DEFINE e == Extent(tag)
<1>1. /\ TypeInv /\ CallInv /\ Typed(tags) /\ BlocksInv
      /\ TiledIn(tags, owned) /\ ListsIn(tags, freePages) /\ CountedIn(tags, completePages)
      /\ Binned(tags) /\ ApartIn(tags)
      /\ pc = "right" /\ Whole(tags[tag]) /\ ReturnPages(e)
      /\ tags' = Restrict(tags, DOMAIN tags \ {tag}) /\ Returned
      /\ UNCHANGED <<freePages, completePages, size, index, given>>
  BY Parts DEF GiveBack, Melted, Surplus
<1>2. tag \in DOMAIN tags /\ tag \notin FreeOf(tags) /\ tag + TagSize \notin DOMAIN given
  BY <1>1 DEF CallInv, FreeTags, FreeOf, Addresses
<1>3. e \in owned /\ tag = Start(e) /\ tags[tag].real_size = e[2] * PageSize
  BY <1>1, <1>2, ExtentIs
<1> HIDE DEF e
<1>4. pool' = pool \cup Pages(e) /\ owned' = owned \ {e}
  BY <1>1 DEF ReturnPages
<1>5. /\ Typed(tags') /\ DOMAIN tags' = (DOMAIN tags) \ {tag}
      /\ \A c \in DOMAIN tags' : tags'[c] = tags[c]
  <2> DEFINE us == tags'
  <2>1. Typed(tags) /\ us = Restrict(tags, (DOMAIN tags) \ {tag})
    BY <1>1
  <2> HIDE DEF us
  <2>2. /\ Typed(us) /\ DOMAIN us = (DOMAIN tags) \ {tag}
        /\ \A c \in DOMAIN us : us[c] = tags[c]
    BY <2>1, RestTyped
  <2> QED
    BY <2>2 DEF us
<1>6. owned \in SUBSET Blocks /\ Separate(owned)
  BY <1>1, BlocksAre
<1>7. TiledIn(tags', owned')
  <2>1. SamePieces(tags, tags')
    BY <1>5 DEF SamePieces
  <2> QED
    BY <1>1, <1>2, <1>3, <1>4, <1>5, <1>6, <2>1, TiledWithout
<1>8. FreeOf(tags') = FreeOf(tags)
  BY <1>2, <1>5 DEF FreeOf
<1>9. \A c \in FreeOf(tags) : c \in DOMAIN tags' /\ tags'[c] = tags[c]
  BY <1>2, <1>5 DEF FreeOf
<1>10. ListsIn(tags', freePages')
  <2>1. NoLinks(tags')
    BY <1>1, <1>5, <1>8 DEF ListsIn, NoLinks
  <2> QED
    BY <1>1, <1>8, <1>9, <2>1, ListsKept
<1>11. Binned(tags') /\ ApartIn(tags') /\ CountedIn(tags', completePages')
  <2>1. Binned(tags') /\ ApartIn(tags')
    BY <1>1, <1>8, <1>9 DEF Binned, ApartIn
  <2>2. \A i \in Bins : WholeIn(tags', i) = WholeIn(tags, i)
    BY <1>8, <1>9 DEF WholeIn
  <2> QED
    BY <1>1, <2>1, <2>2 DEF CountedIn
<1>12. Callable(given) /\ HeldIn(tags, given, {tag}) /\ FitIn(tags, given)
  BY <1>1, Parts DEF TypeInv, Callable, Passing
<1>13. \A p \in DOMAIN given : p - TagSize \in (DOMAIN tags) \ FreeOf(tags) /\ p - TagSize # tag
  BY <1>1, <1>2, <1>12, HeldIs, SizesAssumption DEF TypeInv
<1>14. HeldIn(tags', given', {}) /\ FitIn(tags', given')
  <2>1. HeldIn(tags', given', {})
    BY <1>1, <1>2, <1>5, <1>8, <1>12, <1>13 DEF HeldIn
  <2>2. FitIn(tags', given')
    BY <1>1, <1>5, <1>12, <1>13 DEF FitIn
  <2> QED
    BY <2>1, <2>2
<1>15. owned' \subseteq HeapPages \X Nat /\ pool' \subseteq HeapPages
  <2>1. Pages(e) \subseteq HeapPages
    BY <1>1, <1>3 DEF BlocksInv
  <2> QED
    BY <1>1, <1>4, <2>1 DEF TypeInv
<1>16. TypeInv' /\ CallInv' /\ Passing' = {}
  <2>1. pc' = "idle" /\ tag' = NULL /\ size' \in Nat /\ index' \in Nat
    BY <1>1 DEF Returned, TypeInv
  <2>2. freePages' \in [Bins -> Nat] /\ completePages' \in [Bins -> Nat] /\ Callable(given')
    BY <1>1, <1>12 DEF TypeInv
  <2> QED
    BY <1>1, <1>5, <1>15, <2>1, <2>2, ReturnTypes
<1>17. BlocksInv'
  <2>1. \A f \in owned' : f \in owned /\ f # e
    BY <1>4
  <2>2. \A f \in owned' : /\ PageCount <= f[2] /\ Pages(f) \subseteq HeapPages
                          /\ Pages(f) \cap pool' = {}
    BY <1>1, <1>3, <1>4, <2>1 DEF BlocksInv
  <2> QED
    BY <1>1, <2>1, <2>2 DEF BlocksInv, Pages
<1> QED
  BY <1>5, <1>7, <1>10, <1>11, <1>14, <1>16, <1>17, PartsNext

LEMMA KeepKeeps ==
  ASSUME IInv, Keep
  PROVE  IInv'
<1> DEFINE a == tag
           i == Place
           us == Inserted(tags, freePages, a, i)
<1>1. /\ TypeInv /\ CallInv /\ Typed(tags) /\ BlocksInv
      /\ TiledIn(tags, owned) /\ ListsIn(tags, freePages) /\ CountedIn(tags, completePages)
      /\ Binned(tags) /\ ApartIn(tags)
      /\ pc = "right" /\ ~ IsFree(tags[a].split_right) /\ Returned
      /\ tags' = us /\ freePages' = HeadsWith(freePages, a, i)
      /\ UNCHANGED <<size, index, given, pages>>
  BY Parts DEF Keep, Melted
<1>2. /\ a \in DOMAIN tags /\ a \notin FreeOf(tags) /\ a + TagSize \notin DOMAIN given
      /\ ~ IsFree(tags[a].split_left)
  BY <1>1 DEF CallInv, FreeTags, FreeOf, Addresses
<1>3. i \in Bins /\ i = BinOf(Payload(tags[a]))
  BY BinOfInBins DEF Place
<1>4. freePages \in [Bins -> Nat] /\ completePages \in [Bins -> Nat]
  BY <1>1 DEF TypeInv
<1>5. /\ Callable(given) /\ HeldIn(tags, given, {a}) /\ FitIn(tags, given)
  BY <1>1, Parts DEF TypeInv, Callable, Passing
<1>6. completePages' = IF Whole(tags[a]) THEN [completePages EXCEPT ![i] = @ + 1]
                       ELSE completePages
  BY DEF Keep
<1>7. Whole(tags[a]) => completePages[i] # MaxComplete
  BY DEF Keep, Surplus
<1> HIDE DEF a, i
<1>8. /\ Typed(us) /\ DOMAIN us = DOMAIN tags
      /\ SamePieces(tags, us) /\ SameSizes(tags, us)
      /\ LinksFirst(tags, us, a, i, freePages[i])
  BY <1>1, <1>2, <1>3, <1>4, InsertedIs
<1> HIDE DEF us
<1>9. /\ HeadsWith(freePages, a, i) \in [Bins -> Nat]
      /\ FreeOf(us) = FreeOf(tags) \cup {a}
      /\ ListsIn(us, HeadsWith(freePages, a, i))
  <2>1. Typed(tags) /\ ListsIn(tags, freePages) /\ a \in (DOMAIN tags) \ FreeOf(tags)
    BY <1>1, <1>2
  <2> QED
    BY <1>3, <1>4, <1>8, <2>1, ListsInserted
<1>10. TiledIn(us, owned)
  BY <1>1, <1>8, TiledKept
<1>11. /\ us[a].index = i /\ Payload(us[a]) = Payload(tags[a])
       /\ Whole(us[a]) <=> Whole(tags[a])
       /\ us[a].split_right = tags[a].split_right
       /\ \A c \in FreeOf(tags) : /\ c \in DOMAIN us /\ c # a /\ us[c].index = tags[c].index
                                  /\ Payload(us[c]) = Payload(tags[c])
                                  /\ Whole(us[c]) <=> Whole(tags[c])
                                  /\ us[c].split_right = tags[c].split_right
  BY <1>2, <1>8 DEF FreeOf, SamePieces, LinksFirst, Payload, Whole
<1>12. Binned(us)
  BY <1>1, <1>3, <1>9, <1>11 DEF Binned
<1>13. ApartIn(us)
  <2>1. us[a].split_right \notin FreeOf(us)
    <3>1. tags[a].split_right # a
      BY <1>1, <1>2, PieceIs DEF NULL
    <3>2. tags[a].split_right \notin FreeOf(tags)
      <4>1. NULL \notin FreeOf(tags)
        BY <1>1, FreeIs DEF FreeOf
      <4> QED
        BY <1>1, <4>1 DEF IsFree, FreeOf
    <3> QED
      BY <1>9, <1>11, <3>1, <3>2
  <2>2. ASSUME NEW c \in FreeOf(tags)
        PROVE  us[c].split_right \notin FreeOf(us)
    <3>1. tags[c].split_right # a
      <4> SUFFICES ASSUME tags[c].split_right = a
                   PROVE  FALSE
        OBVIOUS
      <4>1. c \in DOMAIN tags /\ c # NULL /\ a # NULL
        BY <1>1, <1>2, FreeIs DEF FreeOf
      <4>2. tags[a].split_left = c
        BY <1>1, <4>1, PieceIs
      <4> QED
        BY <1>2, <4>1, <4>2 DEF IsFree, FreeOf
    <3>2. tags[c].split_right \notin FreeOf(tags)
      BY <1>1 DEF ApartIn
    <3> QED
      BY <1>9, <1>11, <3>1, <3>2
  <2> QED
    BY <1>9, <2>1, <2>2 DEF ApartIn
<1>14. completePages' \in [Bins -> Nat] /\ CountedIn(us, completePages')
  <2>1. \A j \in Bins : WholeIn(us, j) = IF j = i /\ Whole(tags[a])
                                         THEN WholeIn(tags, j) \cup {a} ELSE WholeIn(tags, j)
    BY <1>9, <1>11 DEF WholeIn
  <2>2. \A j \in Bins : /\ IsFiniteSet(WholeIn(tags, j)) /\ a \notin WholeIn(tags, j)
                        /\ completePages[j] = Cardinality(WholeIn(tags, j))
                        /\ completePages[j] \in Nat /\ completePages[j] <= MaxComplete
    BY <1>1, <1>2, <1>4, WholeFinite DEF CountedIn, WholeIn
  <2>3. /\ completePages' = [j \in Bins |-> completePages'[j]]
        /\ \A j \in Bins : completePages'[j] = IF j = i /\ Whole(tags[a])
                                               THEN completePages[j] + 1 ELSE completePages[j]
    BY <1>3, <1>4, <1>6
  <2>4. ASSUME NEW j \in Bins
        PROVE  /\ completePages'[j] \in Nat /\ completePages'[j] <= MaxComplete
               /\ completePages'[j] = Cardinality(WholeIn(us, j))
    <3>1. CASE j = i /\ Whole(tags[a])
      <4>1. Cardinality(WholeIn(tags, j) \cup {a}) = Cardinality(WholeIn(tags, j)) + 1
        BY <2>2, FS_AddElement
      <4>2. completePages[j] + 1 <= MaxComplete
        BY <1>7, <2>2, <3>1, SizesAssumption
      <4>3. completePages'[j] = completePages[j] + 1 /\ completePages[j] \in Nat
        BY <2>2, <2>3, <3>1
      <4>4. Cardinality(WholeIn(us, j)) = completePages[j] + 1
        BY <2>1, <2>2, <3>1, <4>1
      <4> QED
        BY <4>2, <4>3, <4>4
    <3>2. CASE ~ (j = i /\ Whole(tags[a]))
      BY <2>1, <2>2, <2>3, <3>2
    <3> QED
      BY <3>1, <3>2
  <2> QED
    BY <2>3, <2>4 DEF CountedIn
<1>15. HeldIn(us, given, {}) /\ FitIn(us, given)
  <2>1. a \in Nat /\ (a + TagSize) - TagSize = a
    BY <1>1, <1>2, PieceIs, SizesAssumption
  <2>2. \A p \in DOMAIN given : /\ p \in Nat /\ p - TagSize \in (DOMAIN tags) \ FreeOf(tags)
                                /\ p - TagSize # a
    BY <1>2, <1>5, <2>1, HeldIs, SizesAssumption
  <2>3. HeldIn(us, given, {})
    BY <1>5, <1>8, <1>9, <2>2 DEF HeldIn
  <2>4. FitIn(us, given)
    BY <1>5, <1>8, <2>2 DEF FitIn, SamePieces, SameSizes
  <2> QED
    BY <2>3, <2>4
<1>16. TypeInv' /\ CallInv' /\ Passing' = {}
  <2>1. pc' = "idle" /\ tag' = NULL /\ size' \in Nat /\ index' \in Nat
    BY <1>1 DEF Returned, TypeInv
  <2>2. pool' \subseteq HeapPages /\ owned' \subseteq HeapPages \X Nat
    BY <1>1 DEF pages, TypeInv
  <2>3. Typed(tags') /\ freePages' \in [Bins -> Nat] /\ Callable(given')
    BY <1>1, <1>5, <1>8, <1>9
  <2> QED
    BY <1>1, <1>14, <2>1, <2>2, <2>3, ReturnTypes
<1>17. BlocksInv' /\ owned' = owned /\ given' = given
  BY <1>1 DEF BlocksInv, pages
<1> QED
  BY <1>1, <1>8, <1>9, <1>10, <1>12, <1>13, <1>14, <1>15, <1>16, <1>17, PartsNext

LEMMA NextKeeps ==
  ASSUME IInv, [Next]_vars
  PROVE  IInv'
<1>1. CASE Next
  BY <1>1, MallocCallKeeps, SearchOnKeeps, SearchHitKeeps, SearchMissKeeps, HaltKeeps,
     FreeCallKeeps, MeltLeftKeeps, MeltLeftEndsKeeps, AbsorbRightKeeps, GiveBackKeeps,
     KeepKeeps DEF Next
<1>2. CASE UNCHANGED vars
  <2>1. TypeInv' /\ CallInv' /\ Passing' = Passing
    BY <1>2, Parts DEF vars, TypeInv, CallInv, Addresses, FreeTags, IsFree, Passing
  <2> QED
    BY <1>2, <2>1, CallsKeep DEF vars, lists, pages
<1> QED
  BY <1>1, <1>2

\* The invariant of malloc and free (liballoc.cpp:283-488).
THEOREM InductiveInvariant == Spec => []IInv
<1>1. Init => IInv
  BY InitInv
<1>2. IInv /\ [Next]_vars => IInv'
  BY NextKeeps
<1> QED
  BY <1>1, <1>2, PTL DEF Spec

\* After any sequence of splits and melts the pieces tile the blocks, and
\* split_left and split_right are the neighbours (liballoc.cpp:179-231, 425-441).
THEOREM PiecesTile == Spec => []Tiled
<1>1. IInv => Tiled
  BY DEF IInv
<1> QED
  BY <1>1, InductiveInvariant, PTL

\* Every piece is in one place, and the lists' links agree in both directions
\* and lead to every free piece (liballoc.cpp:143-176).
THEOREM BinsStayWhole == Spec => []BinsWhole
<1>1. IInv => BinsWhole
  BY DEF IInv
<1> QED
  BY <1>1, InductiveInvariant, PTL

\* free leaves no two free neighbours, and malloc makes none
\* (liballoc.cpp:425-441).
THEOREM FreePiecesComeTogether == Spec => []Coalesced
<1>1. IInv => Coalesced
  BY DEF IInv, Apart, Coalesced
<1> QED
  BY <1>1, InductiveInvariant, PTL

\* The counters of whole free blocks are right and stay within MAXCOMPLETE
\* (liballoc.cpp:304, 341, 445-473).
THEOREM WholeBlocksCounted == Spec => []CompleteCounted
<1>1. IInv => CompleteCounted
  BY DEF IInv
<1> QED
  BY <1>1, InductiveInvariant, PTL

-----------------------------------------------------------------------------
(* malloc and free keep to what the page allocator allows *)

LEMMA StepKeepsToPageAllocator ==
  ASSUME IInv, Next
  PROVE  Allocator!Next \/ UNCHANGED pages
<1>1. TypeInv /\ BlocksInv /\ CallInv
  BY Parts
<1>2. ASSUME NEW p \in HeapPages, SearchMiss(p)
      PROVE  Allocator!Next
  <2> DEFINE n == PagesFor(size + TagSize)
             b == p + n - 1
             e == <<p, n>>
  <2>1. /\ Pages(e) \subseteq pool /\ pool' = pool \ Pages(e) /\ owned' = owned \cup {e}
    BY <1>2 DEF SearchMiss, TakePages
  <2>2. n \in Nat \ {0} /\ p \in Nat
    <3>1. size + TagSize \in Nat
      BY <1>1, SizesAssumption DEF TypeInv
    <3> QED
      BY <3>1, PagesForHolds, PagesAssumption
  <2> HIDE DEF n
  <2>3. p \in pool /\ b \in pool /\ <<p, b - p + 1>> = e
    BY <2>1, <2>2 DEF Pages
  <2>4. Allocator!Alloc(<<p, b - p + 1>>)
    <3>1. Allocator!Alloc(e)
      BY <2>1, <2>2 DEF Allocator!Alloc, Allocator!Pages, Pages
    <3> QED
      BY <2>3, <3>1
  <2> HIDE DEF b
  <2> QED
    BY <2>3, <2>4 DEF Allocator!Next
<1>3. ASSUME GiveBack
      PROVE  Allocator!Next
  <2>1. tag \in DOMAIN tags /\ Whole(tags[tag]) /\ ReturnPages(Extent(tag))
    BY <1>1, <1>3 DEF GiveBack, Melted, Surplus, CallInv, Addresses
  <2>2. PICK e \in owned : e = Extent(tag)
    BY <2>1, ExtentIs
  <2>3. Allocator!Free(e)
    BY <2>1, <2>2 DEF ReturnPages, Allocator!Free, Allocator!Pages, Pages
  <2> QED
    BY <2>3 DEF Allocator!Next
<1>4. CASE \E n \in Requests : MallocCall(n)
  BY <1>4 DEF MallocCall
<1>5. CASE \E a \in DOMAIN given : FreeCall(a)
  BY <1>5 DEF FreeCall, pages
<1>6. CASE SearchOn \/ SearchHit \/ Halt \/ MeltLeft \/ MeltLeftEnds \/ AbsorbRight \/ Keep
  BY <1>6 DEF SearchOn, SearchHit, Halt, MeltLeft, MeltLeftEnds, AbsorbRight, Keep, pages
<1> QED
  BY <1>2, <1>3, <1>4, <1>5, <1>6 DEF Next

\* Pages are taken when they are free and go back only as the extents they
\* came in, although free recomputes the count (liballoc.cpp:455-460).
THEOREM AllocatorObeyed == Spec => KeepsToPageAllocator
<1>1. IInv /\ [Next]_vars => [Allocator!Next]_pages
  BY StepKeepsToPageAllocator DEF vars, pages
<1> QED
  BY <1>1, InductiveInvariant, PTL DEF Spec, KeepsToPageAllocator

-----------------------------------------------------------------------------
(* malloc and free implement Heap *)

MappedGiven == {<<p, given[p]>> : p \in DOMAIN given}
Held == UNION {Pages(e) : e \in owned}

InPages(p, n, ps) == \A x \in p .. (p + n - 1) : x \div PageSize \in ps
NoSharedByte(p, m, q, n) == (p .. (p + m - 1)) \cap (q .. (q + n - 1)) = {}

LEMMA InExtent ==
  ASSUME NEW e \in Blocks, NEW x \in Nat, Start(e) <= x, x < End(e)
  PROVE  x \div PageSize \in Pages(e)
<1> DEFINE q == x \div PageSize
<1>1. q \in Nat /\ q * PageSize <= x /\ x < (q + 1) * PageSize
  BY PageBounds
<1> HIDE DEF q
<1>2. e[1] \in Nat /\ e[2] \in Nat /\ Start(e) \in Nat /\ End(e) \in Nat
  BY BlockBounds
<1>3. (q + 1) * PageSize = q * PageSize + PageSize /\ q * PageSize \in Nat
  BY <1>1, SizesAssumption
<1>4. e[1] <= q
  <2> SUFFICES ASSUME q < e[1]
               PROVE  FALSE
    BY <1>1, <1>2
  <2>1. q * PageSize + PageSize <= e[1] * PageSize
    BY <1>1, <1>2, PageOrder
  <2> QED
    BY <1>1, <1>2, <1>3, <2>1, SizesAssumption DEF Start
<1>5. q < e[1] + e[2]
  <2> SUFFICES ASSUME e[1] + e[2] <= q
               PROVE  FALSE
    BY <1>1, <1>2
  <2>1. (e[1] + e[2]) * PageSize <= q * PageSize
    <3>1. CASE e[1] + e[2] = q
      BY <1>3, <3>1
    <3>2. CASE e[1] + e[2] < q
      <4>1. (e[1] + e[2]) * PageSize + PageSize <= q * PageSize
        BY <1>1, <1>2, <3>2, PageOrder
      <4> QED
        BY <1>2, <1>3, <4>1, SizesAssumption DEF End
    <3> QED
      BY <1>1, <1>2, <3>1, <3>2
  <2> QED
    BY <1>1, <1>2, <1>3, <2>1 DEF End
<1> QED
  BY <1>1, <1>2, <1>4, <1>5 DEF q, Pages

\* The bytes of a piece are in pages the heap has.
LEMMA PieceInPages ==
  ASSUME IInv, NEW a \in DOMAIN tags, NEW x \in Nat, a <= x, x < a + tags[a].real_size
  PROVE  \E e \in owned : x \div PageSize \in Pages(e)
<1>1. Typed(tags) /\ TiledIn(tags, owned) /\ owned \in SUBSET Blocks
  BY Parts, BlocksAre
<1>2. PICK e \in owned : Start(e) <= a /\ a + tags[a].real_size <= End(e)
  BY <1>1 DEF TiledIn
<1>3. Start(e) \in Nat /\ End(e) \in Nat /\ e \in Blocks
  BY <1>1, BlockBounds
<1>4. a \in Nat /\ tags[a].real_size \in Nat
  BY <1>1, PieceIs
<1>5. Start(e) <= x /\ x < End(e)
  BY <1>2, <1>3, <1>4
<1> QED
  BY <1>3, <1>5, InExtent

\* Callers' bytes are in pages the heap has, and are their own.
CallersSafe ==
  /\ \A p \in DOMAIN given : InPages(p, given[p], Held)
  /\ \A p, q \in DOMAIN given : p # q => NoSharedByte(p, given[p], q, given[q])

LEMMA CallersAreSafe == IInv => CallersSafe
<1> SUFFICES ASSUME IInv
             PROVE  CallersSafe
  OBVIOUS
<1>1. /\ Typed(tags) /\ TiledIn(tags, owned) /\ FitIn(tags, given) /\ Callable(given)
      /\ HeldIn(tags, given, Passing)
  BY Parts DEF TypeInv, Callable
<1>2. ASSUME NEW p \in DOMAIN given
      PROVE  /\ p \in Nat /\ given[p] \in Nat \ {0} /\ p - TagSize \in DOMAIN tags
             /\ p - TagSize \in Nat /\ tags[p - TagSize].real_size \in Nat
             /\ p - TagSize <= p
             /\ p + given[p] <= (p - TagSize) + tags[p - TagSize].real_size
  <2>1. p \in Nat /\ p - TagSize \in DOMAIN tags /\ given[p] \in Nat \ {0}
    BY <1>1, HeldIs
  <2>2. p - TagSize \in Nat /\ tags[p - TagSize].real_size \in Nat
    BY <1>1, <2>1, PieceIs
  <2>3. given[p] + TagSize <= tags[p - TagSize].real_size
    BY <1>1 DEF FitIn
  <2> QED
    BY <2>1, <2>2, <2>3, SizesAssumption
<1>3. ASSUME NEW p \in DOMAIN given
      PROVE  InPages(p, given[p], Held)
  <2> SUFFICES ASSUME NEW x \in p .. (p + given[p] - 1)
               PROVE  x \div PageSize \in Held
    BY DEF InPages
  <2>1. /\ p - TagSize \in DOMAIN tags /\ x \in Nat /\ p - TagSize <= x
        /\ x < (p - TagSize) + tags[p - TagSize].real_size
    BY <1>2, SizesAssumption
  <2>2. \E e \in owned : x \div PageSize \in Pages(e)
    BY <2>1, PieceInPages
  <2> QED
    BY <2>2 DEF Held
<1>4. ASSUME NEW p \in DOMAIN given, NEW q \in DOMAIN given, p < q
      PROVE  p + given[p] <= q
  <2> DEFINE a == p - TagSize
             b == q - TagSize
  <2>1. a \in DOMAIN tags /\ b \in DOMAIN tags /\ a < b /\ a \in Nat /\ b \in Nat /\ b <= q
        /\ tags[a].real_size \in Nat /\ p + given[p] <= a + tags[a].real_size
    BY <1>2, <1>4, SizesAssumption
  <2> HIDE DEF a, b
  <2>2. a + tags[a].real_size <= b
    BY <1>1, <2>1 DEF TiledIn
  <2> QED
    BY <1>2, <2>1, <2>2
<1>5. ASSUME NEW p \in DOMAIN given, NEW q \in DOMAIN given, p # q
      PROVE  NoSharedByte(p, given[p], q, given[q])
  <2>1. p \in Nat /\ q \in Nat /\ given[p] \in Nat /\ given[q] \in Nat
    BY <1>2
  <2>2. p + given[p] <= q \/ q + given[q] <= p
    BY <1>4, <1>5, <2>1
  <2> QED
    BY <2>1, <2>2 DEF NoSharedByte
<1> QED
  BY <1>3, <1>5 DEF CallersSafe

LEMMA CallersAreSafeNext ==
  ASSUME IInv'
  PROVE  /\ \A p \in DOMAIN given' : InPages(p, given'[p], Held')
         /\ \A p, q \in DOMAIN given' : p # q => NoSharedByte(p, given'[p], q, given'[q])
<1>1. CallersSafe'
  BY CallersAreSafe, PTL
<1> QED
  BY <1>1 DEF CallersSafe

\* A return of malloc, seen from above.
LEMMA MallocIs ==
  ASSUME IInv', NEW p \in Nat, p \notin DOMAIN given, given' = Added(given, p, size),
         Held \subseteq Held'
  PROVE  Callers!Next
<1> DEFINE b == <<p, size>>
<1>1. /\ DOMAIN given' = (DOMAIN given) \cup {p} /\ given'[p] = size
      /\ \A q \in DOMAIN given : given'[q] = given[q]
  BY DEF Added
<1>2. MappedGiven' = MappedGiven \cup {b} /\ b \notin MappedGiven
  BY <1>1 DEF MappedGiven
<1>3. Callers!Within(b, Held')
  <2>1. InPages(p, size, Held')
    BY <1>1, CallersAreSafeNext
  <2> QED
    BY <2>1 DEF InPages, Callers!Within, Callers!Bytes
<1>4. ASSUME NEW g \in MappedGiven
      PROVE  Callers!Bytes(g) \cap Callers!Bytes(b) = {}
  <2>1. PICK q \in DOMAIN given : g = <<q, given[q]>>
    BY DEF MappedGiven
  <2>2. NoSharedByte(q, given[q], p, size)
    BY <1>1, <2>1, CallersAreSafeNext
  <2> QED
    BY <2>1, <2>2 DEF NoSharedByte, Callers!Bytes
<1> HIDE DEF b
<1>5. PICK c \in MappedGiven' \ MappedGiven : c = b
  BY <1>2
<1>6. Callers!Malloc(c)
  BY <1>2, <1>3, <1>4, <1>5 DEF Callers!Malloc, MappedGiven, Held
<1> QED
  BY <1>6, Zenon DEF Callers!Next, MappedGiven

LEMMA FreeIsFree ==
  ASSUME NEW a \in DOMAIN given, given' = Restrict(given, DOMAIN given \ {a}), owned' = owned
  PROVE  Callers!Next
<1> DEFINE b == <<a, given[a]>>
<1>1. DOMAIN given' = (DOMAIN given) \ {a} /\ \A q \in DOMAIN given' : given'[q] = given[q]
  BY DEF Restrict
<1>2. MappedGiven' = MappedGiven \ {b} /\ b \in MappedGiven
  BY <1>1 DEF MappedGiven
<1> HIDE DEF b
<1>3. PICK c \in MappedGiven : c = b
  BY <1>2
<1>4. Callers!Free(c)
  BY <1>2, <1>3 DEF Callers!Free, MappedGiven, Held
<1> QED
  BY <1>4, Zenon DEF Callers!Next, MappedGiven

LEMMA ShrinkIs ==
  ASSUME IInv', given' = given, Held' \subseteq Held
  PROVE  Callers!Next
<1>1. MappedGiven' = MappedGiven
  BY DEF MappedGiven
<1>2. ASSUME NEW g \in MappedGiven
      PROVE  Callers!Within(g, Held')
  <2>1. PICK q \in DOMAIN given : g = <<q, given[q]>>
    BY DEF MappedGiven
  <2>2. InPages(q, given[q], Held')
    BY CallersAreSafeNext
  <2> QED
    BY <2>1, <2>2 DEF InPages, Callers!Within, Callers!Bytes
<1>3. Callers!Shrink
  BY <1>1, <1>2 DEF Callers!Shrink, MappedGiven, Held
<1> QED
  BY <1>3 DEF Callers!Next

LEMMA StepImplementsHeap ==
  ASSUME IInv, IInv', Next
  PROVE  Callers!Next \/ UNCHANGED <<MappedGiven, Held>>
<1>1. /\ TypeInv /\ BlocksInv /\ CallInv /\ Typed(tags)
      /\ pc = "search" => HeldIn(tags, given, {})
      /\ Callable(given) /\ owned \in SUBSET Blocks
  BY Parts, BlocksAre DEF Passing, TypeInv, Callable
<1>2. ASSUME SearchHit
      PROVE  Callers!Next
  <2>1. /\ given' = Added(given, tag + TagSize, size) /\ owned' = owned /\ pc = "search"
        /\ tag # NULL
    BY <1>2 DEF SearchHit, Settle, pages
  <2>2. tag \in FreeOf(tags) /\ tag \in Nat
    BY <1>1, <2>1 DEF CallInv, TypeInv, FreeTags, FreeOf, Addresses
  <2>3. tag + TagSize \notin DOMAIN given
    <3>1. (tag + TagSize) - TagSize = tag
      BY <2>2, SizesAssumption
    <3>2. \A p \in DOMAIN given : p - TagSize \notin FreeOf(tags)
      BY <1>1, <2>1, HeldIs
    <3> QED
      BY <2>2, <3>1, <3>2
  <2>4. tag + TagSize \in Nat /\ Held \subseteq Held'
    BY <2>1, <2>2, SizesAssumption DEF Held
  <2> QED
    BY <2>1, <2>3, <2>4, MallocIs
<1>3. ASSUME NEW p \in HeapPages, SearchMiss(p)
      PROVE  Callers!Next
  <2> DEFINE a == p * PageSize
             e == <<p, PagesFor(size + TagSize)>>
  <2>1. /\ given' = Added(given, a + TagSize, size) /\ owned' = owned \cup {e} /\ pc = "search"
        /\ Pages(e) \subseteq pool
    BY <1>3 DEF SearchMiss, Settle, TakePages
  <2>2. p \in Nat /\ a \in Nat /\ p \in Pages(e)
    <3>1. p \in Nat /\ a \in Nat
      BY PagesAssumption, SizesAssumption
    <3>2. size + TagSize \in Nat
      BY <1>1, SizesAssumption DEF TypeInv
    <3>3. PagesFor(size + TagSize) \in Nat \ {0}
      BY <3>2, PagesForHolds
    <3> QED
      BY <3>1, <3>3 DEF Pages
  <2>3. a \notin DOMAIN tags
    <3> SUFFICES ASSUME a \in DOMAIN tags
                 PROVE  FALSE
      OBVIOUS
    <3>1. a < a + tags[a].real_size
      BY <1>1, Parts, PieceIs
    <3>2. PICK f \in owned : a \div PageSize \in Pages(f)
      BY <2>2, <3>1, PieceInPages
    <3>3. a \div PageSize = p
      <4>1. (p + 1) * PageSize = p * PageSize + PageSize
        BY <2>2, SizesAssumption
      <4> QED
        BY <2>2, <4>1, PageOf, SizesAssumption
    <3> QED
      BY <1>1, <2>1, <2>2, <3>2, <3>3 DEF BlocksInv
  <2> HIDE DEF a
  <2>4. a + TagSize \notin DOMAIN given
    <3>1. (a + TagSize) - TagSize = a
      BY <2>2, SizesAssumption
    <3>2. \A q \in DOMAIN given : q - TagSize \in DOMAIN tags
      BY <1>1, <2>1, HeldIs
    <3> QED
      BY <2>3, <3>1, <3>2
  <2>5. a + TagSize \in Nat /\ Held \subseteq Held'
    BY <2>1, <2>2, SizesAssumption DEF Held
  <2> QED
    BY <2>1, <2>4, <2>5, MallocIs
<1>4. ASSUME NEW a \in DOMAIN given, FreeCall(a)
      PROVE  Callers!Next
  BY <1>4, FreeIsFree DEF FreeCall, pages
<1>5. ASSUME GiveBack
      PROVE  Callers!Next
  <2>1. given' = given /\ owned' \subseteq owned
    BY <1>5 DEF GiveBack, ReturnPages
  <2>2. Held' \subseteq Held
    BY <2>1 DEF Held
  <2> QED
    BY <2>1, <2>2, ShrinkIs
<1>6. CASE \/ \E n \in Requests : MallocCall(n)
           \/ SearchOn \/ Halt \/ MeltLeft \/ MeltLeftEnds \/ AbsorbRight \/ Keep
  <2>1. given' = given /\ owned' = owned
    BY <1>6 DEF MallocCall, SearchOn, Halt, MeltLeft, MeltLeftEnds, AbsorbRight, Keep, pages
  <2> QED
    BY <2>1 DEF MappedGiven, Held
<1> QED
  BY <1>2, <1>3, <1>4, <1>5, <1>6 DEF Next

\* malloc gives bytes nobody else has, in pages the heap has and keeps, until
\* free takes them back (liballoc.cpp:283-392, 398-488).
THEOREM Implementation == Spec => ImplementsHeap
<1>1. Init => Callers!Init
  BY DEF Init, Callers!Init
<1>2. IInv /\ IInv' /\ [Next]_vars => [Callers!Next]_(Callers!vars)
  <2> SUFFICES ASSUME IInv, IInv', [Next]_vars
               PROVE  Callers!Next \/ UNCHANGED <<MappedGiven, Held>>
    BY DEF MappedGiven, Held, Callers!vars
  <2>1. CASE Next
    BY <2>1, StepImplementsHeap
  <2>2. CASE UNCHANGED vars
    BY <2>2 DEF vars, MappedGiven, Held
  <2> QED
    BY <2>1, <2>2
<1> QED
  BY <1>1, <1>2, InductiveInvariant, PTL DEF Spec, ImplementsHeap, Callers!Spec
=============================================================================
