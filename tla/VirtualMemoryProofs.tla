------------------------ MODULE VirtualMemoryProofs ------------------------
(***************************************************************************)
(* Proofs about VirtualMemory: for any machine, programs and sizes of      *)
(* tables, page tables are trees in which MapPage finds its way, it maps   *)
(* the page it is asked to and no other, what a thread's user code can     *)
(* reach was made for that thread, finished address spaces map the window  *)
(* tables are written through and the kernel stack, and a program laid out *)
(* on pages of its own is loaded whole exactly when its segments fit in    *)
(* one page each.                                                          *)
(***************************************************************************)
EXTENDS VirtualMemory, NaturalLemmas, TLAPS

-----------------------------------------------------------------------------
(* The inductive invariant *)

MoreTypes ==
  /\ kstack_phys \in [0 .. 255 -> Nat]
  /\ segments \in Seq(Segment)
  /\ program = [t \in Threads |-> program[t]]

\* A frame user code of a space may have.
Mine(o, f, s) == f \in Frames /\ o[f].space = s /\ o[f].use \in {"stack", "segment"}

\* Which spaces have tables, where the kernel is.
SpacesInv ==
  /\ pc \in {"boot", "dir", "framebuffer", "cpus"} =>
       space = Kernel /\ rootTable[BspThread] = None
  /\ pc = "boot" => rootTable[Kernel] = None
  /\ pc \in {"stack", "root"} =>
       rootTable[space] = None /\ (space \in Users => program[space] # None)
  /\ pc \in Mapping \cup {"load"} => rootTable[space] \in Frames
  /\ pc \in {"stack", "root", "thread", "load", "segment"} => space \in Threads
  /\ pc = "segment" => segments # <<>>
  /\ \A t \in Users : program[t] = None => rootTable[t] = None
  /\ \A t \in added : rootTable[t] \in Frames

\* What is to be mapped for the user was made for the space.
TodoInv ==
  /\ pc \notin Mapping \cup Stopped => todo = <<>>
  /\ pc = "root" => \A j \in 0 .. (StackPages - 1) : Mine(owner, stackAddr + j, space)
  /\ \A i \in DOMAIN todo : "user" \in todo[i].flags =>
       \A j \in 0 .. (todo[i].pages - 1) : Mine(owner, todo[i].phys + j, space)

\* What the lowest tables map for the user was made for their space.
UserIn(m, o) ==
  \A f \in Frames : o[f].use = "table" /\ o[f].level = 1 =>
    \A x \in Indexes : m[f][x] # None /\ "user" \in m[f][x].flags =>
      Mine(o, m[f][x].frame, o[f].space)

Inv ==
  /\ TypeOK /\ MoreTypes /\ TablesAreTrees /\ WalkInv
  /\ SpacesInv /\ TodoInv /\ UserIn(mem, owner)

-----------------------------------------------------------------------------
(* Indexes: the digits of a page's number *)

LEMMA QuotientSmall ==
  ASSUME NEW x \in Nat, NEW a \in Nat \ {0}, NEW b \in Nat \ {0}, x < a * b
  PROVE  x \div a < b
<1> DEFINE q == x \div a
<1>1. q \in Nat /\ q * a <= x
  <2> DEFINE m == x % a
  <2>1. q \in Nat /\ m \in 0 .. (a - 1) /\ x = q * a + m
    BY Quotient
  <2> HIDE DEF q, m
  <2> QED
    BY <2>1
<1> HIDE DEF q
<1>2. ~ (b <= q)
  <2> SUFFICES ASSUME b <= q
               PROVE  FALSE
    OBVIOUS
  <2>1. b * a <= q * a /\ q * a \in Nat /\ b * a = a * b /\ a * b \in Nat
    BY <1>1
  <2> QED
    BY <1>1, <2>1
<1> QED
  BY <1>1, <1>2 DEF q

LEMMA ShiftIs ==
  /\ Shift(1) = 1 /\ Shift(2) = Span[1] /\ Shift(3) = Span[1] * Span[2]
  /\ Shift(4) = (Span[1] * Span[2]) * Span[3]
<1>1. Shift(1) = 1
  <2>1. 1 # 2 /\ 1 # 3 /\ 1 # 4
    OBVIOUS
  <2> QED
    BY <2>1, Zenon DEF Shift
<1>2. Shift(2) = Span[1]
  <2>1. 2 # 1 /\ 2 # 3 /\ 2 # 4
    OBVIOUS
  <2> QED
    BY <2>1, Zenon DEF Shift
<1>3. Shift(3) = Span[1] * Span[2]
  <2>1. 3 # 1 /\ 3 # 2 /\ 3 # 4
    OBVIOUS
  <2> QED
    BY <2>1, Zenon DEF Shift
<1>4. Shift(4) = (Span[1] * Span[2]) * Span[3]
  <2>1. 4 # 1 /\ 4 # 2 /\ 4 # 3
    OBVIOUS
  <2> QED
    BY <2>1, Zenon DEF Shift
<1> QED
  BY <1>1, <1>2, <1>3, <1>4

LEMMA SpansAre ==
  /\ \A l \in 1 .. 4 : Span[l] \in Nat \ {0}
  /\ \A l \in 1 .. 4 : Shift(l) \in Nat \ {0}
<1>1. \A l \in 1 .. 4 : Span[l] \in Nat \ {0}
  BY SizesAssumption
<1>2. Span[1] \in Nat \ {0} /\ Span[2] \in Nat \ {0} /\ Span[3] \in Nat \ {0}
  BY <1>1
<1>3. Span[1] * Span[2] \in Nat \ {0}
  BY <1>2
<1>4. (Span[1] * Span[2]) * Span[3] \in Nat \ {0}
  BY <1>2, <1>3
<1>5. \A l \in 1 .. 4 : l = 1 \/ l = 2 \/ l = 3 \/ l = 4
  OBVIOUS
<1> QED
  BY <1>1, <1>2, <1>3, <1>4, <1>5, ShiftIs

LEMMA IndexIs ==
  ASSUME NEW v \in Nat, NEW l \in 1 .. 4
  PROVE  Index(v, l) \in Indexes
<1> DEFINE q == v \div Shift(l)
<1>1. q \in Nat /\ Span[l] \in Nat \ {0}
  BY SpansAre, Quotient
<1> HIDE DEF q
<1>2. q % Span[l] \in 0 .. (Span[l] - 1)
  BY <1>1, Quotient
<1>3. 0 .. (Span[l] - 1) \subseteq Indexes
  BY SizesAssumption
<1> QED
  BY <1>2, <1>3 DEF Index, q

\* Two pages with the same index at every level are one.
LEMMA PathsDiffer ==
  ASSUME NEW v \in Virt, NEW w \in Virt, \A l \in 1 .. 4 : Index(v, l) = Index(w, l)
  PROVE  v = w
<1> DEFINE a == Span[1]
           b == Span[2]
           c == Span[3]
           d == Span[4]
<1>1. /\ a \in Nat \ {0} /\ b \in Nat \ {0} /\ c \in Nat \ {0} /\ d \in Nat \ {0}
      /\ a * b \in Nat \ {0} /\ (a * b) * c \in Nat \ {0}
  BY SpansAre, ShiftIs
<1>2. v \in Nat /\ w \in Nat /\ v < ((a * b) * c) * d /\ w < ((a * b) * c) * d
  <2>1. ((a * b) * c) * d \in Nat
    BY <1>1
  <2>2. v \in 0 .. (((a * b) * c) * d - 1) /\ w \in 0 .. (((a * b) * c) * d - 1)
    BY SizesAssumption
  <2> QED
    BY <2>1, <2>2
<1> HIDE DEF a, b, c, d
<1>3. /\ (v \div 1) % a = (w \div 1) % a
      /\ (v \div a) % b = (w \div a) % b
      /\ (v \div (a * b)) % c = (w \div (a * b)) % c
      /\ (v \div ((a * b) * c)) % d = (w \div ((a * b) * c)) % d
  <2>1. Index(v, 1) = Index(w, 1) /\ Index(v, 2) = Index(w, 2)
        /\ Index(v, 3) = Index(w, 3) /\ Index(v, 4) = Index(w, 4)
    OBVIOUS
  <2> QED
    BY <2>1, ShiftIs, Zenon DEF Index, a, b, c, d
<1>4. v \div ((a * b) * c) = w \div ((a * b) * c)
  <2> DEFINE p == v \div ((a * b) * c)
             q == w \div ((a * b) * c)
  <2>1. p \in Nat /\ q \in Nat /\ p < d /\ q < d
    BY <1>1, <1>2, Quotient, QuotientSmall
  <2>2. p % d = q % d
    BY <1>3
  <2> HIDE DEF p, q
  <2>3. p = q
    BY <1>1, <2>1, <2>2
  <2> QED
    BY <2>3 DEF p, q
<1>5. ASSUME NEW x \in Nat, NEW y \in Nat, NEW n \in Nat \ {0},
             x % n = y % n, x \div n = y \div n
      PROVE  x = y
  BY <1>5, Quotient
<1>6. v \div (a * b) = w \div (a * b)
  <2> DEFINE p == v \div (a * b)
             q == w \div (a * b)
  <2>1. p \in Nat /\ q \in Nat
    BY <1>1, <1>2, Quotient
  <2>2. p \div c = q \div c
    <3> DEFINE ab == a * b
    <3>1. ab \in Nat \ {0} /\ v \div (ab * c) = w \div (ab * c)
      BY <1>1, <1>4
    <3> HIDE DEF ab
    <3>2. v \in Nat /\ w \in Nat /\ ab \in Nat \ {0} /\ c \in Nat \ {0}
      BY <1>1, <1>2, <3>1
    <3>3. (v \div ab) \div c = v \div (ab * c)
      BY <3>2, QuotientTwice, Zenon
    <3>4. (w \div ab) \div c = w \div (ab * c)
      BY <3>2, QuotientTwice, Zenon
    <3> QED
      BY <3>1, <3>3, <3>4, Zenon DEF p, q, ab
  <2>3. p % c = q % c
    BY <1>3
  <2> HIDE DEF p, q
  <2>4. p = q
    BY <1>1, <1>5, <2>1, <2>2, <2>3
  <2> QED
    BY <2>4 DEF p, q
<1>7. v \div a = w \div a
  <2> DEFINE p == v \div a
             q == w \div a
  <2>1. p \in Nat /\ q \in Nat
    BY <1>1, <1>2, Quotient
  <2>2. p \div b = q \div b
    <3>1. v \in Nat /\ w \in Nat /\ a \in Nat \ {0} /\ b \in Nat \ {0}
      BY <1>1, <1>2
    <3>2. (v \div a) \div b = v \div (a * b)
      BY <3>1, QuotientTwice, Zenon
    <3>3. (w \div a) \div b = w \div (a * b)
      BY <3>1, QuotientTwice, Zenon
    <3> QED
      BY <1>6, <3>2, <3>3, Zenon DEF p, q
  <2>3. p % b = q % b
    BY <1>3
  <2> HIDE DEF p, q
  <2>4. p = q
    BY <1>1, <1>5, <2>1, <2>2, <2>3
  <2> QED
    BY <2>4 DEF p, q
<1>8. v \div 1 = v /\ w \div 1 = w
  BY <1>2
<1> QED
  BY <1>1, <1>2, <1>3, <1>5, <1>7, <1>8

-----------------------------------------------------------------------------
(* Trees of tables, and the paths in them, in a memory m whose frames are  *)
(* handed out as o says                                                    *)

Typed(m, o) ==
  /\ m \in [Frames -> [Indexes -> Entry \cup {None}]]
  /\ o \in [Frames -> Owner]

RootsIn(o, roots) ==
  \A s \in Spaces : \A f \in Frames : roots[s] = f <=> o[f] = Table(s, 4)

LinkAt(m, o, f, x) == o[f].use = "table" /\ o[f].level > 1 /\ m[f][x] # None

LinksDown(m, o) ==
  \A f \in Frames : \A x \in Indexes : LinkAt(m, o, f, x) =>
    m[f][x].frame \in Frames /\ o[m[f][x].frame] = Table(o[f].space, o[f].level - 1)

LinkedOnce(m, o) ==
  \A f, g \in Frames : \A x, y \in Indexes :
    LinkAt(m, o, f, x) /\ LinkAt(m, o, g, y) /\ m[f][x].frame = m[g][y].frame =>
      f = g /\ x = y

Linked(m, o) == LinksDown(m, o) /\ LinkedOnce(m, o)

LEMMA TreesAre ==
  TablesAreTrees <=> RootsIn(owner, rootTable) /\ Linked(mem, owner)
<1>1. \A f \in Frames : \A x \in Indexes :
        <<f, x>> \in Links <=> LinkAt(mem, owner, f, x)
  BY DEF Links, LinkAt
<1>2. \A f, x : Child(<<f, x>>) = mem[f][x].frame
  BY DEF Child
<1>3. \A p \in Links : \E f \in Frames : \E x \in Indexes : p = <<f, x>>
  BY DEF Links
<1>4. (\A p \in Links : /\ Child(p) \in Frames
                        /\ owner[Child(p)] = Table(owner[p[1]].space, owner[p[1]].level - 1))
      <=> LinksDown(mem, owner)
  <2>1. ASSUME \A p \in Links : /\ Child(p) \in Frames
                 /\ owner[Child(p)] = Table(owner[p[1]].space, owner[p[1]].level - 1)
        PROVE  LinksDown(mem, owner)
    <3> SUFFICES ASSUME NEW f \in Frames, NEW x \in Indexes, LinkAt(mem, owner, f, x)
                 PROVE  /\ mem[f][x].frame \in Frames
                        /\ owner[mem[f][x].frame] = Table(owner[f].space, owner[f].level - 1)
      BY DEF LinksDown
    <3>1. <<f, x>> \in Links /\ Child(<<f, x>>) = mem[f][x].frame
      BY <1>1, <1>2
    <3>2. <<f, x>>[1] = f
      OBVIOUS
    <3> QED
      BY <2>1, <3>1, <3>2
  <2>2. ASSUME LinksDown(mem, owner), NEW p \in Links
        PROVE  /\ Child(p) \in Frames
               /\ owner[Child(p)] = Table(owner[p[1]].space, owner[p[1]].level - 1)
    <3>1. PICK f \in Frames : \E x \in Indexes : p = <<f, x>>
      BY <1>3
    <3>2. PICK x \in Indexes : p = <<f, x>>
      BY <3>1
    <3>3. LinkAt(mem, owner, f, x) /\ p[1] = f /\ Child(p) = mem[f][x].frame
      BY <1>1, <1>2, <3>2
    <3> QED
      BY <2>2, <3>3 DEF LinksDown
  <2> QED
    BY <2>1, <2>2
<1>5. (\A p, q \in Links : Child(p) = Child(q) => p = q) <=> LinkedOnce(mem, owner)
  <2>1. ASSUME \A p, q \in Links : Child(p) = Child(q) => p = q
        PROVE  LinkedOnce(mem, owner)
    <3> SUFFICES ASSUME NEW f \in Frames, NEW g \in Frames, NEW x \in Indexes, NEW y \in Indexes,
                        LinkAt(mem, owner, f, x), LinkAt(mem, owner, g, y),
                        mem[f][x].frame = mem[g][y].frame
                 PROVE  f = g /\ x = y
      BY DEF LinkedOnce
    <3>1. <<f, x>> \in Links /\ <<g, y>> \in Links
      BY <1>1
    <3>2. Child(<<f, x>>) = Child(<<g, y>>)
      BY <1>2
    <3>3. <<f, x>> = <<g, y>>
      BY <2>1, <3>1, <3>2, Zenon
    <3> QED
      BY <3>3
  <2>2. ASSUME LinkedOnce(mem, owner), NEW p \in Links, NEW q \in Links, Child(p) = Child(q)
        PROVE  p = q
    <3>1. PICK f \in Frames : \E x \in Indexes : p = <<f, x>>
      BY <1>3
    <3>2. PICK x \in Indexes : p = <<f, x>>
      BY <3>1
    <3>3. PICK g \in Frames : \E y \in Indexes : q = <<g, y>>
      BY <1>3
    <3>4. PICK y \in Indexes : q = <<g, y>>
      BY <3>3
    <3>5. /\ LinkAt(mem, owner, f, x) /\ Child(p) = mem[f][x].frame
          /\ LinkAt(mem, owner, g, y) /\ Child(q) = mem[g][y].frame
      BY <1>1, <1>2, <3>2, <3>4
    <3> QED
      BY <2>2, <3>2, <3>4, <3>5 DEF LinkedOnce
  <2> QED
    BY <2>1, <2>2
<1> QED
  BY <1>4, <1>5, Zenon DEF TablesAreTrees, RootsIn, Linked

\* The entries for v in the tables T, the tables they name, and the tables
\* on the way to v from the top table r.
EntriesIn(m, T, v, l) == {m[f][Index(v, l)] : f \in T} \ {None}
BelowIn(m, T, v, l) == {e.frame : e \in EntriesIn(m, T, v, l)}
PathIn(m, r, v, l) ==
  LET t3 == BelowIn(m, {r}, v, 4)
      t2 == BelowIn(m, t3, v, 3)
      t1 == BelowIn(m, t2, v, 2)
  IN  IF l = 4 THEN {r} ELSE <<t1, t2, t3>>[l]
TransIn(m, r, v) == EntriesIn(m, PathIn(m, r, v, 1), v, 1)

LEMMA PathsAre ==
  ASSUME NEW m, NEW r, NEW v
  PROVE  /\ PathIn(m, r, v, 4) = {r}
         /\ \A l \in 1 .. 3 : PathIn(m, r, v, l) = BelowIn(m, PathIn(m, r, v, l + 1), v, l + 1)
<1> DEFINE t3 == BelowIn(m, {r}, v, 4)
           t2 == BelowIn(m, t3, v, 3)
           t1 == BelowIn(m, t2, v, 2)
<1>1. PathIn(m, r, v, 4) = {r}
  BY DEF PathIn
<1>2. PathIn(m, r, v, 3) = t3 /\ PathIn(m, r, v, 2) = t2 /\ PathIn(m, r, v, 1) = t1
  <2>1. \A l \in 1 .. 3 : PathIn(m, r, v, l) = <<t1, t2, t3>>[l]
    BY DEF PathIn
  <2> HIDE DEF t1, t2, t3
  <2> QED
    BY <2>1
<1>3. PathIn(m, r, v, 3) = BelowIn(m, PathIn(m, r, v, 4), v, 4)
  BY <1>1, <1>2, Zenon
<1>4. PathIn(m, r, v, 2) = BelowIn(m, PathIn(m, r, v, 3), v, 3)
  BY <1>2, Zenon
<1>5. PathIn(m, r, v, 1) = BelowIn(m, PathIn(m, r, v, 2), v, 2)
  BY <1>2, Zenon
<1> HIDE DEF t1, t2, t3
<1>6. \A l \in 1 .. 3 : (l = 1 /\ l + 1 = 2) \/ (l = 2 /\ l + 1 = 3) \/ (l = 3 /\ l + 1 = 4)
  OBVIOUS
<1>7. ASSUME NEW l \in 1 .. 3
      PROVE  PathIn(m, r, v, l) = BelowIn(m, PathIn(m, r, v, l + 1), v, l + 1)
  <2>1. CASE l = 1 /\ l + 1 = 2
    BY <1>5, <2>1, Zenon
  <2>2. CASE l = 2 /\ l + 1 = 3
    BY <1>4, <2>2, Zenon
  <2>3. CASE l = 3 /\ l + 1 = 4
    BY <1>3, <2>3, Zenon
  <2> QED
    BY <1>6, <2>1, <2>2, <2>3
<1> QED
  BY <1>1, <1>7

LEMMA EntriesAre ==
  ASSUME NEW m, NEW T, NEW v, NEW l
  PROVE  \A e : e \in EntriesIn(m, T, v, l) <=>
                  \E f \in T : m[f][Index(v, l)] # None /\ e = m[f][Index(v, l)]
BY DEF EntriesIn

LEMMA BelowAre ==
  ASSUME NEW m, NEW T, NEW v, NEW l
  PROVE  \A g : g \in BelowIn(m, T, v, l) <=>
                  \E f \in T : m[f][Index(v, l)] # None /\ g = m[f][Index(v, l)].frame
<1>1. \A g : g \in BelowIn(m, T, v, l) <=> \E e \in EntriesIn(m, T, v, l) : g = e.frame
  BY DEF BelowIn
<1> QED
  BY <1>1, EntriesAre

\* What holds at the top and goes one level down holds at each level.
LEMMA DownLevels ==
  ASSUME NEW S, 4 \in S, \A l \in 1 .. 3 : l + 1 \in S => l \in S
  PROVE  \A l \in 1 .. 4 : l \in S
<1>1. 3 \in S
  BY 3 + 1 = 4, 3 \in 1 .. 3
<1>2. 2 \in S
  BY <1>1, 2 + 1 = 3, 2 \in 1 .. 3
<1>3. 1 \in S
  BY <1>2, 1 + 1 = 2, 1 \in 1 .. 3
<1> QED
  BY <1>1, <1>2, <1>3

LEMMA TableIs ==
  ASSUME NEW s, NEW l
  PROVE  Table(s, l).use = "table" /\ Table(s, l).space = s /\ Table(s, l).level = l
BY DEF Table

\* The path to a page goes through tables of one space, level by level.
LEMMA PathTables ==
  ASSUME NEW m, NEW o, Typed(m, o), LinksDown(m, o),
         NEW s \in Spaces, NEW r \in Frames, o[r] = Table(s, 4), NEW v \in Nat
  PROVE  \A l \in 1 .. 4 : \A f \in PathIn(m, r, v, l) : f \in Frames /\ o[f] = Table(s, l)
<1> DEFINE S == {l \in 1 .. 4 : \A f \in PathIn(m, r, v, l) : f \in Frames /\ o[f] = Table(s, l)}
<1>1. 4 \in S
  BY PathsAre
<1>2. ASSUME NEW l \in 1 .. 3, l + 1 \in S
      PROVE  l \in S
  <2> SUFFICES ASSUME NEW f \in PathIn(m, r, v, l)
               PROVE  f \in Frames /\ o[f] = Table(s, l)
    OBVIOUS
  <2> DEFINE k == l + 1
             T == PathIn(m, r, v, k)
             x == Index(v, k)
  <2>1. k \in 1 .. 4 /\ k > 1 /\ k - 1 = l /\ \A g \in T : g \in Frames /\ o[g] = Table(s, k)
    BY <1>2
  <2>2. x \in Indexes
    BY <2>1, IndexIs
  <2>3. f \in BelowIn(m, T, v, k)
    BY PathsAre
  <2> HIDE DEF k, T
  <2>4. PICK g \in T : m[g][x] # None /\ f = m[g][x].frame
    BY <2>3, BelowAre
  <2>5. g \in Frames /\ o[g].use = "table" /\ o[g].level = k /\ o[g].space = s
    BY <2>1, <2>4, TableIs
  <2>6. LinkAt(m, o, g, x)
    BY <2>1, <2>4, <2>5 DEF LinkAt
  <2> HIDE DEF x
  <2> QED
    BY <2>1, <2>2, <2>4, <2>5, <2>6 DEF LinksDown
<1> HIDE DEF S
<1>3. \A l \in 1 .. 4 : l \in S
  BY <1>1, <1>2, DownLevels
<1> QED
  BY <1>3 DEF S

\* There is one table of each level, at most.
LEMMA PathOne ==
  ASSUME NEW m, NEW r, NEW v
  PROVE  \A l \in 1 .. 4 : \A f, g \in PathIn(m, r, v, l) : f = g
<1> DEFINE S == {l \in 1 .. 4 : \A f, g \in PathIn(m, r, v, l) : f = g}
<1>1. 4 \in S
  BY PathsAre
<1>2. ASSUME NEW l \in 1 .. 3, l + 1 \in S
      PROVE  l \in S
  <2> DEFINE k == l + 1
             T == PathIn(m, r, v, k)
  <2>1. \A f, g \in T : f = g
    BY <1>2
  <2>2. PathIn(m, r, v, l) = BelowIn(m, T, v, k)
    BY PathsAre
  <2> HIDE DEF k, T
  <2>3. \A f, g \in BelowIn(m, T, v, k) : f = g
    BY <2>1, BelowAre
  <2> QED
    BY <2>2, <2>3
<1> HIDE DEF S
<1>3. \A l \in 1 .. 4 : l \in S
  BY <1>1, <1>2, DownLevels
<1> QED
  BY <1>3 DEF S

\* Only pages with the same indexes share a table.
LEMMA PathOfOne ==
  ASSUME NEW m, NEW o, Typed(m, o), Linked(m, o),
         NEW s \in Spaces, NEW r \in Frames, o[r] = Table(s, 4), NEW v \in Nat, NEW w \in Nat
  PROVE  \A l \in 1 .. 4 : \A f : f \in PathIn(m, r, v, l) /\ f \in PathIn(m, r, w, l) =>
           \A k \in 1 .. 4 : k > l => Index(v, k) = Index(w, k)
<1> DEFINE S == {l \in 1 .. 4 :
                   \A f : f \in PathIn(m, r, v, l) /\ f \in PathIn(m, r, w, l) =>
                     \A k \in 1 .. 4 : k > l => Index(v, k) = Index(w, k)}
<1>1. 4 \in S
  OBVIOUS
<1>2. ASSUME NEW l \in 1 .. 3, l + 1 \in S
      PROVE  l \in S
  <2> SUFFICES ASSUME NEW f, f \in PathIn(m, r, v, l), f \in PathIn(m, r, w, l)
               PROVE  \A k \in 1 .. 4 : k > l => Index(v, k) = Index(w, k)
    OBVIOUS
  <2> DEFINE j == l + 1
             V == PathIn(m, r, v, j)
             W == PathIn(m, r, w, j)
             x == Index(v, j)
             y == Index(w, j)
  <2>1. \A g : g \in V /\ g \in W => \A k \in 1 .. 4 : k > j => Index(v, k) = Index(w, k)
    BY <1>2
  <2>2. j \in 1 .. 4 /\ j > 1 /\ \A k \in 1 .. 4 : k > l => k = j \/ k > j
    OBVIOUS
  <2>3. f \in BelowIn(m, V, v, j) /\ f \in BelowIn(m, W, w, j)
    BY PathsAre
  <2>4. x \in Indexes /\ y \in Indexes
    BY <2>2, IndexIs
  <2>5. /\ \A g \in V : g \in Frames /\ o[g] = Table(s, j)
        /\ \A g \in W : g \in Frames /\ o[g] = Table(s, j)
    BY <2>2, PathTables DEF Linked
  <2> HIDE DEF V, W
  <2>6. PICK g \in V : m[g][x] # None /\ f = m[g][x].frame
    BY <2>3, BelowAre
  <2>7. PICK h \in W : m[h][y] # None /\ f = m[h][y].frame
    BY <2>3, BelowAre
  <2> HIDE DEF j
  <2>8. g \in Frames /\ LinkAt(m, o, g, x) /\ h \in Frames /\ LinkAt(m, o, h, y)
    BY <2>2, <2>5, <2>6, <2>7, TableIs DEF LinkAt
  <2>9. g = h /\ x = y
    <3> HIDE DEF x, y
    <3>1. LinkedOnce(m, o)
      BY DEF Linked
    <3> QED
      BY <2>4, <2>6, <2>7, <2>8, <3>1 DEF LinkedOnce
  <2> QED
    BY <2>1, <2>2, <2>6, <2>9
<1> HIDE DEF S
<1>3. \A l \in 1 .. 4 : l \in S
  BY <1>1, <1>2, DownLevels
<1> QED
  BY <1>3 DEF S

\* A path is what the tables above its end make it.
LEMMA PathKept ==
  ASSUME NEW m, NEW o, Typed(m, o), LinksDown(m, o), NEW m2,
         NEW s \in Spaces, NEW r \in Frames, o[r] = Table(s, 4), NEW v \in Nat,
         NEW n \in 0 .. 4,
         \A g \in Frames : \A k \in 1 .. 4 :
           o[g] = Table(s, k) /\ k > n => m2[g] = m[g]
  PROVE  \A l \in 1 .. 4 : l >= n => PathIn(m2, r, v, l) = PathIn(m, r, v, l)
<1> DEFINE S == {l \in 1 .. 4 : l >= n => PathIn(m2, r, v, l) = PathIn(m, r, v, l)}
<1>1. 4 \in S
  BY PathsAre
<1>2. ASSUME NEW l \in 1 .. 3, l + 1 \in S
      PROVE  l \in S
  <2> SUFFICES ASSUME l >= n
               PROVE  PathIn(m2, r, v, l) = PathIn(m, r, v, l)
    OBVIOUS
  <2> DEFINE k == l + 1
             T == PathIn(m, r, v, k)
  <2>1. k \in 1 .. 4 /\ k > n /\ PathIn(m2, r, v, k) = T
    BY <1>2
  <2>2. PathIn(m, r, v, l) = BelowIn(m, T, v, k) /\ PathIn(m2, r, v, l) = BelowIn(m2, T, v, k)
    BY <2>1, PathsAre
  <2>3. \A g \in T : g \in Frames /\ o[g] = Table(s, k)
    BY <2>1, PathTables
  <2> HIDE DEF k, T
  <2>4. \A g \in T : m2[g] = m[g]
    BY <2>1, <2>3
  <2>5. BelowIn(m2, T, v, k) = BelowIn(m, T, v, k)
    <3>1. EntriesIn(m2, T, v, k) = EntriesIn(m, T, v, k)
      BY <2>4 DEF EntriesIn
    <3> QED
      BY <3>1 DEF BelowIn
  <2> QED
    BY <2>2, <2>5
<1> HIDE DEF S
<1>3. \A l \in 1 .. 4 : l \in S
  BY <1>1, <1>2, DownLevels
<1> QED
  BY <1>3 DEF S

-----------------------------------------------------------------------------
(* What writing to tables does to paths *)

\* Frame f becomes an empty table, and entries that were empty may name it.
Grown(m, m2, o, f) ==
  /\ f \in Frames /\ o[f].use = "free"
  /\ \A x \in Indexes : m2[f][x] = None
  /\ \A g \in Frames \ {f} : \A x \in Indexes : o[g].use = "table" =>
       \/ m2[g][x] = m[g][x]
       \/ o[g].level > 1 /\ m[g][x] = None /\ m2[g][x] # None /\ m2[g][x].frame = f

LEMMA GrownEntries ==
  ASSUME NEW m, NEW m2, NEW o, NEW f, Grown(m, m2, o, f),
         NEW l \in 1 .. 4, NEW v \in Nat, NEW T, NEW T2,
         \A g \in T : g \in Frames /\ o[g].use = "table" /\ o[g].level = l,
         \A g : g \in T2 /\ g # f <=> g \in T
  PROVE  /\ \A e \in EntriesIn(m, T, v, l) : e \in EntriesIn(m2, T2, v, l)
         /\ \A e \in EntriesIn(m2, T2, v, l) :
              e \in EntriesIn(m, T, v, l) \/ (l > 1 /\ e.frame = f)
<1> DEFINE x == Index(v, l)
<1>1. x \in Indexes
  BY IndexIs
<1>2. \A e : e \in EntriesIn(m, T, v, l) <=> \E g \in T : m[g][x] # None /\ e = m[g][x]
  BY EntriesAre
<1>3. \A e : e \in EntriesIn(m2, T2, v, l) <=> \E g \in T2 : m2[g][x] # None /\ e = m2[g][x]
  BY EntriesAre
<1> HIDE DEF x
<1>4. ASSUME NEW e \in EntriesIn(m, T, v, l)
      PROVE  e \in EntriesIn(m2, T2, v, l)
  <2>1. PICK g \in T : m[g][x] # None /\ e = m[g][x]
    BY <1>2
  <2>2. g \in Frames /\ o[g].use = "table" /\ g \in T2 /\ g # f
    BY <2>1
  <2>3. m2[g][x] = m[g][x]
    BY <1>1, <2>1, <2>2 DEF Grown
  <2> QED
    BY <1>3, <2>1, <2>2, <2>3
<1>5. ASSUME NEW e \in EntriesIn(m2, T2, v, l)
      PROVE  e \in EntriesIn(m, T, v, l) \/ (l > 1 /\ e.frame = f)
  <2>1. PICK g \in T2 : m2[g][x] # None /\ e = m2[g][x]
    BY <1>3
  <2>2. g # f
    BY <1>1, <2>1 DEF Grown
  <2>3. g \in T /\ g \in Frames /\ o[g].use = "table" /\ o[g].level = l
    BY <2>1, <2>2
  <2>4. m2[g][x] = m[g][x] \/ (l > 1 /\ m2[g][x].frame = f)
    BY <1>1, <2>2, <2>3 DEF Grown
  <2> QED
    BY <1>2, <2>1, <2>3, <2>4
<1> QED
  BY <1>4, <1>5

\* A new table changes what the processor finds for no page.
LEMMA GrownSame ==
  ASSUME NEW m, NEW o, Typed(m, o), LinksDown(m, o), NEW m2, NEW f, Grown(m, m2, o, f),
         NEW s \in Spaces, NEW r \in Frames, o[r] = Table(s, 4), NEW v \in Nat
  PROVE  /\ TransIn(m2, r, v) = TransIn(m, r, v)
         /\ \A l \in 1 .. 4 : \A g \in PathIn(m, r, v, l) : g \in PathIn(m2, r, v, l)
<1> DEFINE S == {l \in 1 .. 4 :
                   \A g : g \in PathIn(m2, r, v, l) /\ g # f <=> g \in PathIn(m, r, v, l)}
<1>1. \A l \in 1 .. 4 : \A g \in PathIn(m, r, v, l) :
        g \in Frames /\ o[g].use = "table" /\ o[g].level = l
  BY PathTables, TableIs
<1>2. o[f].use # "table"
  BY DEF Grown
<1>3. 4 \in S
  <2>1. r # f
    BY <1>2, TableIs
  <2> QED
    BY <2>1, PathsAre
<1>4. ASSUME NEW l \in 1 .. 3, l + 1 \in S
      PROVE  l \in S
  <2> DEFINE k == l + 1
             T == PathIn(m, r, v, k)
             T2 == PathIn(m2, r, v, k)
  <2>1. k \in 1 .. 4 /\ (\A g : g \in T2 /\ g # f <=> g \in T)
    BY <1>4
  <2>2. PathIn(m, r, v, l) = BelowIn(m, T, v, k) /\ PathIn(m2, r, v, l) = BelowIn(m2, T2, v, k)
    BY PathsAre
  <2>3. \A g \in T : g \in Frames /\ o[g].use = "table" /\ o[g].level = k
    BY <1>1, <2>1
  <2>4. \A g \in BelowIn(m, T, v, k) : g # f
    <3>1. l \in 1 .. 4
      OBVIOUS
    <3> QED
      BY <1>1, <1>2, <2>2, <3>1
  <2> HIDE DEF k, T, T2
  <2>5. /\ \A e \in EntriesIn(m, T, v, k) : e \in EntriesIn(m2, T2, v, k)
        /\ \A e \in EntriesIn(m2, T2, v, k) : e \in EntriesIn(m, T, v, k) \/ e.frame = f
    BY <2>1, <2>3, GrownEntries
  <2>6. /\ \A g : g \in BelowIn(m, T, v, k) <=> \E e \in EntriesIn(m, T, v, k) : g = e.frame
        /\ \A g : g \in BelowIn(m2, T2, v, k) <=> \E e \in EntriesIn(m2, T2, v, k) : g = e.frame
    BY DEF BelowIn
  <2>7. \A g : g \in BelowIn(m2, T2, v, k) /\ g # f <=> g \in BelowIn(m, T, v, k)
    BY <2>4, <2>5, <2>6
  <2> QED
    BY <2>2, <2>7
<1> HIDE DEF S
<1>5. \A l \in 1 .. 4 : l \in S
  BY <1>3, <1>4, DownLevels
<1>6. \A l \in 1 .. 4 : \A g \in PathIn(m, r, v, l) : g \in PathIn(m2, r, v, l)
  BY <1>5 DEF S
<1>7. TransIn(m2, r, v) = TransIn(m, r, v)
  <2> DEFINE T == PathIn(m, r, v, 1)
             T2 == PathIn(m2, r, v, 1)
  <2>1. 1 \in 1 .. 4 /\ (\A g : g \in T2 /\ g # f <=> g \in T)
    BY <1>5 DEF S
  <2>2. \A g \in T : g \in Frames /\ o[g].use = "table" /\ o[g].level = 1
    BY <1>1, <2>1
  <2> HIDE DEF T, T2
  <2>3. /\ \A e \in EntriesIn(m, T, v, 1) : e \in EntriesIn(m2, T2, v, 1)
        /\ \A e \in EntriesIn(m2, T2, v, 1) : e \in EntriesIn(m, T, v, 1) \/ (1 > 1 /\ e.frame = f)
    BY <2>1, <2>2, GrownEntries
  <2>4. EntriesIn(m2, T2, v, 1) = EntriesIn(m, T, v, 1)
    <3>1. \A e : e \in EntriesIn(m2, T2, v, 1) <=> e \in EntriesIn(m, T, v, 1)
      BY <2>3
    <3> QED
      BY <3>1 DEF EntriesIn
  <2> QED
    BY <2>4 DEF TransIn, T, T2
<1> QED
  BY <1>6, <1>7

\* One entry of one table is written.
Stored(m, m2, f, x, e) ==
  /\ m2[f][x] = e
  /\ \A y \in Indexes \ {x} : m2[f][y] = m[f][y]
  /\ \A g \in Frames \ {f} : m2[g] = m[g]

\* An entry of the lowest level is what the processor finds for the page
\* whose path it lies on, and for no other.
LEMMA StoredSame ==
  ASSUME NEW m, NEW o, Typed(m, o), Linked(m, o), NEW m2,
         NEW f \in Frames, o[f].level = 1, NEW x \in Indexes, NEW e, e # None,
         Stored(m, m2, f, x, e),
         NEW s \in Spaces, NEW r \in Frames, o[r] = Table(s, 4), NEW v \in Nat
  PROVE  /\ f \in PathIn(m, r, v, 1) /\ Index(v, 1) = x => TransIn(m2, r, v) = {e}
         /\ ~ (f \in PathIn(m, r, v, 1) /\ Index(v, 1) = x) =>
              TransIn(m2, r, v) = TransIn(m, r, v)
<1> DEFINE T == PathIn(m, r, v, 1)
           y == Index(v, 1)
<1>1. PathIn(m2, r, v, 1) = T
  <2>1. ASSUME NEW g \in Frames, NEW k \in 1 .. 4, o[g] = Table(s, k), k > 1
        PROVE  m2[g] = m[g]
    <3>1. g # f
      BY <2>1, TableIs
    <3> QED
      BY <3>1 DEF Stored
  <2>2. LinksDown(m, o) /\ 1 \in 0 .. 4 /\ 1 \in 1 .. 4 /\ 1 >= 1
    BY DEF Linked
  <2>3. \A l \in 1 .. 4 : l >= 1 => PathIn(m2, r, v, l) = PathIn(m, r, v, l)
    BY <2>1, <2>2, PathKept
  <2> QED
    BY <2>2, <2>3
<1>2. \A g \in T : g \in Frames
  BY 1 \in 1 .. 4, PathTables DEF Linked
<1>3. \A g, h \in T : g = h
  BY 1 \in 1 .. 4, PathOne
<1>4. y \in Indexes
  BY 1 \in 1 .. 4, IndexIs
<1>5. TransIn(m, r, v) = EntriesIn(m, T, v, 1) /\ TransIn(m2, r, v) = EntriesIn(m2, T, v, 1)
  BY <1>1 DEF TransIn
<1> HIDE DEF T
<1>6. ASSUME f \in T, y = x
      PROVE  EntriesIn(m2, T, v, 1) = {e}
  <2>1. T = {f}
    BY <1>3, <1>6
  <2>2. m2[f][Index(v, 1)] = e
    BY <1>6 DEF Stored
  <2> QED
    BY <2>1, <2>2 DEF EntriesIn
<1>7. ASSUME ~ (f \in T /\ y = x)
      PROVE  EntriesIn(m2, T, v, 1) = EntriesIn(m, T, v, 1)
  <2>1. \A g \in T : m2[g][y] = m[g][y]
    BY <1>2, <1>4, <1>7 DEF Stored
  <2> QED
    BY <2>1 DEF EntriesIn
<1> QED
  BY <1>5, <1>6, <1>7 DEF T

-----------------------------------------------------------------------------
(* What handing out frames and writing to tables does to the trees *)

\* The free frames of F become rec.
HandsOut(o, o2, F, rec) ==
  /\ \A g \in F : g \in Frames /\ o[g].use = "free" /\ o2[g] = rec
  /\ \A g \in Frames \ F : o2[g] = o[g]

LEMMA MineKept ==
  ASSUME NEW o, NEW o2, NEW F, NEW rec, HandsOut(o, o2, F, rec),
         NEW f, NEW s, Mine(o, f, s)
  PROVE  Mine(o2, f, s)
<1>1. f \in Frames /\ o[f].use # "free"
  BY DEF Mine
<1>2. f \notin F
  BY <1>1 DEF HandsOut
<1>3. o2[f] = o[f]
  BY <1>1, <1>2 DEF HandsOut
<1> QED
  BY <1>3 DEF Mine

LEMMA TablesStay ==
  ASSUME NEW o, NEW o2, NEW F, NEW rec, HandsOut(o, o2, F, rec),
         NEW g \in Frames, o[g].use = "table"
  PROVE  g \notin F /\ o2[g] = o[g]
BY DEF HandsOut

\* Frames for anything but tables change no tree.
LEMMA TreesStay ==
  ASSUME NEW m, NEW o, NEW o2, NEW F, NEW rec, HandsOut(o, o2, F, rec), rec.use # "table",
         NEW roots
  PROVE  /\ RootsIn(o, roots) => RootsIn(o2, roots)
         /\ Linked(m, o) => Linked(m, o2)
         /\ UserIn(m, o) => UserIn(m, o2)
<1>1. \A g \in Frames : o[g].use = "table" \/ o2[g].use = "table" => o2[g] = o[g]
  BY DEF HandsOut
<1>2. \A g \in Frames : \A s \in Spaces : o2[g] = Table(s, 4) <=> o[g] = Table(s, 4)
  BY <1>1, TableIs
<1>3. \A g \in Frames : \A x \in Indexes :
        LinkAt(m, o2, g, x) <=> LinkAt(m, o, g, x)
  BY <1>1 DEF LinkAt
<1>4. ASSUME LinksDown(m, o)
      PROVE  LinksDown(m, o2)
  <2> SUFFICES ASSUME NEW g \in Frames, NEW x \in Indexes, LinkAt(m, o2, g, x)
               PROVE  m[g][x].frame \in Frames /\
                      o2[m[g][x].frame] = Table(o2[g].space, o2[g].level - 1)
    BY DEF LinksDown
  <2>1. LinkAt(m, o, g, x) /\ o2[g] = o[g]
    BY <1>1, <1>3 DEF LinkAt
  <2>2. m[g][x].frame \in Frames /\ o[m[g][x].frame] = Table(o[g].space, o[g].level - 1)
    BY <1>4, <2>1 DEF LinksDown
  <2>3. o2[m[g][x].frame] = o[m[g][x].frame]
    BY <1>1, <2>2, TableIs
  <2> QED
    BY <2>1, <2>2, <2>3
<1>5. LinkedOnce(m, o) => LinkedOnce(m, o2)
  BY <1>3 DEF LinkedOnce
<1>6. ASSUME UserIn(m, o)
      PROVE  UserIn(m, o2)
  <2> SUFFICES ASSUME NEW g \in Frames, o2[g].use = "table", o2[g].level = 1,
                      NEW x \in Indexes, m[g][x] # None, "user" \in m[g][x].flags
               PROVE  Mine(o2, m[g][x].frame, o2[g].space)
    BY DEF UserIn
  <2>1. o2[g] = o[g]
    BY <1>1
  <2>2. Mine(o, m[g][x].frame, o[g].space)
    BY <1>6, <2>1 DEF UserIn
  <2> QED
    BY <2>1, <2>2, MineKept
<1> QED
  BY <1>2, <1>4, <1>5, <1>6 DEF RootsIn, Linked

\* Only the entry i of table t is new.
OnlyNew(m, m2, o, f, t, i) ==
  \A g \in Frames \ {f} : \A x \in Indexes :
    o[g].use = "table" /\ m2[g][x] # m[g][x] => g = t /\ x = i

\* A new table, named once or not at all.
LEMMA GrownLinked ==
  ASSUME NEW m, NEW o, Linked(m, o), NEW m2, NEW f, Grown(m, m2, o, f),
         NEW o2, NEW s, NEW k \in 1 .. 4, HandsOut(o, o2, {f}, Table(s, k)),
         NEW t, NEW i, OnlyNew(m, m2, o, f, t, i),
         t \in Frames \ {f} => o[t] = Table(s, k + 1)
  PROVE  Linked(m2, o2)
<1>1. f \in Frames /\ o[f].use = "free" /\ o2[f] = Table(s, k)
  BY DEF Grown, HandsOut
<1>2. \A g \in Frames : g # f => o2[g] = o[g]
  BY DEF HandsOut
<1>3. \A x \in Indexes : ~ LinkAt(m2, o2, f, x)
  BY DEF Grown, LinkAt
<1>4. ASSUME NEW g \in Frames, NEW x \in Indexes, LinkAt(m2, o2, g, x)
      PROVE  /\ g # f /\ o2[g] = o[g]
             /\ \/ /\ m2[g][x] = m[g][x] /\ LinkAt(m, o, g, x)
                   /\ m2[g][x].frame \in Frames /\ m2[g][x].frame # f
                   /\ o[m2[g][x].frame] = Table(o[g].space, o[g].level - 1)
                \/ m2[g][x].frame = f /\ g = t /\ x = i
  <2>1. g # f /\ o2[g] = o[g]
    BY <1>2, <1>3, <1>4
  <2>2. CASE m2[g][x] = m[g][x]
    <3>1. LinkAt(m, o, g, x)
      BY <1>4, <2>1, <2>2 DEF LinkAt
    <3>2. m[g][x].frame \in Frames /\ o[m[g][x].frame] = Table(o[g].space, o[g].level - 1)
      BY <3>1 DEF Linked, LinksDown
    <3>3. m[g][x].frame # f
      BY <1>1, <3>2, TableIs
    <3> QED
      BY <2>1, <2>2, <3>1, <3>2, <3>3
  <2>3. CASE m2[g][x] # m[g][x]
    <3>1. o[g].use = "table"
      BY <1>4, <2>1 DEF LinkAt
    <3>2. m2[g][x].frame = f
      BY <2>1, <2>3, <3>1 DEF Grown
    <3>3. g = t /\ x = i
      BY <2>1, <2>3, <3>1 DEF OnlyNew
    <3> QED
      BY <2>1, <3>2, <3>3
  <2> QED
    BY <2>2, <2>3
<1>5. LinksDown(m2, o2)
  <2> SUFFICES ASSUME NEW g \in Frames, NEW x \in Indexes, LinkAt(m2, o2, g, x)
               PROVE  m2[g][x].frame \in Frames /\
                      o2[m2[g][x].frame] = Table(o2[g].space, o2[g].level - 1)
    BY DEF LinksDown
  <2>1. CASE m2[g][x].frame # f
    <3>1. /\ m2[g][x].frame \in Frames /\ o2[g] = o[g]
          /\ o[m2[g][x].frame] = Table(o[g].space, o[g].level - 1)
      BY <1>4, <2>1
    <3>2. o2[m2[g][x].frame] = o[m2[g][x].frame]
      BY <1>2, <2>1, <3>1
    <3> QED
      BY <3>1, <3>2
  <2>2. CASE m2[g][x].frame = f
    <3>1. g # f /\ o2[g] = o[g] /\ g = t
      BY <1>4, <2>2
    <3>2. o2[g] = Table(s, k + 1)
      BY <3>1
    <3>3. o2[g].space = s /\ o2[g].level - 1 = k
      BY <3>2, TableIs
    <3> QED
      BY <1>1, <2>2, <3>3
  <2> QED
    BY <2>1, <2>2
<1>6. LinkedOnce(m2, o2)
  <2> SUFFICES ASSUME NEW g \in Frames, NEW h \in Frames, NEW x \in Indexes, NEW y \in Indexes,
                      LinkAt(m2, o2, g, x), LinkAt(m2, o2, h, y),
                      m2[g][x].frame = m2[h][y].frame
               PROVE  g = h /\ x = y
    BY DEF LinkedOnce
  <2>1. CASE m2[g][x].frame = f
    <3>1. g = t /\ x = i
      BY <1>4, <2>1
    <3>2. m2[h][y].frame = f
      BY <2>1
    <3>3. h = t /\ y = i
      BY <1>4, <3>2
    <3> QED
      BY <3>1, <3>3
  <2>2. CASE m2[g][x].frame # f
    <3>1. LinkAt(m, o, g, x) /\ m2[g][x] = m[g][x] /\ LinkAt(m, o, h, y) /\ m2[h][y] = m[h][y]
      BY <1>4, <2>2
    <3>2. m[g][x].frame = m[h][y].frame
      BY <3>1
    <3> QED
      BY <3>1, <3>2 DEF Linked, LinkedOnce
  <2> QED
    BY <2>1, <2>2
<1> QED
  BY <1>5, <1>6 DEF Linked

LEMMA GrownUser ==
  ASSUME NEW m, NEW o, UserIn(m, o), NEW m2, NEW f, Grown(m, m2, o, f),
         NEW o2, NEW rec, HandsOut(o, o2, {f}, rec)
  PROVE  UserIn(m2, o2)
<1> SUFFICES ASSUME NEW g \in Frames, o2[g].use = "table", o2[g].level = 1,
                    NEW x \in Indexes, m2[g][x] # None, "user" \in m2[g][x].flags
             PROVE  Mine(o2, m2[g][x].frame, o2[g].space)
  BY DEF UserIn
<1>1. g # f
  BY DEF Grown
<1>2. o2[g] = o[g]
  BY <1>1 DEF HandsOut
<1>3. m2[g][x] = m[g][x]
  BY <1>1, <1>2 DEF Grown
<1>4. Mine(o, m[g][x].frame, o[g].space)
  BY <1>2, <1>3 DEF UserIn
<1> QED
  BY <1>2, <1>3, <1>4, MineKept

\* An entry of the lowest level is no link.
LEMMA StoredLinked ==
  ASSUME NEW m, NEW o, Linked(m, o), NEW m2, NEW f, o[f].level = 1,
         NEW x, NEW e, Stored(m, m2, f, x, e)
  PROVE  Linked(m2, o)
<1>1. \A g \in Frames : \A y \in Indexes :
        LinkAt(m2, o, g, y) \/ LinkAt(m, o, g, y) =>
          LinkAt(m2, o, g, y) /\ LinkAt(m, o, g, y) /\ m2[g][y] = m[g][y]
  <2> SUFFICES ASSUME NEW g \in Frames, NEW y \in Indexes,
                      LinkAt(m2, o, g, y) \/ LinkAt(m, o, g, y)
               PROVE  LinkAt(m2, o, g, y) /\ LinkAt(m, o, g, y) /\ m2[g][y] = m[g][y]
    OBVIOUS
  <2>1. g # f
    BY DEF LinkAt
  <2>2. m2[g] = m[g]
    BY <2>1 DEF Stored
  <2> QED
    BY <2>2 DEF LinkAt
<1>2. LinksDown(m2, o)
  BY <1>1 DEF Linked, LinksDown
<1>3. LinkedOnce(m2, o)
  BY <1>1 DEF Linked, LinkedOnce
<1> QED
  BY <1>2, <1>3 DEF Linked

LEMMA StoredUser ==
  ASSUME NEW m, NEW o, UserIn(m, o), NEW m2, NEW f,
         NEW x, NEW e, Stored(m, m2, f, x, e), "user" \in e.flags => Mine(o, e.frame, o[f].space)
  PROVE  UserIn(m2, o)
<1> SUFFICES ASSUME NEW g \in Frames, o[g].use = "table", o[g].level = 1,
                    NEW y \in Indexes, m2[g][y] # None, "user" \in m2[g][y].flags
             PROVE  Mine(o, m2[g][y].frame, o[g].space)
  BY DEF UserIn
<1>1. CASE g = f /\ y = x
  BY <1>1 DEF Stored
<1>2. CASE ~ (g = f /\ y = x)
  <2>1. m2[g][y] = m[g][y]
    BY <1>2 DEF Stored
  <2> QED
    BY <2>1 DEF UserIn
<1> QED
  BY <1>1, <1>2

-----------------------------------------------------------------------------
(* The invariant and the steps in these terms *)

Segments == Seq([virt : Nat, phys : Nat, pages : Nat, flags : {Rw, RwUser}])

OnPath ==
  pc \in Mapping =>
    /\ rootTable[space] \in Frames
    /\ {table} = PathIn(mem, rootTable[space], vaddr, level)
    /\ level < 4 => todo # <<>> /\ at < Head(todo).pages

LEMMA WalkIs == WalkInv <=> OnPath
<1> DEFINE r == rootTable[space]
           w == Head(todo).virt + at
           t3 == Below({r}, w, 4)
           t2 == Below(t3, w, 3)
           t1 == Below(t2, w, 2)
           P == IF level = 4 THEN {r} ELSE <<t1, t2, t3>>[level]
<1>1. WalkInv <=>
        (pc \in Mapping =>
           /\ rootTable[space] \in Frames
           /\ {table} = P
           /\ level < 4 => todo # <<>> /\ at < Head(todo).pages)
  BY DEF WalkInv
<1>2. \A T, v, l : Below(T, v, l) = BelowIn(mem, T, v, l)
  BY Zenon DEF BelowIn, EntriesIn, Below, EntriesFor
<1>3. /\ t3 = BelowIn(mem, {r}, w, 4)
      /\ t2 = BelowIn(mem, BelowIn(mem, {r}, w, 4), w, 3)
      /\ t1 = BelowIn(mem, BelowIn(mem, BelowIn(mem, {r}, w, 4), w, 3), w, 2)
  BY <1>2, Zenon
<1> HIDE DEF t1, t2, t3
<1>4. P = PathIn(mem, r, w, level)
  BY <1>3 DEF PathIn
<1> HIDE DEF P
<1> QED
  BY <1>1, <1>4, Zenon DEF OnPath, vaddr, r, w

LEMMA TranslationIs ==
  ASSUME NEW r, NEW v
  PROVE  Translation(r, v) = TransIn(mem, r, v)
<1>1. PathIn(mem, r, v, 1) = BelowIn(mem, BelowIn(mem, BelowIn(mem, {r}, v, 4), v, 3), v, 2)
  BY PathsAre, 1 \in 1 .. 3, 2 \in 1 .. 3, 3 \in 1 .. 3, 1 + 1 = 2, 2 + 1 = 3, 3 + 1 = 4
<1> QED
  BY <1>1, Zenon DEF Translation, TransIn, BelowIn, EntriesIn, Below, EntriesFor

\* The next page to map.
LEMMA RegionIs ==
  ASSUME todo \in Segments, todo # <<>>
  PROVE  /\ Head(todo) = todo[1] /\ 1 \in DOMAIN todo
         /\ Head(todo).virt \in Nat /\ Head(todo).phys \in Nat /\ Head(todo).pages \in Nat
         /\ Head(todo).flags \in {Rw, RwUser}
         /\ Tail(todo) \in Segments
<1> DEFINE R == [virt : Nat, phys : Nat, pages : Nat, flags : {Rw, RwUser}]
<1>1. \A q \in Seq(R) : q # <<>> =>
        /\ Head(q) = q[1] /\ 1 \in DOMAIN q /\ q[1] \in R /\ Tail(q) \in Seq(R)
  <2> HIDE DEF R
  <2> QED
    OBVIOUS
<1>2. \A e \in R : /\ e.virt \in Nat /\ e.phys \in Nat /\ e.pages \in Nat
                    /\ e.flags \in {Rw, RwUser}
  <2> HIDE DEF Rw, RwUser
  <2> QED
    OBVIOUS
<1>3. Segments = Seq(R)
  BY DEF Segments
<1> HIDE DEF R
<1> QED
  BY <1>1, <1>2, <1>3

\* MapPage is in a table of its space, of the level it thinks.
LEMMA PlaceIs ==
  ASSUME TypeOK, TablesAreTrees, WalkInv, pc \in Mapping
  PROVE  table \in Frames /\ owner[table] = Table(space, level)
<1>1. /\ rootTable[space] \in Frames
      /\ {table} = PathIn(mem, rootTable[space], vaddr, level)
      /\ level < 4 => todo # <<>>
  BY WalkIs DEF OnPath
<1>2. /\ space \in Spaces /\ level \in 1 .. 4 /\ at \in Nat /\ todo \in Segments
      /\ Typed(mem, owner)
  BY DEF TypeOK, Typed, Segments
<1>3. RootsIn(owner, rootTable) /\ Linked(mem, owner)
  BY TreesAre
<1>4. owner[rootTable[space]] = Table(space, 4)
  BY <1>1, <1>2, <1>3 DEF RootsIn
<1>5. CASE level = 4
  <2>1. table = rootTable[space]
    BY <1>1, <1>5, PathsAre
  <2> QED
    BY <1>1, <1>4, <1>5, <2>1
<1>6. CASE level # 4
  <2>1. vaddr \in Nat
    <3>1. todo # <<>>
      BY <1>1, <1>2, <1>6
    <3> QED
      BY <1>2, <3>1, RegionIs DEF vaddr
  <2> DEFINE r == rootTable[space]
             v == vaddr
  <2>2. /\ r \in Frames /\ owner[r] = Table(space, 4) /\ v \in Nat /\ LinksDown(mem, owner)
        /\ table \in PathIn(mem, r, v, level)
    BY <1>1, <1>3, <1>4, <2>1 DEF Linked
  <2> HIDE DEF r, v
  <2> QED
    BY <1>2, <2>2, PathTables
<1> QED
  BY <1>5, <1>6

\* The page allocator hands out free frames.
LEMMA PlacesAre ==
  ASSUME NEW n \in Nat, NEW f \in Places(n)
  PROVE  /\ f \in Frames /\ f \in Nat
         /\ \A g \in Run(f, n) : g \in Frames /\ owner[g].use = "free"
         /\ Run(f, 1) = {f}
<1>1. f \in Frames /\ \A g \in Run(f, n) : g \in Frames /\ owner[g].use = "free"
  BY DEF Places, Fits
<1>2. f \in Nat
  BY <1>1, SizesAssumption
<1>3. Run(f, 1) = {f}
  BY <1>2 DEF Run
<1> QED
  BY <1>1, <1>2, <1>3

LEMMA GivenIs ==
  ASSUME owner \in [Frames -> Owner], NEW n \in Nat, NEW f \in Places(n),
         NEW use, NEW s, NEW l, [use |-> use, space |-> s, level |-> l] \in Owner
  PROVE  /\ HandsOut(owner, Given(f, n, use, s, l), Run(f, n),
                     [use |-> use, space |-> s, level |-> l])
         /\ Given(f, n, use, s, l) \in [Frames -> Owner]
<1> DEFINE rec == [use |-> use, space |-> s, level |-> l]
           o2 == Given(f, n, use, s, l)
<1>1. \A g \in Run(f, n) : g \in Frames /\ owner[g].use = "free"
  BY PlacesAre
<1>2. rec \in Owner
  OBVIOUS
<1>3. o2 = [g \in Frames |-> IF g \in Run(f, n) THEN rec ELSE owner[g]]
  BY DEF Given
<1> HIDE DEF rec, o2
<1>4. o2 \in [Frames -> Owner]
  BY <1>2, <1>3
<1>5. HandsOut(owner, o2, Run(f, n), rec)
  BY <1>1, <1>3 DEF HandsOut
<1> QED
  BY <1>4, <1>5 DEF o2, rec

LEMMA TableOwner ==
  ASSUME NEW s \in Spaces, NEW l \in 1 .. 4
  PROVE  [use |-> "table", space |-> s, level |-> l] \in Owner
BY DEF Owner

LEMMA OthersOwner ==
  ASSUME NEW s \in Spaces \cup {None}, NEW use \in {"stack", "kstack", "segment", "heap"}
  PROVE  [use |-> use, space |-> s, level |-> 0] \in Owner
BY DEF Owner

LEMMA ZeroesAre ==
  /\ Zeroes \in [Indexes -> Entry \cup {None}]
  /\ \A x \in Indexes : Zeroes[x] = None
BY DEF Zeroes

\* A step that makes frame f a table of space s and level k, and at most names it
\* in the entry i of table t.
Tables(f, s, k, t, i) ==
  /\ Typed(mem', owner')
  /\ Grown(mem, mem', owner, f)
  /\ HandsOut(owner, owner', {f}, Table(s, k))
  /\ OnlyNew(mem, mem', owner, f, t, i)
  /\ \A g \in Frames : g # f /\ g # t => mem'[g] = mem[g]

MemType == [Frames -> [Indexes -> Entry \cup {None}]]

LEMMA HeadPage ==
  ASSUME TypeOK, todo # <<>>
  PROVE  vaddr \in Nat /\ Index(vaddr, level) \in Indexes /\ Index(vaddr, 1) \in Indexes
<1>1. todo \in Segments /\ at \in Nat /\ level \in 1 .. 4 /\ 1 \in 1 .. 4
  BY DEF TypeOK, Segments
<1>2. vaddr \in Nat
  BY <1>1, RegionIs DEF vaddr
<1> QED
  BY <1>1, <1>2, IndexIs

LEMMA MakeTableIs ==
  ASSUME TypeOK, TablesAreTrees, WalkInv, MakeTable
  PROVE  /\ pc \in Mapping /\ level \in 2 .. 4
         /\ table \in Frames /\ owner[table] = Table(space, level)
         /\ \E f \in Frames : f # table /\
              Tables(f, space, level - 1, table, Index(vaddr, level))
<1> DEFINE i == Index(vaddr, level)
<1>1. pc \in Mapping /\ todo # <<>> /\ level > 1 /\ mem[table][i] = None
  BY DEF MakeTable, Walking, Here
<1>2. /\ mem \in MemType /\ owner \in [Frames -> Owner]
      /\ space \in Spaces /\ level \in 1 .. 4
  BY DEF TypeOK, MemType
<1>3. table \in Frames /\ owner[table] = Table(space, level)
  BY <1>1, PlaceIs
<1>4. i \in Indexes
  BY <1>1, HeadPage
<1>5. PICK f \in Places(1) :
        /\ owner' = Given(f, 1, "table", space, level - 1)
        /\ mem' = [Cleared(f) EXCEPT ![table][i] = [frame |-> f, flags |-> RwUser]]
  BY DEF MakeTable
<1> HIDE DEF i
<1>6. f \in Frames /\ f \in Nat /\ owner[f].use = "free" /\ Run(f, 1) = {f}
  BY PlacesAre
<1>7. f # table
  BY <1>3, <1>6, TableIs
<1>8. owner' \in [Frames -> Owner] /\ HandsOut(owner, owner', {f}, Table(space, level - 1))
  <2> DEFINE k == level - 1
  <2>1. k \in 1 .. 4
    BY <1>1, <1>2
  <2> HIDE DEF k
  <2>2. [use |-> "table", space |-> space, level |-> k] \in Owner
    BY <1>2, <2>1, TableOwner
  <2>3. /\ HandsOut(owner, Given(f, 1, "table", space, k), {f}, Table(space, k))
        /\ Given(f, 1, "table", space, k) \in [Frames -> Owner]
    BY <1>2, <1>6, <2>2, GivenIs DEF Table
  <2>4. owner' = Given(f, 1, "table", space, k)
    BY <1>5 DEF k
  <2> QED
    BY <2>3, <2>4, Zenon DEF k
<1> DEFINE e == [frame |-> f, flags |-> RwUser]
           row == [mem[table] EXCEPT ![i] = e]
<1>9. e \in Entry /\ e # None /\ e.frame = f
  BY <1>6, ContentsAssumption DEF Entry
<1> HIDE DEF e
<1>10. /\ mem' = [[mem EXCEPT ![f] = Zeroes] EXCEPT ![table] = row]
  <2>1. mem' = [[mem EXCEPT ![f] = Zeroes] EXCEPT ![table][i] = e]
    BY <1>5 DEF Cleared, e
  <2>2. [mem EXCEPT ![f] = Zeroes][table] = mem[table]
    BY <1>2, <1>3, <1>7 DEF MemType
  <2> QED
    BY <2>1, <2>2
<1>11. /\ row \in [Indexes -> Entry \cup {None}] /\ row[i] = e
       /\ \A x \in Indexes : x # i => row[x] = mem[table][x]
  BY <1>2, <1>3, <1>4, <1>9 DEF MemType
<1> HIDE DEF row
<1>12. mem' \in MemType
  BY <1>2, <1>10, <1>11, ZeroesAre DEF MemType
<1>13. mem'[f] = Zeroes /\ mem'[table] = row
       /\ \A g \in Frames : g # f /\ g # table => mem'[g] = mem[g]
  BY <1>2, <1>3, <1>6, <1>7, <1>10 DEF MemType
<1>14. Grown(mem, mem', owner, f)
  <2>1. owner[table].level > 1
    BY <1>1, <1>3, TableIs
  <2>2. ASSUME NEW g \in Frames \ {f}, NEW x \in Indexes
        PROVE  \/ mem'[g][x] = mem[g][x]
               \/ owner[g].level > 1 /\ mem[g][x] = None /\ mem'[g][x] # None
                  /\ mem'[g][x].frame = f
    <3>1. CASE g = table /\ x = i
      BY <1>1, <1>9, <1>11, <1>13, <2>1, <3>1 DEF i
    <3>2. CASE g = table /\ x # i
      BY <1>11, <1>13, <3>2
    <3>3. CASE g # table
      BY <1>13, <3>3
    <3> QED
      BY <3>1, <3>2, <3>3
  <2> QED
    BY <1>6, <1>13, <2>2, ZeroesAre DEF Grown
<1>15. OnlyNew(mem, mem', owner, f, table, i)
  BY <1>11, <1>13 DEF OnlyNew
<1>16. Tables(f, space, level - 1, table, i)
  BY <1>8, <1>12, <1>13, <1>14, <1>15 DEF Tables, Typed, MemType
<1> QED
  BY <1>1, <1>2, <1>3, <1>6, <1>7, <1>16 DEF i

LEMMA NewTablesIs ==
  ASSUME TypeOK, NEW f \in Places(1), NEW regions, NewTables(f, regions)
  PROVE  f \in Frames /\ Tables(f, space, 4, None, None)
<1>1. /\ mem \in MemType /\ owner \in [Frames -> Owner] /\ space \in Spaces
  BY DEF TypeOK, MemType
<1>2. /\ owner' = Given(f, 1, "table", space, 4)
      /\ mem' = [mem EXCEPT ![f] = Zeroes]
  BY DEF NewTables, Cleared
<1>3. f \in Frames /\ owner[f].use = "free" /\ Run(f, 1) = {f}
  <2>1. f \in Frames /\ Run(f, 1) = {f} /\ \A g \in Run(f, 1) : owner[g].use = "free"
    BY 1 \in Nat, PlacesAre
  <2>2. f \in Run(f, 1)
    BY <2>1
  <2> QED
    BY <2>1, <2>2
<1>4. owner' \in [Frames -> Owner] /\ HandsOut(owner, owner', {f}, Table(space, 4))
  <2>1. [use |-> "table", space |-> space, level |-> 4] \in Owner
    BY <1>1, 4 \in 1 .. 4, TableOwner
  <2>2. /\ HandsOut(owner, Given(f, 1, "table", space, 4), {f}, Table(space, 4))
        /\ Given(f, 1, "table", space, 4) \in [Frames -> Owner]
    <3>1. /\ HandsOut(owner, Given(f, 1, "table", space, 4), Run(f, 1),
                      [use |-> "table", space |-> space, level |-> 4])
          /\ Given(f, 1, "table", space, 4) \in [Frames -> Owner]
      BY <1>1, <2>1, 1 \in Nat, GivenIs
    <3> QED
      BY <1>3, <3>1, Zenon DEF Table
  <2> QED
    BY <1>2, <2>2, Zenon
<1>5. mem' \in MemType /\ mem'[f] = Zeroes /\ \A g \in Frames : g # f => mem'[g] = mem[g]
  BY <1>1, <1>2, <1>3, ZeroesAre DEF MemType
<1>6. Grown(mem, mem', owner, f)
  BY <1>3, <1>5, ZeroesAre DEF Grown
<1>7. OnlyNew(mem, mem', owner, f, None, None)
  BY <1>5 DEF OnlyNew
<1> QED
  BY <1>3, <1>4, <1>5, <1>6, <1>7 DEF Tables, Typed, MemType

LEMMA StoreEntryIs ==
  ASSUME TypeOK, TablesAreTrees, WalkInv, StoreEntry
  PROVE  /\ pc \in Mapping /\ level = 1 /\ todo # <<>> /\ at < Head(todo).pages
         /\ table \in Frames /\ owner[table] = Table(space, 1)
         /\ Typed(mem', owner)
         /\ [frame |-> Head(todo).phys + at, flags |-> Head(todo).flags] \in Entry
         /\ Stored(mem, mem', table, Index(vaddr, 1),
                   [frame |-> Head(todo).phys + at, flags |-> Head(todo).flags])
<1> DEFINE i == Index(vaddr, 1)
           e == [frame |-> Head(todo).phys + at, flags |-> Head(todo).flags]
<1>1. pc \in Mapping /\ todo # <<>> /\ level = 1 /\ at < Head(todo).pages
  BY DEF StoreEntry, Walking
<1>2. /\ mem \in MemType /\ owner \in [Frames -> Owner] /\ at \in Nat /\ todo \in Segments
  BY DEF TypeOK, MemType, Segments
<1>3. table \in Frames /\ owner[table] = Table(space, 1)
  BY <1>1, PlaceIs
<1>4. i \in Indexes
  BY <1>1, HeadPage
<1>5. mem' = [mem EXCEPT ![table][i] = e]
  BY DEF StoreEntry
<1>6. e \in Entry
  BY <1>1, <1>2, RegionIs DEF Entry
<1> HIDE DEF e, i
<1>7. mem' \in MemType /\ mem'[table][i] = e
  BY <1>2, <1>3, <1>4, <1>5, <1>6 DEF MemType
<1>8. /\ \A x \in Indexes \ {i} : mem'[table][x] = mem[table][x]
      /\ \A g \in Frames \ {table} : mem'[g] = mem[g]
  BY <1>2, <1>3, <1>4, <1>5 DEF MemType
<1>9. Typed(mem', owner)
  BY <1>2, <1>7 DEF Typed, MemType
<1> QED
  BY <1>1, <1>3, <1>6, <1>7, <1>8, <1>9 DEF Stored, e, i

\* A step that hands out frames for anything but tables.
Others ==
  /\ \E F, rec : HandsOut(owner, owner', F, rec) /\ rec.use # "table"
  /\ owner' \in [Frames -> Owner]
  /\ UNCHANGED <<mem, rootTable>>

LEMMA GivenOthers ==
  ASSUME owner \in [Frames -> Owner], NEW n \in Nat, NEW f \in Places(n),
         NEW s \in Spaces \cup {None}, NEW use \in {"stack", "kstack", "segment", "heap"},
         owner' = Given(f, n, use, s, 0), UNCHANGED <<mem, rootTable>>
  PROVE  /\ Others
         /\ HandsOut(owner, owner', Run(f, n), [use |-> use, space |-> s, level |-> 0])
<1> DEFINE rec == [use |-> use, space |-> s, level |-> 0]
<1>1. rec \in Owner /\ rec.use = use /\ use # "table"
  BY OthersOwner
<1>2. HandsOut(owner, owner', Run(f, n), rec) /\ owner' \in [Frames -> Owner]
  BY <1>1, GivenIs
<1> HIDE DEF rec
<1> QED
  BY <1>1, <1>2 DEF Others, rec

LEMMA MakeKernelStackIs ==
  ASSUME TypeOK, MakeKernelStack
  PROVE  Others
<1>1. owner \in [Frames -> Owner] /\ KStackExtent \in Nat
  BY SizesAssumption DEF TypeOK, KStackExtent
<1>2. PICK f \in Places(KStackExtent) : owner' = Given(f, KStackExtent, "kstack", None, 0)
  BY DEF MakeKernelStack
<1>3. UNCHANGED <<mem, rootTable>>
  BY DEF MakeKernelStack
<1> QED
  BY <1>1, <1>2, <1>3, GivenOthers

LEMMA NewThreadIs ==
  ASSUME TypeOK, NEW t, NEW p, NewThread(t, p)
  PROVE  Others
<1> DEFINE rec == [use |-> "heap", space |-> None, level |-> 0]
<1>1. owner \in [Frames -> Owner]
  BY DEF TypeOK
<1>2. PICK taken \in {{}} \cup {{f} : f \in Places(1)} :
        owner' = [f \in Frames |-> IF f \in taken THEN rec ELSE owner[f]]
  BY DEF NewThread
<1>3. UNCHANGED <<mem, rootTable>>
  BY DEF NewThread
<1>4. rec \in Owner /\ rec.use # "table"
  BY OthersOwner
<1>5. \A g \in taken : g \in Frames /\ owner[g].use = "free"
  <2> SUFFICES ASSUME NEW g \in taken
               PROVE  g \in Frames /\ owner[g].use = "free"
    OBVIOUS
  <2>1. g \in Places(1)
    OBVIOUS
  <2>2. g \in Frames /\ Run(g, 1) = {g} /\ \A h \in Run(g, 1) : owner[h].use = "free"
    BY <2>1, 1 \in Nat, PlacesAre
  <2>3. g \in Run(g, 1)
    BY <2>2
  <2> QED
    BY <2>2, <2>3
<1> HIDE DEF rec
<1>6. owner' \in [Frames -> Owner] /\ HandsOut(owner, owner', taken, rec)
  BY <1>1, <1>2, <1>4, <1>5 DEF HandsOut
<1> QED
  BY <1>3, <1>4, <1>6 DEF Others

LEMMA MineIn ==
  ASSUME NEW n \in Nat, NEW f \in Nat, NEW s, NEW use \in {"stack", "segment"},
         HandsOut(owner, owner', Run(f, n), [use |-> use, space |-> s, level |-> 0]),
         NEW j \in 0 .. (n - 1)
  PROVE  Mine(owner', f + j, s)
<1>1. f + j \in Run(f, n)
  BY DEF Run
<1>2. f + j \in Frames /\ owner'[f + j] = [use |-> use, space |-> s, level |-> 0]
  BY <1>1 DEF HandsOut
<1> QED
  BY <1>2 DEF Mine

LEMMA StackExtentIs == StackExtent \in Nat /\ StackPages \in Nat /\ StackPages <= StackExtent
<1>1. StackPages \in Nat /\ PageBytes \in Nat \ {0}
  BY SizesAssumption
<1>2. StackPages * PageBytes \in Nat /\ StackPages <= StackPages * PageBytes
  BY <1>1
<1> QED
  BY <1>1, <1>2 DEF StackExtent

LEMMA MakeStackIs ==
  ASSUME TypeOK, MakeStack
  PROVE  /\ Others
         /\ stackAddr' \in Nat
         /\ \A j \in 0 .. (StackPages - 1) : Mine(owner', stackAddr' + j, space)
<1>1. owner \in [Frames -> Owner] /\ space \in Spaces
  BY DEF TypeOK
<1>2. PICK f \in Places(StackExtent) :
        owner' = Given(f, StackExtent, "stack", space, 0) /\ stackAddr' = f
  BY DEF MakeStack
<1>3. UNCHANGED <<mem, rootTable>>
  BY DEF MakeStack
<1>4. /\ Others
      /\ HandsOut(owner, owner', Run(f, StackExtent), [use |-> "stack", space |-> space, level |-> 0])
  BY <1>1, <1>2, <1>3, StackExtentIs, GivenOthers
<1>5. f \in Nat
  BY StackExtentIs, PlacesAre
<1>6. \A j \in 0 .. (StackPages - 1) : Mine(owner', f + j, space)
  <2> SUFFICES ASSUME NEW j \in 0 .. (StackPages - 1)
               PROVE  Mine(owner', f + j, space)
    OBVIOUS
  <2>1. j \in 0 .. (StackExtent - 1)
    BY StackExtentIs
  <2> QED
    BY <1>4, <1>5, <2>1, StackExtentIs, MineIn
<1> QED
  BY <1>2, <1>4, <1>5, <1>6

LEMMA SegmentExtentIs ==
  ASSUME MoreTypes, segments # <<>>
  PROVE  /\ SegmentExtent(Head(segments)) \in Nat
         /\ 1 <= SegmentExtent(Head(segments))
         /\ Head(segments).virt \in Nat
         /\ Tail(segments) \in Seq(Segment)
<1>1. \A q \in Seq(Segment) : q # <<>> => Head(q) \in Segment /\ Tail(q) \in Seq(Segment)
  OBVIOUS
<1>2. Head(segments) \in Segment /\ Tail(segments) \in Seq(Segment)
  BY <1>1 DEF MoreTypes
<1> DEFINE s == Head(segments)
<1>3. s.virt \in Nat /\ s.memsz \in Nat
  BY <1>2 DEF Segment
<1> HIDE DEF s
<1> DEFINE n == s.memsz \div PageBytes
<1>4. n \in Nat
  BY <1>3, SizesAssumption, Quotient
<1>5. SegmentExtent(s) = IF n < 1 THEN 1 ELSE n
  BY DEF SegmentExtent
<1> HIDE DEF n
<1>6. SegmentExtent(s) \in Nat /\ 1 <= SegmentExtent(s)
  BY <1>4, <1>5
<1> QED
  BY <1>2, <1>3, <1>6 DEF s

LEMMA MakeSegmentIs ==
  ASSUME TypeOK, MoreTypes, MakeSegment
  PROVE  /\ Others
         /\ stackAddr' \in Nat /\ Head(segments).virt \in Nat
         /\ todo' = <<Region(Head(segments).virt, stackAddr', 1, RwUser)>>
         /\ Mine(owner', stackAddr', space)
<1> DEFINE s == Head(segments)
           n == SegmentExtent(s)
<1>1. owner \in [Frames -> Owner] /\ space \in Spaces
  BY DEF TypeOK
<1>2. PICK f \in Places(n) :
        /\ owner' = Given(f, n, "segment", space, 0) /\ stackAddr' = f
        /\ todo' = <<Region(s.virt, f, 1, RwUser)>>
  BY DEF MakeSegment
<1>3. UNCHANGED <<mem, rootTable>> /\ segments # <<>>
  BY DEF MakeSegment
<1>4. n \in Nat /\ 1 <= n /\ s.virt \in Nat
  BY <1>3, SegmentExtentIs
<1> HIDE DEF n, s
<1>5. /\ Others
      /\ HandsOut(owner, owner', Run(f, n), [use |-> "segment", space |-> space, level |-> 0])
  BY <1>1, <1>2, <1>3, <1>4, GivenOthers
<1>6. f \in Nat
  BY <1>4, PlacesAre
<1>7. Mine(owner', f, space)
  <2>1. 0 \in 0 .. (n - 1) /\ f + 0 = f
    BY <1>4, <1>6
  <2>2. Mine(owner', f + 0, space)
    BY <1>4, <1>5, <1>6, <2>1, MineIn
  <2> QED
    BY <2>1, <2>2
<1> QED
  BY <1>2, <1>4, <1>5, <1>6, <1>7 DEF s

-----------------------------------------------------------------------------
(* What each step does to memory *)

\* A step that makes a new address space.
RootStep ==
  \E f \in Frames :
    /\ Tables(f, space, 4, None, None)
    /\ rootTable[space] = None
    /\ rootTable' = [rootTable EXCEPT ![space] = f]
    /\ table' = f /\ level' = 4 /\ at' = 0

\* A step that makes a table below another.
TableStep ==
  /\ pc \in Mapping /\ level \in 2 .. 4
  /\ table \in Frames /\ owner[table] = Table(space, level)
  /\ \E f \in Frames : f # table /\ Tables(f, space, level - 1, table, Index(vaddr, level))
  /\ UNCHANGED rootTable

PageEntry == [frame |-> Head(todo).phys + at, flags |-> Head(todo).flags]

\* A step that maps the page.
PageStep ==
  /\ pc \in Mapping /\ level = 1 /\ todo # <<>> /\ at < Head(todo).pages
  /\ table \in Frames /\ owner[table] = Table(space, 1)
  /\ Typed(mem', owner) /\ PageEntry \in Entry
  /\ Stored(mem, mem', table, Index(vaddr, 1), PageEntry)
  /\ UNCHANGED <<owner, rootTable>>

LEMMA MakeKernelDirIs ==
  ASSUME TypeOK, SpacesInv, MakeKernelDir
  PROVE  RootStep /\ todo' = KernelRegions
<1>1. PICK f \in Places(1) : NewTables(f, KernelRegions)
  BY DEF MakeKernelDir
<1>2. rootTable[space] = None
  BY DEF MakeKernelDir, SpacesInv
<1>3. f \in Frames /\ Tables(f, space, 4, None, None)
  BY <1>1, NewTablesIs
<1> QED
  BY <1>1, <1>2, <1>3 DEF RootStep, NewTables

LEMMA MakeRootIs ==
  ASSUME TypeOK, SpacesInv, MakeRoot
  PROVE  RootStep /\ todo' = ThreadRegions
<1>1. PICK f \in Places(1) : NewTables(f, ThreadRegions)
  BY DEF MakeRoot
<1>2. rootTable[space] = None
  BY DEF MakeRoot, SpacesInv
<1>3. f \in Frames /\ Tables(f, space, 4, None, None)
  BY <1>1, NewTablesIs
<1> QED
  BY <1>1, <1>2, <1>3 DEF RootStep, NewTables

LEMMA StepKinds ==
  ASSUME TypeOK, MoreTypes, TablesAreTrees, WalkInv, SpacesInv, [Next]_vars
  PROVE  UNCHANGED memVars \/ Others \/ RootStep \/ TableStep \/ (StoreEntry /\ PageStep)
<1>1. CASE MakeTable
  BY <1>1, MakeTableIs DEF TableStep, MakeTable
<1>2. CASE Descend
  BY <1>2 DEF Descend
<1>3. CASE StoreEntry
  BY <1>3, StoreEntryIs DEF PageStep, StoreEntry, PageEntry
<1>4. CASE RegionDone
  BY <1>4 DEF RegionDone
<1>5. CASE MakeKernelDir
  BY <1>5, MakeKernelDirIs
<1>6. CASE MapFramebuffer
  BY <1>6 DEF MapFramebuffer
<1>7. CASE NoFramebuffer
  BY <1>7 DEF NoFramebuffer
<1>8. CASE SwapToPageTable
  BY <1>8 DEF SwapToPageTable
<1>9. CASE MakeKernelStack
  BY <1>9, MakeKernelStackIs
<1>10. CASE NewBspThread
  BY <1>10, NewThreadIs DEF NewBspThread
<1>11. CASE MakeStack
  BY <1>11, MakeStackIs
<1>12. CASE MakeRoot
  BY <1>12, MakeRootIs
<1>13. CASE ThreadMade
  BY <1>13 DEF ThreadMade
<1>14. CASE \E t \in Users : LoadFails(t)
  BY <1>14 DEF LoadFails
<1>15. CASE \E t \in Users, p \in Programs : LoadAndExecuteElf(t, p)
  BY <1>15, NewThreadIs DEF LoadAndExecuteElf
<1>16. CASE SkipSegment
  BY <1>16 DEF SkipSegment
<1>17. CASE MakeSegment
  BY <1>17, MakeSegmentIs
<1>18. CASE CopySegment
  BY <1>18 DEF CopySegment
<1>19. CASE CopyOverruns
  BY <1>19 DEF CopyOverruns
<1>20. CASE AddThread
  BY <1>20 DEF AddThread
<1>21. CASE \E t \in added : SwitchTo(t)
  BY <1>21 DEF SwitchTo
<1>22. CASE OutOfMemory
  BY <1>22 DEF OutOfMemory
<1>23. CASE PageFault
  BY <1>23 DEF PageFault
<1>24. CASE UNCHANGED vars
  BY <1>24 DEF vars
<1> QED
  BY <1>1, <1>2, <1>3, <1>4, <1>5, <1>6, <1>7, <1>8, <1>9, <1>10, <1>11, <1>12, <1>13,
     <1>14, <1>15, <1>16, <1>17, <1>18, <1>19, <1>20, <1>21, <1>22, <1>23, <1>24, Zenon
     DEF Next

\* Memory keeps its types, and the trees stay trees.
TreesInv == Typed(mem, owner) /\ RootsIn(owner, rootTable) /\ Linked(mem, owner)

LEMMA TreesInvIs ==
  TypeOK => (TablesAreTrees <=> TreesInv)
BY TreesAre, Zenon DEF TypeOK, Typed, TreesInv

LEMMA RootsNew ==
  ASSUME NEW o, NEW o2, NEW roots \in [Spaces -> Frames \cup {None}], RootsIn(o, roots),
         NEW f, NEW s \in Spaces, roots[s] = None, HandsOut(o, o2, {f}, Table(s, 4))
  PROVE  RootsIn(o2, [roots EXCEPT ![s] = f])
<1> DEFINE roots2 == [roots EXCEPT ![s] = f]
<1>1. /\ f \in Frames /\ o[f].use = "free" /\ o2[f] = Table(s, 4)
      /\ \A g \in Frames : g # f => o2[g] = o[g]
  BY DEF HandsOut
<1>2. roots2[s] = f /\ \A r \in Spaces : r # s => roots2[r] = roots[r]
  OBVIOUS
<1> HIDE DEF roots2
<1>3. SUFFICES ASSUME NEW r \in Spaces, NEW g \in Frames
               PROVE  roots2[r] = g <=> o2[g] = Table(r, 4)
  BY DEF RootsIn, roots2
<1>4. roots[r] = g <=> o[g] = Table(r, 4)
  BY DEF RootsIn
<1>5. roots[r] # f
  BY <1>1, TableIs DEF RootsIn
<1>6. g # None
  BY NamesAssumption
<1>7. Table(s, 4) = Table(r, 4) <=> r = s
  BY TableIs
<1>8. CASE r = s
  BY <1>1, <1>2, <1>4, <1>6, <1>8
<1>9. CASE r # s
  BY <1>1, <1>2, <1>4, <1>5, <1>7, <1>9
<1> QED
  BY <1>8, <1>9

LEMMA RootsSame ==
  ASSUME NEW o, NEW o2, NEW roots, RootsIn(o, roots),
         NEW f, NEW s \in Spaces, NEW k, k # 4, HandsOut(o, o2, {f}, Table(s, k))
  PROVE  RootsIn(o2, roots)
<1>1. /\ f \in Frames /\ o[f].use = "free" /\ o2[f] = Table(s, k)
      /\ \A g \in Frames : g # f => o2[g] = o[g]
  BY DEF HandsOut
<1>2. \A r : o[f] # Table(r, 4) /\ o2[f] # Table(r, 4)
  BY <1>1, TableIs
<1> QED
  BY <1>1, <1>2 DEF RootsIn

LEMMA TreesNext ==
  ASSUME TypeOK, MoreTypes, TablesAreTrees, WalkInv, SpacesInv, UserIn(mem, owner), TodoInv,
         [Next]_vars
  PROVE  TreesInv' /\ UserIn(mem, owner)'
<1>1. /\ Typed(mem, owner) /\ RootsIn(owner, rootTable) /\ Linked(mem, owner)
      /\ rootTable \in [Spaces -> Frames \cup {None}] /\ space \in Spaces
  BY TreesAre DEF TypeOK, Typed
<1>2. SUFFICES /\ Typed(mem', owner') /\ RootsIn(owner', rootTable')
               /\ Linked(mem', owner') /\ UserIn(mem', owner')
  BY DEF TreesInv
<1>3. CASE UNCHANGED memVars
  <2>1. mem' = mem /\ owner' = owner /\ rootTable' = rootTable
    BY <1>3 DEF memVars
  <2> QED
    BY <1>1, <2>1
<1>4. CASE Others
  <2>1. PICK F, rec : HandsOut(owner, owner', F, rec) /\ rec.use # "table"
    BY <1>4 DEF Others
  <2>2. mem' = mem /\ rootTable' = rootTable /\ owner' \in [Frames -> Owner]
    BY <1>4 DEF Others
  <2>3. RootsIn(owner', rootTable) /\ Linked(mem, owner') /\ UserIn(mem, owner')
    BY <1>1, <2>1, TreesStay
  <2>4. Typed(mem, owner')
    BY <1>1, <2>2 DEF Typed
  <2> QED
    BY <2>2, <2>3, <2>4
<1>5. CASE RootStep
  <2>1. PICK f \in Frames :
          /\ Tables(f, space, 4, None, None)
          /\ rootTable[space] = None
          /\ rootTable' = [rootTable EXCEPT ![space] = f]
    BY <1>5 DEF RootStep
  <2>2. /\ Typed(mem', owner') /\ Grown(mem, mem', owner, f)
        /\ HandsOut(owner, owner', {f}, Table(space, 4))
        /\ OnlyNew(mem, mem', owner, f, None, None)
    BY <2>1 DEF Tables
  <2>3. 4 \in 1 .. 4 /\ None \notin Frames
    BY NamesAssumption
  <2>4. Linked(mem', owner')
    BY <1>1, <2>2, <2>3, GrownLinked
  <2>5. UserIn(mem', owner')
    BY <2>2, GrownUser
  <2>6. RootsIn(owner', rootTable')
    BY <1>1, <2>1, <2>2, RootsNew
  <2> QED
    BY <2>2, <2>4, <2>5, <2>6
<1>6. CASE TableStep
  <2> DEFINE i == Index(vaddr, level)
             k == level - 1
  <2>1. /\ level \in 2 .. 4 /\ table \in Frames /\ owner[table] = Table(space, level)
        /\ rootTable' = rootTable
    BY <1>6 DEF TableStep
  <2>2. PICK f \in Frames : f # table /\ Tables(f, space, k, table, i)
    BY <1>6 DEF TableStep
  <2>3. /\ Typed(mem', owner') /\ Grown(mem, mem', owner, f)
        /\ HandsOut(owner, owner', {f}, Table(space, k))
        /\ OnlyNew(mem, mem', owner, f, table, i)
    BY <2>2 DEF Tables
  <2>4. k \in 1 .. 4 /\ k < 4 /\ level = k + 1
    BY <2>1
  <2> HIDE DEF k, i
  <2>5. owner[table] = Table(space, k + 1)
    BY <2>1, <2>4
  <2>6. Linked(mem', owner')
    BY <1>1, <2>3, <2>4, <2>5, GrownLinked
  <2>7. UserIn(mem', owner')
    BY <2>3, GrownUser
  <2>8. RootsIn(owner', rootTable')
    <3>1. k # 4
      BY <2>4
    <3> QED
      BY <1>1, <2>1, <2>3, <3>1, RootsSame
  <2> QED
    BY <2>3, <2>6, <2>7, <2>8
<1>7. CASE PageStep
  <2>1. /\ pc \in Mapping /\ todo # <<>> /\ at < Head(todo).pages
        /\ table \in Frames /\ owner[table] = Table(space, 1)
        /\ Typed(mem', owner)
        /\ Stored(mem, mem', table, Index(vaddr, 1), PageEntry)
        /\ owner' = owner /\ rootTable' = rootTable
    BY <1>7 DEF PageStep
  <2>2. Linked(mem', owner)
    <3>1. owner[table].level = 1
      BY <2>1, TableIs
    <3> QED
      BY <1>1, <2>1, <3>1, StoredLinked
  <2>3. "user" \in PageEntry.flags => Mine(owner, PageEntry.frame, space)
    <3>1. /\ Head(todo) = todo[1] /\ 1 \in DOMAIN todo /\ Head(todo).pages \in Nat
          /\ at \in Nat
      BY <2>1, RegionIs DEF TypeOK, Segments
    <3>2. at \in 0 .. (todo[1].pages - 1)
      BY <2>1, <3>1
    <3>3. "user" \in todo[1].flags => Mine(owner, todo[1].phys + at, space)
      BY <3>1, <3>2 DEF TodoInv
    <3> QED
      BY <3>1, <3>3 DEF PageEntry
  <2>4. owner[table].space = space
    BY <2>1, TableIs
  <2>5. UserIn(mem', owner)
    BY <2>1, <2>3, <2>4, StoredUser
  <2> QED
    BY <1>1, <2>1, <2>2, <2>5
<1> QED
  BY <1>3, <1>4, <1>5, <1>6, <1>7, StepKinds

-----------------------------------------------------------------------------
(* The regions *)

LEMMA MachineIs ==
  ASSUME TypeOK
  PROVE  /\ machine.kernel \in Nat /\ machine.kernelPages \in Nat
         /\ machine.window \in Nat /\ machine.screen \in Nat
         /\ machine.framebuffer # <<>> =>
              machine.framebuffer[1] \in Nat /\ machine.framebuffer[2] \in Nat
         /\ machine.cpus \in Seq(0 .. 255) /\ machine.bsp \in 0 .. 255
<1>1. machine \in [usable : SUBSET Nat, window : Nat, kernel : Nat, kernelPages : Nat,
                   framebuffer : {<<>>} \cup (Nat \X Nat), screen : Nat,
                   cpus : Seq(0 .. 255), bsp : 0 .. 255]
  BY MachinesAssumption DEF TypeOK
<1>2. machine.framebuffer = <<>> \/ machine.framebuffer \in Nat \X Nat
  BY <1>1
<1>3. machine.framebuffer # <<>> =>
        machine.framebuffer[1] \in Nat /\ machine.framebuffer[2] \in Nat
  BY <1>2
<1> QED
  BY <1>1, <1>3

LEMMA PlacesInMemory ==
  /\ KernelVirt \in Nat /\ HhdmVirt \in Nat /\ StackVirt \in Nat /\ KStackVirt \in Nat
  /\ StackPages \in Nat /\ KStackPages \in Nat
BY SizesAssumption

RegionType == [virt : Nat, phys : Nat, pages : Nat, flags : {Rw, RwUser}]

LEMMA RegionTyped ==
  ASSUME NEW v \in Nat, NEW f \in Nat, NEW n \in Nat, NEW fl \in {Rw, RwUser}
  PROVE  /\ Region(v, f, n, fl) \in RegionType
         /\ Region(v, f, n, fl).virt = v /\ Region(v, f, n, fl).phys = f
         /\ Region(v, f, n, fl).pages = n /\ Region(v, f, n, fl).flags = fl
<1> HIDE DEF Rw, RwUser
<1> QED
  BY DEF Region, RegionType

LEMMA KernelOnly == "user" \notin Rw
BY DEF Rw

LEMMA FramebufferTyped ==
  ASSUME TypeOK
  PROVE  FramebufferRegion \in RegionType /\ FramebufferRegion.flags = Rw
<1>1. CASE machine.framebuffer = <<>>
  <2>1. FramebufferRegion = Region(HhdmVirt, 0, 0, Rw)
    BY <1>1 DEF FramebufferRegion
  <2> QED
    BY <2>1, RegionTyped, PlacesInMemory
<1>2. CASE machine.framebuffer # <<>>
  <2> DEFINE v == HhdmVirt + machine.screen
             f == machine.framebuffer[1]
             n == machine.framebuffer[2]
  <2>1. FramebufferRegion = Region(v, f, n, Rw)
    BY <1>2 DEF FramebufferRegion
  <2>2. v \in Nat /\ f \in Nat /\ n \in Nat
    BY <1>2, MachineIs, PlacesInMemory
  <2> HIDE DEF v, f, n
  <2> QED
    BY <2>1, <2>2, RegionTyped
<1> QED
  BY <1>1, <1>2

LEMMA RegionsTyped ==
  ASSUME TypeOK, MoreTypes
  PROVE  /\ KernelRegion \in RegionType /\ KernelRegion.flags = Rw
         /\ WindowRegion \in RegionType /\ WindowRegion.flags = Rw
         /\ KStackRegion \in RegionType /\ KStackRegion.flags = Rw
         /\ StackRegion \in RegionType /\ StackRegion.phys = stackAddr
         /\ StackRegion.pages = StackPages
<1>1. KernelRegion \in RegionType /\ KernelRegion.flags = Rw
  <2> DEFINE f == machine.kernel
             n == machine.kernelPages
  <2>1. KernelRegion = Region(KernelVirt, f, n, Rw)
    BY DEF KernelRegion
  <2>2. f \in Nat /\ n \in Nat /\ KernelVirt \in Nat
    BY MachineIs, PlacesInMemory
  <2> HIDE DEF f, n
  <2> QED
    BY <2>1, <2>2, RegionTyped
<1>2. WindowRegion \in RegionType /\ WindowRegion.flags = Rw
  <2> DEFINE n == machine.window
  <2>1. WindowRegion = Region(HhdmVirt, 0, n, Rw)
    BY DEF WindowRegion
  <2>2. n \in Nat /\ HhdmVirt \in Nat
    BY MachineIs, PlacesInMemory
  <2> HIDE DEF n
  <2> QED
    BY <2>1, <2>2, RegionTyped
<1>3. KStackRegion \in RegionType /\ KStackRegion.flags = Rw
  <2> DEFINE f == kstack_phys[machine.bsp]
             n == KStackPages + 1
  <2>1. f \in Nat /\ n \in Nat
    <3> DEFINE b == machine.bsp
    <3>1. b \in 0 .. 255 /\ kstack_phys \in [0 .. 255 -> Nat] /\ KStackPages \in Nat
      BY MachineIs, PlacesInMemory DEF MoreTypes
    <3> HIDE DEF b
    <3>2. kstack_phys[b] \in Nat /\ n \in Nat
      BY <3>1
    <3> QED
      BY <3>2 DEF b
  <2>2. KStackRegion = Region(KStackVirt, f, n, Rw)
    BY DEF KStackRegion
  <2> HIDE DEF f, n
  <2> QED
    BY <2>1, <2>2, PlacesInMemory, RegionTyped
<1>4. /\ StackRegion \in RegionType /\ StackRegion.phys = stackAddr
      /\ StackRegion.pages = StackPages
  <2>1. stackAddr \in Nat
    BY DEF TypeOK
  <2> QED
    BY <2>1, PlacesInMemory, RegionTyped DEF StackRegion
<1> QED
  BY <1>1, <1>2, <1>3, <1>4

LEMMA SequencesOf ==
  ASSUME NEW a \in RegionType, NEW b \in RegionType, NEW c \in RegionType,
         NEW d \in RegionType, NEW e \in RegionType
  PROVE  /\ <<a>> \in Segments /\ <<a, b>> \in Segments /\ <<a, b, c, d, e>> \in Segments
<1>1. Segments = Seq(RegionType)
  BY DEF Segments, RegionType
<1> HIDE DEF RegionType
<1> QED
  BY <1>1

\* Nothing of the region is to be mapped for the user, or all of it is the
\* space's own.
Proper(o, g, s) ==
  "user" \in g.flags => \A j \in 0 .. (g.pages - 1) : Mine(o, g.phys + j, s)

LEMMA KernelRegionsAre ==
  ASSUME TypeOK, MoreTypes, NEW o, NEW s
  PROVE  /\ KernelRegions \in Segments
         /\ \A i \in DOMAIN KernelRegions : Proper(o, KernelRegions[i], s)
<1>1. KernelRegions \in Segments
  BY RegionsTyped, SequencesOf DEF KernelRegions
<1>2. \A i \in DOMAIN KernelRegions :
        KernelRegions[i] = KernelRegion \/ KernelRegions[i] = WindowRegion
  BY DEF KernelRegions
<1>3. Proper(o, KernelRegion, s) /\ Proper(o, WindowRegion, s)
  BY RegionsTyped, KernelOnly DEF Proper
<1> QED
  BY <1>1, <1>2, <1>3

LEMMA ThreadRegionsAre ==
  ASSUME TypeOK, MoreTypes, NEW o, NEW s,
         \A j \in 0 .. (StackPages - 1) : Mine(o, stackAddr + j, s)
  PROVE  /\ ThreadRegions \in Segments
         /\ \A i \in DOMAIN ThreadRegions : Proper(o, ThreadRegions[i], s)
<1>1. ThreadRegions \in Segments
  BY RegionsTyped, FramebufferTyped, SequencesOf DEF ThreadRegions
<1>2. \A i \in DOMAIN ThreadRegions :
        ThreadRegions[i] \in {KernelRegion, FramebufferRegion, StackRegion, WindowRegion,
                              KStackRegion}
  BY DEF ThreadRegions
<1>3. Proper(o, KernelRegion, s) /\ Proper(o, WindowRegion, s) /\ Proper(o, KStackRegion, s)
  BY RegionsTyped, KernelOnly DEF Proper
<1>4. Proper(o, FramebufferRegion, s)
  BY FramebufferTyped, KernelOnly DEF Proper
<1>5. Proper(o, StackRegion, s)
  BY RegionsTyped DEF Proper
<1> QED
  BY <1>1, <1>2, <1>3, <1>4, <1>5

LEMMA TodoIs ==
  TodoInv <=>
    /\ pc \notin Mapping \cup Stopped => todo = <<>>
    /\ pc = "root" => \A j \in 0 .. (StackPages - 1) : Mine(owner, stackAddr + j, space)
    /\ \A i \in DOMAIN todo : Proper(owner, todo[i], space)
BY Zenon DEF TodoInv, Proper

\* What a space owns it keeps.
LEMMA MineNext ==
  ASSUME TypeOK, MoreTypes, TablesAreTrees, WalkInv, SpacesInv, [Next]_vars,
         NEW f, NEW s, Mine(owner, f, s)
  PROVE  Mine(owner', f, s)
<1>1. CASE UNCHANGED memVars
  <2>1. owner' = owner
    BY <1>1 DEF memVars
  <2> QED
    BY <2>1
<1>2. CASE Others
  <2>1. PICK F, rec : HandsOut(owner, owner', F, rec)
    BY <1>2 DEF Others
  <2> QED
    BY <2>1, MineKept
<1>3. CASE RootStep
  <2>1. PICK g \in Frames : HandsOut(owner, owner', {g}, Table(space, 4))
    BY <1>3 DEF RootStep, Tables
  <2> QED
    BY <2>1, MineKept
<1>4. CASE TableStep
  <2>1. PICK g \in Frames : HandsOut(owner, owner', {g}, Table(space, level - 1))
    BY <1>4 DEF TableStep, Tables
  <2> QED
    BY <2>1, MineKept
<1>5. CASE PageStep
  <2>1. owner' = owner
    BY <1>5 DEF PageStep
  <2> QED
    BY <2>1
<1> QED
  BY <1>1, <1>2, <1>3, <1>4, <1>5, StepKinds

-----------------------------------------------------------------------------
(* Each part of the invariant is kept *)

Points == {"boot", "cpus", "stack", "root", "load", "idle"} \cup Mapping \cup Stopped

\* The types of everything but memory.
RestOK ==
  /\ machine \in Machines
  /\ rootTable \in [Spaces -> Frames \cup {None}] /\ currentDir \in Frames \cup {Limine}
  /\ pc \in Points /\ cpu \in Nat /\ at \in Nat /\ level \in 1 .. 4 /\ stackAddr \in Nat
  /\ space \in Spaces /\ added \subseteq Threads /\ todo \in Segments
  /\ table \in Frames \cup {None}
  /\ MoreTypes

LEMMA TypesAre ==
  TypeOK /\ MoreTypes <=> Typed(mem, owner) /\ RestOK
BY DEF TypeOK, Typed, RestOK, Segments, Points

Inv0 == TypeOK /\ MoreTypes /\ TablesAreTrees /\ WalkInv /\ SpacesInv /\ TodoInv

LEMMA PointsAre ==
  /\ {"boot", "cpus", "stack", "root", "load", "idle", "dir", "framebuffer", "thread",
      "segment", "halted", "fault", "overrun"} \subseteq Points
  /\ Mapping \cap Stopped = {}
BY DEF Points, Mapping, Stopped

LEMMA WalkTypes ==
  ASSUME Inv0
  PROVE  /\ MakeTable => RestOK'
         /\ Descend => RestOK'
         /\ StoreEntry => RestOK'
         /\ RegionDone => RestOK'
<1>1. RestOK
  BY TypesAre DEF Inv0
<1>2. ASSUME MakeTable
      PROVE  RestOK'
  BY <1>1, <1>2 DEF MakeTable, machineVars, loadVars, walkVars, ghosts, RestOK, MoreTypes
<1>3. ASSUME Descend
      PROVE  RestOK'
  <2>1. pc \in Mapping /\ level > 1 /\ Here # None /\ todo # <<>>
    BY <1>3 DEF Descend, Walking
  <2>2. level \in 1 .. 4 /\ table \in Frames /\ owner[table] = Table(space, level)
    BY <1>1, <2>1, PlaceIs DEF Inv0, RestOK
  <2>3. owner[table].use = "table" /\ owner[table].level > 1
    BY <2>1, <2>2, TableIs
  <2> DEFINE i == Index(vaddr, level)
  <2>4. i \in Indexes /\ mem[table][i] # None
    BY <2>1, HeadPage DEF Inv0, Here
  <2>5. Linked(mem, owner)
    BY TreesAre DEF Inv0
  <2>6. Here = mem[table][i]
    BY DEF Here
  <2> HIDE DEF i
  <2>7. mem[table][i].frame \in Frames
    BY <2>2, <2>3, <2>4, <2>5 DEF Linked, LinksDown, LinkAt
  <2>8. level' = level - 1 /\ level' \in 1 .. 4 /\ table' = Here.frame /\ table' \in Frames
    BY <1>3, <2>1, <2>2, <2>6, <2>7 DEF Descend
  <2> QED
    BY <1>1, <1>3, <2>8
       DEF Descend, machineVars, memVars, loadVars, ghosts, RestOK, MoreTypes
<1>4. ASSUME StoreEntry
      PROVE  RestOK'
  <2>1. pc \in Mapping
    BY <1>4 DEF StoreEntry, Walking
  <2>2. rootTable[space] \in Frames
    BY <2>1 DEF Inv0, SpacesInv
  <2>3. at' = at + 1 /\ at' \in Nat /\ level' = 4 /\ level' \in 1 .. 4
        /\ table' = rootTable[space]
    BY <1>1, <1>4 DEF StoreEntry, RestOK
  <2> QED
    BY <1>1, <1>4, <2>2, <2>3
       DEF StoreEntry, machineVars, loadVars, ghosts, RestOK, MoreTypes
<1>5. ASSUME RegionDone
      PROVE  RestOK'
  <2>1. Tail(todo) \in Segments
    BY <1>1, <1>5, RegionIs DEF RegionDone, RestOK
  <2> QED
    BY <1>1, <1>5, <2>1
       DEF RegionDone, machineVars, memVars, loadVars, ghosts, RestOK, MoreTypes
<1> QED
  BY <1>2, <1>3, <1>4, <1>5

LEMMA BootTypes ==
  ASSUME Inv0
  PROVE  /\ MakeKernelDir => RestOK'
         /\ MapFramebuffer => RestOK'
         /\ NoFramebuffer => RestOK'
         /\ SwapToPageTable => RestOK'
         /\ MakeKernelStack => RestOK'
<1>1. RestOK
  BY TypesAre DEF Inv0
<1>2. ASSUME MakeKernelDir
      PROVE  RestOK'
  <2>1. RootStep /\ todo' = KernelRegions
    BY <1>2, MakeKernelDirIs DEF Inv0
  <2>2. PICK f \in Frames : /\ rootTable' = [rootTable EXCEPT ![space] = f]
                            /\ table' = f /\ level' = 4 /\ at' = 0
    BY <2>1 DEF RootStep
  <2>3. todo' \in Segments
    BY <2>1, KernelRegionsAre DEF Inv0
  <2>4. pc' \in Points
    BY <1>2, PointsAre DEF MakeKernelDir
  <2>5. rootTable' \in [Spaces -> Frames \cup {None}]
    BY <1>1, <2>2 DEF RestOK
  <2>6. table' \in Frames /\ level' \in 1 .. 4 /\ at' \in Nat
    BY <2>2
  <2> QED
    BY <1>1, <1>2, <2>3, <2>4, <2>5, <2>6
       DEF MakeKernelDir, machineVars, loadVars, ghosts, RestOK, MoreTypes
<1>3. ASSUME MapFramebuffer
      PROVE  RestOK'
  <2>1. todo' \in Segments
    BY <1>3, FramebufferTyped, SequencesOf DEF MapFramebuffer, Inv0
  <2>2. pc' \in Points
    BY <1>3, PointsAre DEF MapFramebuffer
  <2> QED
    BY <1>1, <1>3, <2>1, <2>2
       DEF MapFramebuffer, machineVars, memVars, loadVars, ghosts, RestOK, MoreTypes
<1>4. ASSUME NoFramebuffer
      PROVE  RestOK'
  <2>1. pc' \in Points
    BY <1>4, PointsAre DEF NoFramebuffer
  <2> QED
    BY <1>1, <1>4, <2>1
       DEF NoFramebuffer, machineVars, memVars, loadVars, walkVars, ghosts, RestOK, MoreTypes
<1>5. ASSUME SwapToPageTable
      PROVE  RestOK'
  <2>1. pc' \in Points
    BY <1>5, PointsAre DEF SwapToPageTable
  <2>2. pc = "framebuffer" /\ pc \in Mapping
    BY <1>5 DEF SwapToPageTable, Mapping
  <2>3. rootTable[Kernel] \in Frames
    BY <2>2 DEF Inv0, SpacesInv
  <2> QED
    BY <1>1, <1>5, <2>1, <2>3
       DEF SwapToPageTable, machineVars, memVars, loadVars, walkVars, ghosts, RestOK, MoreTypes
<1>6. ASSUME MakeKernelStack
      PROVE  RestOK'
  <2>1. machine.cpus \in Seq(0 .. 255) /\ cpu \in Nat /\ cpu < Len(machine.cpus)
    BY <1>1, <1>6, MachineIs DEF MakeKernelStack, Inv0, RestOK
  <2>2. KStackExtent \in Nat
    BY PlacesInMemory DEF KStackExtent
  <2>3. PICK f \in Places(KStackExtent) :
          kstack_phys' = [kstack_phys EXCEPT ![machine.cpus[cpu + 1]] = f]
    BY <1>6 DEF MakeKernelStack
  <2>4. f \in Nat
    BY <2>2, PlacesAre
  <2>5. kstack_phys' \in [0 .. 255 -> Nat]
    BY <1>1, <2>3, <2>4 DEF RestOK, MoreTypes
  <2>6. cpu' \in Nat
    BY <1>6, <2>1 DEF MakeKernelStack
  <2> QED
    BY <1>1, <1>6, <2>5, <2>6
       DEF MakeKernelStack, machineVars, memVars, loadVars, walkVars, ghosts, RestOK, MoreTypes
<1> QED
  BY <1>2, <1>3, <1>4, <1>5, <1>6

LEMMA NewThreadTypes ==
  ASSUME Inv0, NEW t \in Threads, NEW p \in Seq(Segment), NewThread(t, p)
  PROVE  RestOK'
<1>1. RestOK
  BY TypesAre DEF Inv0
<1>2. pc' \in Points
  BY PointsAre DEF NewThread
<1>3. program' = [program EXCEPT ![t] = p]
  BY DEF NewThread
<1>4. program' = [r \in Threads |-> program'[r]]
  BY <1>1, <1>3 DEF RestOK, MoreTypes
<1>5. t \in Spaces
  BY DEF Spaces
<1> QED
  BY <1>1, <1>2, <1>4, <1>5
     DEF NewThread, machineVars, memVars, loadVars, walkVars, ghosts, RestOK, MoreTypes

LEMMA ThreadTypes ==
  ASSUME Inv0
  PROVE  /\ NewBspThread => RestOK'
         /\ MakeStack => RestOK'
         /\ MakeRoot => RestOK'
         /\ ThreadMade => RestOK'
<1>1. RestOK
  BY TypesAre DEF Inv0
<1>2. ASSUME NewBspThread
      PROVE  RestOK'
  <2>1. BspThread \in Threads /\ <<>> \in Seq(Segment) /\ NewThread(BspThread, <<>>)
    BY <1>2 DEF NewBspThread, Threads
  <2> QED
    BY <2>1, NewThreadTypes
<1>3. ASSUME MakeStack
      PROVE  RestOK'
  <2>1. stackAddr' \in Nat
    BY <1>3, MakeStackIs DEF Inv0
  <2>2. pc' \in Points
    BY <1>3, PointsAre DEF MakeStack
  <2> QED
    BY <1>1, <1>3, <2>1, <2>2
       DEF MakeStack, machineVars, memVars, loadVars, walkVars, ghosts, RestOK, MoreTypes
<1>4. ASSUME MakeRoot
      PROVE  RestOK'
  <2>1. RootStep /\ todo' = ThreadRegions
    BY <1>4, MakeRootIs DEF Inv0
  <2>2. PICK f \in Frames : /\ rootTable' = [rootTable EXCEPT ![space] = f]
                            /\ table' = f /\ level' = 4 /\ at' = 0
    BY <2>1 DEF RootStep
  <2>3. todo' \in Segments
    <3>1. \A j \in 0 .. (StackPages - 1) : Mine(owner, stackAddr + j, space)
      BY <1>4 DEF MakeRoot, Inv0, TodoInv
    <3> QED
      BY <2>1, <3>1, ThreadRegionsAre DEF Inv0
  <2>4. pc' \in Points
    BY <1>4, PointsAre DEF MakeRoot
  <2>5. rootTable' \in [Spaces -> Frames \cup {None}]
    BY <1>1, <2>2 DEF RestOK
  <2>6. table' \in Frames /\ level' \in 1 .. 4 /\ at' \in Nat
    BY <2>2
  <2> QED
    BY <1>1, <1>4, <2>3, <2>4, <2>5, <2>6
       DEF MakeRoot, machineVars, loadVars, ghosts, RestOK, MoreTypes
<1>5. ASSUME ThreadMade
      PROVE  RestOK'
  <2>1. pc' \in Points
    BY <1>5, PointsAre DEF ThreadMade
  <2> QED
    BY <1>1, <1>5, <2>1
       DEF ThreadMade, machineVars, memVars, loadVars, walkVars, ghosts, RestOK, MoreTypes
<1> QED
  BY <1>2, <1>3, <1>4, <1>5

LEMMA LoadTypes ==
  ASSUME Inv0
  PROVE  /\ (\E t \in Users : LoadFails(t)) => RestOK'
         /\ (\E t \in Users, p \in Programs : LoadAndExecuteElf(t, p)) => RestOK'
         /\ SkipSegment => RestOK'
         /\ MakeSegment => RestOK'
         /\ CopySegment => RestOK'
         /\ CopyOverruns => RestOK'
         /\ AddThread => RestOK'
<1>1. RestOK
  BY TypesAre DEF Inv0
<1>2. ASSUME NEW t \in Users, LoadFails(t)
      PROVE  RestOK'
  <2>1. program' = [program EXCEPT ![t] = Unloadable]
    BY <1>2 DEF LoadFails
  <2>2. program' = [r \in Threads |-> program'[r]]
    BY <1>1, <2>1 DEF RestOK, MoreTypes
  <2> QED
    BY <1>1, <1>2, <2>2
       DEF LoadFails, machineVars, memVars, loadVars, walkVars, RestOK, MoreTypes
<1>3. ASSUME NEW t \in Users, NEW p \in Programs, LoadAndExecuteElf(t, p)
      PROVE  RestOK'
  <2>1. t \in Threads /\ p \in Seq(Segment) /\ NewThread(t, p)
    BY <1>3, ProgramsAssumption DEF LoadAndExecuteElf, Threads
  <2> QED
    BY <2>1, NewThreadTypes
<1>4. ASSUME SkipSegment
      PROVE  RestOK'
  <2>1. Tail(segments) \in Seq(Segment)
    BY <1>4, SegmentExtentIs DEF SkipSegment, Inv0
  <2> QED
    BY <1>1, <1>4, <2>1
       DEF SkipSegment, machineVars, memVars, loadVars, walkVars, ghosts, RestOK, MoreTypes
<1>5. ASSUME MakeSegment
      PROVE  RestOK'
  <2>1. /\ stackAddr' \in Nat /\ Head(segments).virt \in Nat
        /\ todo' = <<Region(Head(segments).virt, stackAddr', 1, RwUser)>>
    BY <1>5, MakeSegmentIs DEF Inv0
  <2>2. todo' \in Segments
    <3> DEFINE v == Head(segments).virt
               f == stackAddr'
    <3>1. v \in Nat /\ f \in Nat
      BY <2>1
    <3>2. todo' = <<Region(v, f, 1, RwUser)>>
      BY <2>1
    <3> HIDE DEF v, f
    <3>3. Region(v, f, 1, RwUser) \in RegionType
      BY <3>1, RegionTyped
    <3> QED
      BY <3>2, <3>3, SequencesOf
  <2>3. rootTable[space] \in Frames
    BY <1>5 DEF MakeSegment, Inv0, SpacesInv
  <2>4. pc' \in Points /\ at' \in Nat /\ level' \in 1 .. 4 /\ table' \in Frames
    BY <1>5, <2>3, PointsAre DEF MakeSegment
  <2> QED
    BY <1>1, <1>5, <2>1, <2>2, <2>4
       DEF MakeSegment, machineVars, memVars, loadVars, ghosts, RestOK, MoreTypes
<1>6. ASSUME CopySegment
      PROVE  RestOK'
  <2>1. Tail(segments) \in Seq(Segment) /\ pc' \in Points
    <3>1. \A q \in Seq(Segment) : q # <<>> => Tail(q) \in Seq(Segment)
      OBVIOUS
    <3>2. segments # <<>>
      BY <1>6 DEF CopySegment, Inv0, SpacesInv
    <3> QED
      BY <1>6, <3>1, <3>2, PointsAre DEF CopySegment, Inv0, MoreTypes
  <2> QED
    BY <1>1, <1>6, <2>1
       DEF CopySegment, machineVars, memVars, loadVars, walkVars, ghosts, RestOK, MoreTypes
<1>7. ASSUME CopyOverruns
      PROVE  RestOK'
  <2>1. pc' \in Points
    BY <1>7, PointsAre DEF CopyOverruns
  <2> QED
    BY <1>1, <1>7, <2>1
       DEF CopyOverruns, machineVars, memVars, loadVars, walkVars, ghosts, RestOK, MoreTypes
<1>8. ASSUME AddThread
      PROVE  RestOK'
  <2>1. space \in Threads
    BY <1>8 DEF AddThread, Inv0, SpacesInv
  <2>2. pc' \in Points
    BY <1>8, PointsAre DEF AddThread
  <2>3. added' \subseteq Threads
    BY <1>1, <1>8, <2>1 DEF AddThread, RestOK
  <2> QED
    BY <1>1, <1>8, <2>2, <2>3
       DEF AddThread, machineVars, memVars, loadVars, walkVars, ghosts, RestOK, MoreTypes
<1> QED
  BY <1>2, <1>3, <1>4, <1>5, <1>6, <1>7, <1>8

LEMMA AnytimeTypes ==
  ASSUME Inv0
  PROVE  /\ (\E t \in added : SwitchTo(t)) => RestOK'
         /\ OutOfMemory => RestOK'
         /\ PageFault => RestOK'
         /\ UNCHANGED vars => RestOK'
<1>1. RestOK
  BY TypesAre DEF Inv0
<1>2. ASSUME NEW t \in added, SwitchTo(t)
      PROVE  RestOK'
  <2>1. rootTable[t] \in Frames
    BY DEF Inv0, SpacesInv
  <2> QED
    BY <1>1, <1>2, <2>1
       DEF SwitchTo, machineVars, memVars, loadVars, walkVars, ghosts, RestOK, MoreTypes
<1>3. ASSUME OutOfMemory
      PROVE  RestOK'
  <2>1. pc' \in Points
    BY <1>3, PointsAre DEF OutOfMemory
  <2> QED
    BY <1>1, <1>3, <2>1
       DEF OutOfMemory, machineVars, memVars, loadVars, walkVars, ghosts, RestOK, MoreTypes
<1>4. ASSUME PageFault
      PROVE  RestOK'
  <2>1. pc' \in Points
    BY <1>4, PointsAre DEF PageFault
  <2> QED
    BY <1>1, <1>4, <2>1
       DEF PageFault, machineVars, memVars, loadVars, walkVars, ghosts, RestOK, MoreTypes
<1>5. ASSUME UNCHANGED vars
      PROVE  RestOK'
  BY <1>1, <1>5
     DEF vars, machineVars, memVars, loadVars, walkVars, ghosts, RestOK, MoreTypes
<1> QED
  BY <1>2, <1>3, <1>4, <1>5

LEMMA TypesNext ==
  ASSUME Inv0, [Next]_vars
  PROVE  RestOK'
BY WalkTypes, BootTypes, ThreadTypes, LoadTypes, AnytimeTypes, Zenon DEF Next

LEMMA WalkSpaces ==
  ASSUME Inv0
  PROVE  /\ MakeTable => SpacesInv'
         /\ Descend => SpacesInv'
         /\ StoreEntry => SpacesInv'
         /\ RegionDone => SpacesInv'
<1>1. SpacesInv
  BY DEF Inv0
<1>2. MakeTable => SpacesInv'
  BY <1>1 DEF MakeTable, loadVars, ghosts, SpacesInv
<1>3. Descend => SpacesInv'
  BY <1>1 DEF Descend, memVars, loadVars, ghosts, SpacesInv
<1>4. StoreEntry => SpacesInv'
  BY <1>1 DEF StoreEntry, loadVars, ghosts, SpacesInv
<1>5. RegionDone => SpacesInv'
  BY <1>1 DEF RegionDone, memVars, loadVars, ghosts, SpacesInv
<1> QED
  BY <1>2, <1>3, <1>4, <1>5

LEMMA RootsAfter ==
  ASSUME Inv0, RootStep
  PROVE  /\ rootTable'[space] \in Frames
         /\ \A s \in Spaces : s # space => rootTable'[s] = rootTable[s]
         /\ \A s \in Spaces : rootTable[s] \in Frames => rootTable'[s] \in Frames
<1>1. PICK f \in Frames : rootTable' = [rootTable EXCEPT ![space] = f]
  BY DEF RootStep
<1>2. rootTable \in [Spaces -> Frames \cup {None}] /\ space \in Spaces
  BY DEF Inv0, TypeOK
<1> QED
  BY <1>1, <1>2

LEMMA BootSpaces ==
  ASSUME Inv0
  PROVE  /\ MakeKernelDir => SpacesInv'
         /\ MapFramebuffer => SpacesInv'
         /\ NoFramebuffer => SpacesInv'
         /\ SwapToPageTable => SpacesInv'
         /\ MakeKernelStack => SpacesInv'
<1>1. SpacesInv /\ added \subseteq Threads /\ Kernel \notin Threads
      /\ BspThread \in Threads /\ Users \subseteq Threads
  BY NamesAssumption DEF Inv0, TypeOK, Threads
<1>2. ASSUME MakeKernelDir
      PROVE  SpacesInv'
  <2>1. /\ rootTable'[space] \in Frames
        /\ \A s \in Threads : rootTable'[s] = rootTable[s]
        /\ space = Kernel /\ rootTable[BspThread] = None
    <3>1. RootStep /\ space = Kernel /\ rootTable[BspThread] = None
      BY <1>1, <1>2, MakeKernelDirIs DEF Inv0, MakeKernelDir, SpacesInv
    <3> QED
      BY <1>1, <3>1, RootsAfter DEF Spaces
  <2>2. pc' = "dir" /\ space' = space /\ added' = added /\ program' = program
        /\ segments' = segments
    BY <1>2 DEF MakeKernelDir, loadVars, ghosts
  <2> QED
    BY <1>1, <2>1, <2>2 DEF SpacesInv, Mapping
<1>3. ASSUME MapFramebuffer
      PROVE  SpacesInv'
  <2>1. pc = "dir" /\ pc' = "framebuffer" /\ pc \in Mapping
    BY <1>3 DEF MapFramebuffer, Mapping
  <2> QED
    BY <1>1, <1>3, <2>1 DEF MapFramebuffer, memVars, loadVars, ghosts, SpacesInv
<1>4. ASSUME NoFramebuffer
      PROVE  SpacesInv'
  <2>1. pc' = "halted"
    BY <1>4 DEF NoFramebuffer
  <2> QED
    BY <1>1, <1>4, <2>1 DEF NoFramebuffer, memVars, loadVars, ghosts, SpacesInv, Mapping
<1>5. ASSUME SwapToPageTable
      PROVE  SpacesInv'
  <2>1. pc = "framebuffer" /\ pc' = "cpus"
    BY <1>5 DEF SwapToPageTable
  <2> QED
    BY <1>1, <1>5, <2>1 DEF SwapToPageTable, memVars, loadVars, ghosts, SpacesInv, Mapping
<1>6. MakeKernelStack => SpacesInv'
  BY <1>1 DEF MakeKernelStack, loadVars, ghosts, SpacesInv
<1> QED
  BY <1>2, <1>3, <1>4, <1>5, <1>6

LEMMA NewThreadSpaces ==
  ASSUME Inv0, NEW t \in Threads, NEW p, p # None, NewThread(t, p), rootTable[t] = None
  PROVE  SpacesInv'
<1>1. SpacesInv /\ program = [r \in Threads |-> program[r]] /\ Users \subseteq Threads
  BY DEF Inv0, MoreTypes, Threads
<1>2. /\ pc' = "stack" /\ space' = t /\ added' = added /\ rootTable' = rootTable
      /\ program' = [program EXCEPT ![t] = p]
  BY DEF NewThread
<1>3. program'[t] = p /\ \A r \in Threads : r # t => program'[r] = program[r]
  BY <1>1, <1>2
<1>4. \A r \in Users : program'[r] = None => rootTable'[r] = None
  BY <1>1, <1>2, <1>3 DEF SpacesInv
<1> QED
  BY <1>1, <1>2, <1>3, <1>4 DEF SpacesInv, Mapping

LEMMA ThreadSpaces ==
  ASSUME Inv0
  PROVE  /\ NewBspThread => SpacesInv'
         /\ MakeStack => SpacesInv'
         /\ MakeRoot => SpacesInv'
         /\ ThreadMade => SpacesInv'
<1>1. SpacesInv /\ added \subseteq Threads
  BY DEF Inv0, TypeOK
<1>2. ASSUME NewBspThread
      PROVE  SpacesInv'
  <2>1. BspThread \in Threads /\ NewThread(BspThread, <<>>) /\ pc = "cpus"
    BY <1>2 DEF NewBspThread, Threads
  <2>2. rootTable[BspThread] = None
    BY <1>1, <2>1 DEF SpacesInv
  <2>3. ASSUME <<>> = None
        PROVE  SpacesInv'
    <3>1. /\ pc' = "stack" /\ space' = BspThread /\ added' = added /\ rootTable' = rootTable
          /\ program' = [program EXCEPT ![BspThread] = <<>>]
      BY <2>1 DEF NewThread
    <3>2. \A r \in Users : program'[r] = program[r] /\ r # BspThread
      BY <3>1, NamesAssumption DEF Inv0, MoreTypes, Threads
    <3> QED
      BY <1>1, <2>1, <2>2, <3>1, <3>2, NamesAssumption DEF SpacesInv, Mapping
  <2> QED
    BY <2>1, <2>2, <2>3, NewThreadSpaces
<1>3. ASSUME MakeStack
      PROVE  SpacesInv'
  <2>1. pc = "stack" /\ pc' = "root"
    BY <1>3 DEF MakeStack
  <2> QED
    BY <1>1, <1>3, <2>1 DEF MakeStack, ghosts, SpacesInv, Mapping
<1>4. ASSUME MakeRoot
      PROVE  SpacesInv'
  <2>1. RootStep /\ pc = "root" /\ pc' = "thread"
    BY <1>4, MakeRootIs DEF MakeRoot, Inv0
  <2>2. space' = space /\ added' = added /\ program' = program
    BY <1>4 DEF MakeRoot, loadVars, ghosts
  <2>3. /\ rootTable'[space] \in Frames
        /\ \A s \in Spaces : s # space => rootTable'[s] = rootTable[s]
        /\ \A s \in Spaces : rootTable[s] \in Frames => rootTable'[s] \in Frames
    BY <2>1, RootsAfter
  <2>4. added \subseteq Spaces /\ Users \subseteq Spaces
    BY <1>1 DEF Spaces, Threads
  <2>5. space \in Threads /\ (space \in Users => program[space] # None)
    BY <1>1, <2>1 DEF SpacesInv
  <2>6. \A t \in Users : program'[t] = None => rootTable'[t] = None
    BY <1>1, <2>2, <2>3, <2>4, <2>5 DEF SpacesInv
  <2>7. \A t \in added' : rootTable'[t] \in Frames
    BY <1>1, <2>2, <2>3, <2>4 DEF SpacesInv
  <2> QED
    BY <2>1, <2>2, <2>3, <2>5, <2>6, <2>7 DEF SpacesInv
<1>5. ASSUME ThreadMade
      PROVE  SpacesInv'
  <2>1. pc = "thread" /\ pc' = "load"
    BY <1>5 DEF ThreadMade
  <2> QED
    BY <1>1, <1>5, <2>1 DEF ThreadMade, memVars, loadVars, ghosts, SpacesInv, Mapping
<1> QED
  BY <1>2, <1>3, <1>4, <1>5

LEMMA LoadSpaces ==
  ASSUME Inv0
  PROVE  /\ (\E t \in Users : LoadFails(t)) => SpacesInv'
         /\ (\E t \in Users, p \in Programs : LoadAndExecuteElf(t, p)) => SpacesInv'
         /\ SkipSegment => SpacesInv'
         /\ MakeSegment => SpacesInv'
         /\ CopySegment => SpacesInv'
         /\ CopyOverruns => SpacesInv'
         /\ AddThread => SpacesInv'
<1>1. SpacesInv /\ added \subseteq Threads /\ Users \subseteq Threads
      /\ program = [r \in Threads |-> program[r]]
  BY DEF Inv0, TypeOK, MoreTypes, Threads
<1>2. ASSUME NEW t \in Users, LoadFails(t)
      PROVE  SpacesInv'
  <2>1. /\ program[t] = None /\ program' = [program EXCEPT ![t] = Unloadable]
        /\ pc = "idle" /\ pc' = pc /\ space' = space /\ added' = added
        /\ rootTable' = rootTable /\ segments' = segments
    BY <1>2 DEF LoadFails, memVars, loadVars
  <2>2. \A r \in Users : r # t => program'[r] = program[r]
    BY <1>1, <2>1
  <2> QED
    BY <1>1, <2>1, <2>2 DEF SpacesInv, Mapping
<1>3. ASSUME NEW t \in Users, NEW p \in Programs, LoadAndExecuteElf(t, p)
      PROVE  SpacesInv'
  <2>1. program[t] = None /\ NewThread(t, p) /\ t \in Threads
    BY <1>3 DEF LoadAndExecuteElf, Threads
  <2>2. p # None /\ rootTable[t] = None
    BY <1>1, <2>1, NamesAssumption DEF SpacesInv
  <2> QED
    BY <2>1, <2>2, NewThreadSpaces
<1>4. ASSUME SkipSegment
      PROVE  SpacesInv'
  <2>1. pc = "load"
    BY <1>4 DEF SkipSegment
  <2> QED
    BY <1>1, <1>4, <2>1 DEF SkipSegment, memVars, ghosts, SpacesInv
<1>5. ASSUME MakeSegment
      PROVE  SpacesInv'
  <2>1. pc = "load" /\ pc' = "segment" /\ segments # <<>>
    BY <1>5 DEF MakeSegment
  <2> QED
    BY <1>1, <1>5, <2>1 DEF MakeSegment, ghosts, SpacesInv, Mapping
<1>6. ASSUME CopySegment
      PROVE  SpacesInv'
  <2>1. pc = "segment" /\ pc' = "load" /\ pc \in Mapping
    BY <1>6 DEF CopySegment, Mapping
  <2>2. /\ space' = space /\ added' = added /\ program' = program /\ rootTable' = rootTable
    BY <1>6 DEF CopySegment, memVars
  <2> QED
    BY <1>1, <2>1, <2>2 DEF SpacesInv
<1>7. ASSUME CopyOverruns
      PROVE  SpacesInv'
  <2>1. pc' = "overrun"
    BY <1>7 DEF CopyOverruns
  <2> QED
    BY <1>1, <1>7, <2>1 DEF CopyOverruns, memVars, loadVars, ghosts, SpacesInv, Mapping
<1>8. ASSUME AddThread
      PROVE  SpacesInv'
  <2>1. pc = "load" /\ pc' = "idle" /\ added' = added \cup {space}
    BY <1>8 DEF AddThread
  <2>2. /\ space' = space /\ program' = program /\ rootTable' = rootTable
    BY <1>8 DEF AddThread, memVars, ghosts
  <2>3. rootTable[space] \in Frames
    BY <1>1, <2>1 DEF SpacesInv
  <2> QED
    BY <1>1, <2>1, <2>2, <2>3 DEF SpacesInv, Mapping
<1> QED
  BY <1>2, <1>3, <1>4, <1>5, <1>6, <1>7, <1>8

LEMMA SpacesNext ==
  ASSUME Inv0, [Next]_vars
  PROVE  SpacesInv'
<1>1. SpacesInv
  BY DEF Inv0
<1>2. (\E t \in added : SwitchTo(t)) => SpacesInv'
  BY <1>1 DEF SwitchTo, memVars, loadVars, ghosts, SpacesInv
<1>3. ASSUME OutOfMemory
      PROVE  SpacesInv'
  <2>1. pc' = "halted"
    BY <1>3 DEF OutOfMemory
  <2> QED
    BY <1>1, <1>3, <2>1 DEF OutOfMemory, memVars, loadVars, ghosts, SpacesInv, Mapping
<1>4. ASSUME PageFault
      PROVE  SpacesInv'
  <2>1. pc' = "fault"
    BY <1>4 DEF PageFault
  <2> QED
    BY <1>1, <1>4, <2>1 DEF PageFault, memVars, loadVars, SpacesInv, Mapping
<1>5. UNCHANGED vars => SpacesInv'
  BY <1>1 DEF vars, memVars, loadVars, ghosts, SpacesInv
<1> QED
  BY <1>2, <1>3, <1>4, <1>5, WalkSpaces, BootSpaces, ThreadSpaces, LoadSpaces, Zenon DEF Next

LEMMA TodoIsNext ==
  TodoInv' <=>
    /\ pc' \notin Mapping \cup Stopped => todo' = <<>>
    /\ pc' = "root" => \A j \in 0 .. (StackPages - 1) : Mine(owner', stackAddr' + j, space')
    /\ \A i \in DOMAIN todo' : Proper(owner', todo'[i], space')
BY Zenon DEF TodoInv, Proper

LEMMA ProperNext ==
  ASSUME Inv0, [Next]_vars, NEW g, NEW s, Proper(owner, g, s)
  PROVE  Proper(owner', g, s)
BY MineNext DEF Proper, Inv0

LEMMA TodoSame ==
  ASSUME Inv0, [Next]_vars, todo' = todo, space' = space, stackAddr' = stackAddr,
         pc' = "root" => pc = "root", pc' \notin Mapping \cup Stopped => todo = <<>>
  PROVE  TodoInv'
<1>1. /\ pc = "root" => \A j \in 0 .. (StackPages - 1) : Mine(owner, stackAddr + j, space)
      /\ \A i \in DOMAIN todo : Proper(owner, todo[i], space)
  BY TodoIs DEF Inv0
<1>2. \A i \in DOMAIN todo : Proper(owner', todo[i], space)
  BY <1>1, ProperNext
<1>3. pc' = "root" => \A j \in 0 .. (StackPages - 1) : Mine(owner', stackAddr' + j, space')
  BY <1>1, MineNext DEF Inv0
<1> QED
  BY <1>2, <1>3, TodoIsNext

LEMMA TodoEmpty ==
  ASSUME todo' = <<>>,
         pc' = "root" => \A j \in 0 .. (StackPages - 1) : Mine(owner', stackAddr' + j, space')
  PROVE  TodoInv'
<1>1. \A i \in DOMAIN todo' : Proper(owner', todo'[i], space')
  OBVIOUS
<1> QED
  BY <1>1, TodoIsNext

LEMMA TodoNew ==
  ASSUME pc' \in Mapping, \A i \in DOMAIN todo' : Proper(owner', todo'[i], space')
  PROVE  TodoInv'
<1>1. pc' # "root"
  BY DEF Mapping
<1> QED
  BY <1>1, TodoIsNext

LEMMA OutsideMapping ==
  ASSUME TodoInv, pc \in {"boot", "cpus", "stack", "root", "load", "idle"}
  PROVE  todo = <<>>
BY DEF TodoInv, Mapping, Stopped

LEMMA WalkTodo ==
  ASSUME Inv0, [Next]_vars
  PROVE  /\ MakeTable => TodoInv'
         /\ Descend => TodoInv'
         /\ StoreEntry => TodoInv'
         /\ RegionDone => TodoInv'
<1>1. TodoInv
  BY DEF Inv0
<1>2. ASSUME MakeTable
      PROVE  TodoInv'
  <2>1. pc' = pc /\ todo' = todo /\ space' = space /\ stackAddr' = stackAddr /\ pc \in Mapping
    BY <1>2 DEF MakeTable, Walking, loadVars, walkVars
  <2> QED
    BY <2>1, TodoSame
<1>3. ASSUME Descend
      PROVE  TodoInv'
  <2>1. pc' = pc /\ todo' = todo /\ space' = space /\ stackAddr' = stackAddr /\ pc \in Mapping
    BY <1>3 DEF Descend, Walking, loadVars
  <2> QED
    BY <2>1, TodoSame
<1>4. ASSUME StoreEntry
      PROVE  TodoInv'
  <2>1. pc' = pc /\ todo' = todo /\ space' = space /\ stackAddr' = stackAddr /\ pc \in Mapping
    BY <1>4 DEF StoreEntry, Walking, loadVars
  <2> QED
    BY <2>1, TodoSame
<1>5. ASSUME RegionDone
      PROVE  TodoInv'
  <2>1. /\ pc' = pc /\ todo' = Tail(todo) /\ space' = space /\ owner' = owner
        /\ pc \in Mapping /\ todo # <<>>
    BY <1>5 DEF RegionDone, memVars, loadVars
  <2>2. \A i \in DOMAIN todo : Proper(owner, todo[i], space)
    BY <1>1, TodoIs
  <2>3. todo \in Seq(RegionType)
    BY DEF Inv0, TypeOK, RegionType
  <2>4. \A i \in DOMAIN Tail(todo) : i + 1 \in DOMAIN todo /\ Tail(todo)[i] = todo[i + 1]
    BY <2>1, <2>3
  <2>5. \A i \in DOMAIN todo' : Proper(owner', todo'[i], space')
    BY <2>1, <2>2, <2>4
  <2> QED
    BY <2>1, <2>5, TodoNew
<1> QED
  BY <1>2, <1>3, <1>4, <1>5

LEMMA BootTodo ==
  ASSUME Inv0, [Next]_vars
  PROVE  /\ MakeKernelDir => TodoInv'
         /\ MapFramebuffer => TodoInv'
         /\ NoFramebuffer => TodoInv'
         /\ SwapToPageTable => TodoInv'
         /\ MakeKernelStack => TodoInv'
<1>1. TodoInv
  BY DEF Inv0
<1>2. ASSUME MakeKernelDir
      PROVE  TodoInv'
  <2>1. todo' = KernelRegions /\ pc' = "dir" /\ pc' \in Mapping
    BY <1>2, MakeKernelDirIs DEF Inv0, MakeKernelDir, Mapping
  <2>2. \A i \in DOMAIN todo' : Proper(owner', todo'[i], space')
    BY <2>1, KernelRegionsAre DEF Inv0
  <2> QED
    BY <2>1, <2>2, TodoNew
<1>3. ASSUME MapFramebuffer
      PROVE  TodoInv'
  <2>1. todo' = <<FramebufferRegion>> /\ pc' \in Mapping
    BY <1>3 DEF MapFramebuffer, Mapping
  <2>2. Proper(owner', FramebufferRegion, space')
    BY FramebufferTyped, KernelOnly DEF Proper, Inv0
  <2>3. \A i \in DOMAIN todo' : todo'[i] = FramebufferRegion
    BY <2>1
  <2> QED
    BY <2>1, <2>2, <2>3, TodoNew
<1>4. ASSUME NoFramebuffer
      PROVE  TodoInv'
  <2>1. todo' = <<>> /\ pc' = "halted"
    BY <1>4 DEF NoFramebuffer, walkVars
  <2> QED
    BY <2>1, TodoEmpty
<1>5. ASSUME SwapToPageTable
      PROVE  TodoInv'
  <2>1. todo' = <<>> /\ pc' = "cpus"
    BY <1>5 DEF SwapToPageTable, walkVars
  <2> QED
    BY <2>1, TodoEmpty
<1>6. ASSUME MakeKernelStack
      PROVE  TodoInv'
  <2>1. pc = "cpus" /\ pc' = pc /\ todo' = todo
    BY <1>6 DEF MakeKernelStack, walkVars
  <2>2. todo = <<>>
    BY <1>1, <2>1, OutsideMapping
  <2> QED
    BY <2>1, <2>2, TodoEmpty
<1> QED
  BY <1>2, <1>3, <1>4, <1>5, <1>6

LEMMA NewThreadTodo ==
  ASSUME TodoInv, NEW t, NEW p, NewThread(t, p), pc = "cpus" \/ pc = "idle"
  PROVE  TodoInv'
<1>1. todo' = todo /\ pc' = "stack"
  BY DEF NewThread, walkVars
<1>2. todo = <<>>
  BY OutsideMapping
<1> QED
  BY <1>1, <1>2, TodoEmpty

LEMMA ThreadTodo ==
  ASSUME Inv0, [Next]_vars
  PROVE  /\ NewBspThread => TodoInv'
         /\ MakeStack => TodoInv'
         /\ MakeRoot => TodoInv'
         /\ ThreadMade => TodoInv'
<1>1. TodoInv
  BY DEF Inv0
<1>2. NewBspThread => TodoInv'
  BY <1>1, NewThreadTodo DEF NewBspThread
<1>3. ASSUME MakeStack
      PROVE  TodoInv'
  <2>1. \A j \in 0 .. (StackPages - 1) : Mine(owner', stackAddr' + j, space)
    BY <1>3, MakeStackIs DEF Inv0
  <2>2. pc = "stack" /\ todo' = todo /\ space' = space
    BY <1>3 DEF MakeStack, walkVars
  <2>3. todo = <<>>
    BY <1>1, <2>2, OutsideMapping
  <2> QED
    BY <2>1, <2>2, <2>3, TodoEmpty
<1>4. ASSUME MakeRoot
      PROVE  TodoInv'
  <2>1. /\ todo' = ThreadRegions /\ pc = "root" /\ pc' \in Mapping /\ space' = space
    BY <1>4, MakeRootIs DEF Inv0, MakeRoot, Mapping, loadVars
  <2>2. \A j \in 0 .. (StackPages - 1) : Mine(owner', stackAddr + j, space)
    BY <1>1, <2>1, MineNext DEF Inv0, TodoInv
  <2>3. \A i \in DOMAIN ThreadRegions : Proper(owner', ThreadRegions[i], space)
    BY <2>2, ThreadRegionsAre DEF Inv0
  <2> QED
    BY <2>1, <2>3, TodoNew
<1>5. ASSUME ThreadMade
      PROVE  TodoInv'
  <2>1. todo' = <<>> /\ pc' = "load"
    BY <1>5 DEF ThreadMade, walkVars
  <2> QED
    BY <2>1, TodoEmpty
<1> QED
  BY <1>2, <1>3, <1>4, <1>5

LEMMA LoadTodo ==
  ASSUME Inv0, [Next]_vars
  PROVE  /\ (\E t \in Users : LoadFails(t)) => TodoInv'
         /\ (\E t \in Users, p \in Programs : LoadAndExecuteElf(t, p)) => TodoInv'
         /\ SkipSegment => TodoInv'
         /\ MakeSegment => TodoInv'
         /\ CopySegment => TodoInv'
         /\ CopyOverruns => TodoInv'
         /\ AddThread => TodoInv'
<1>1. TodoInv
  BY DEF Inv0
<1>2. ASSUME NEW t \in Users, LoadFails(t)
      PROVE  TodoInv'
  <2>1. pc = "idle" /\ pc' = pc /\ todo' = todo
    BY <1>2 DEF LoadFails, walkVars
  <2> QED
    BY <1>1, <2>1, OutsideMapping, TodoEmpty
<1>3. ASSUME NEW t \in Users, NEW p \in Programs, LoadAndExecuteElf(t, p)
      PROVE  TodoInv'
  BY <1>1, <1>3, NewThreadTodo DEF LoadAndExecuteElf
<1>4. ASSUME SkipSegment
      PROVE  TodoInv'
  <2>1. pc = "load" /\ pc' = pc /\ todo' = todo
    BY <1>4 DEF SkipSegment, walkVars
  <2> QED
    BY <1>1, <2>1, OutsideMapping, TodoEmpty
<1>5. ASSUME MakeSegment
      PROVE  TodoInv'
  <2> DEFINE v == Head(segments).virt
             f == stackAddr'
  <2>1. /\ f \in Nat /\ v \in Nat
        /\ todo' = <<Region(v, f, 1, RwUser)>>
        /\ Mine(owner', f, space)
    BY <1>5, MakeSegmentIs DEF Inv0
  <2>2. space' = space /\ pc' \in Mapping
    BY <1>5 DEF MakeSegment, Mapping
  <2> HIDE DEF v, f
  <2>3. Proper(owner', Region(v, f, 1, RwUser), space)
    <3>1. Region(v, f, 1, RwUser).pages = 1 /\ Region(v, f, 1, RwUser).phys = f
      BY <2>1, RegionTyped
    <3>2. \A j \in 0 .. (1 - 1) : f + j = f
      BY <2>1
    <3> QED
      BY <2>1, <3>1, <3>2 DEF Proper
  <2>4. \A i \in DOMAIN todo' : todo'[i] = Region(v, f, 1, RwUser)
    BY <2>1
  <2> QED
    BY <2>2, <2>3, <2>4, TodoNew
<1>6. ASSUME CopySegment
      PROVE  TodoInv'
  <2>1. todo' = <<>> /\ pc' = "load"
    BY <1>6 DEF CopySegment, walkVars
  <2> QED
    BY <2>1, TodoEmpty
<1>7. ASSUME CopyOverruns
      PROVE  TodoInv'
  <2>1. todo' = <<>> /\ pc' = "overrun"
    BY <1>7 DEF CopyOverruns, walkVars
  <2> QED
    BY <2>1, TodoEmpty
<1>8. ASSUME AddThread
      PROVE  TodoInv'
  <2>1. pc = "load" /\ pc' = "idle" /\ todo' = todo
    BY <1>8 DEF AddThread, walkVars
  <2> QED
    BY <1>1, <2>1, OutsideMapping, TodoEmpty
<1> QED
  BY <1>2, <1>3, <1>4, <1>5, <1>6, <1>7, <1>8

LEMMA TodoNext ==
  ASSUME Inv0, [Next]_vars
  PROVE  TodoInv'
<1>1. TodoInv
  BY DEF Inv0
<1>2. ASSUME NEW t \in added, SwitchTo(t)
      PROVE  TodoInv'
  <2>1. pc' = pc /\ todo' = todo /\ space' = space /\ stackAddr' = stackAddr
        /\ pc \notin Stopped
    BY <1>2 DEF SwitchTo, loadVars, walkVars
  <2> QED
    BY <1>1, <2>1, TodoSame DEF TodoInv
<1>3. ASSUME OutOfMemory
      PROVE  TodoInv'
  <2>1. /\ pc' = "halted" /\ pc' \in Stopped
        /\ todo' = todo /\ space' = space /\ stackAddr' = stackAddr
    BY <1>3 DEF OutOfMemory, loadVars, walkVars, Stopped
  <2> QED
    BY <2>1, TodoSame
<1>4. ASSUME PageFault
      PROVE  TodoInv'
  <2>1. /\ pc' = "fault" /\ pc' \in Stopped
        /\ todo' = todo /\ space' = space /\ stackAddr' = stackAddr
    BY <1>4 DEF PageFault, loadVars, walkVars, Stopped
  <2> QED
    BY <2>1, TodoSame
<1>5. ASSUME UNCHANGED vars
      PROVE  TodoInv'
  <2>1. pc' = pc /\ todo' = todo /\ space' = space /\ stackAddr' = stackAddr
    BY <1>5 DEF vars, loadVars, walkVars
  <2> QED
    BY <1>1, <2>1, TodoSame DEF TodoInv
<1> QED
  BY <1>2, <1>3, <1>4, <1>5, WalkTodo, BootTodo, ThreadTodo, LoadTodo, Zenon DEF Next

LEMMA WalkIsNext == WalkInv' <=> OnPath'
BY WalkIs, PTL

LEMMA AtTop ==
  ASSUME pc' \in Mapping => /\ rootTable'[space'] \in Frames
                            /\ level' = 4 /\ table' = rootTable'[space']
  PROVE  WalkInv'
<1>1. \A m, r, v : PathIn(m, r, v, 4) = {r}
  BY PathsAre
<1>2. OnPath'
  BY <1>1 DEF OnPath
<1> QED
  BY <1>2, WalkIsNext

LEMMA NotMapping ==
  ASSUME pc' \notin Mapping
  PROVE  WalkInv'
BY AtTop

\* Between pages and regions MapPage stands at the top.
LEMMA AtTopNow ==
  ASSUME Inv0, pc \in Mapping, todo = <<>> \/ ~ (at < Head(todo).pages)
  PROVE  level = 4 /\ rootTable[space] \in Frames /\ table = rootTable[space]
<1>1. OnPath /\ level \in 1 .. 4
  BY WalkIs DEF Inv0, TypeOK
<1>2. /\ rootTable[space] \in Frames
      /\ {table} = PathIn(mem, rootTable[space], vaddr, level)
      /\ level < 4 => todo # <<>> /\ at < Head(todo).pages
  BY <1>1 DEF OnPath
<1>3. level = 4
  BY <1>1, <1>2
<1>4. PathIn(mem, rootTable[space], vaddr, 4) = {rootTable[space]}
  BY PathsAre
<1> QED
  BY <1>2, <1>3, <1>4

LEMMA SameWalk ==
  ASSUME Inv0, pc' \in Mapping => pc \in Mapping,
         UNCHANGED <<mem, rootTable, space, walkVars>>
  PROVE  WalkInv'
<1>1. OnPath
  BY WalkIs DEF Inv0
<1>2. vaddr' = vaddr /\ todo' = todo /\ at' = at /\ level' = level /\ table' = table
  BY DEF walkVars, vaddr
<1>3. OnPath'
  BY <1>1, <1>2 DEF OnPath
<1> QED
  BY <1>3, WalkIsNext

LEMMA MakeTableWalk ==
  ASSUME Inv0, MakeTable
  PROVE  WalkInv'
<1> DEFINE r == rootTable[space]
           v == vaddr
<1>1. /\ level \in 2 .. 4 /\ table \in Frames /\ owner[table] = Table(space, level)
      /\ pc \in Mapping
  BY MakeTableIs DEF Inv0
<1>2. PICK f \in Frames : Tables(f, space, level - 1, table, Index(vaddr, level))
  BY MakeTableIs DEF Inv0
<1>3. OnPath /\ TreesInv /\ space \in Spaces
  BY WalkIs, TreesInvIs DEF Inv0, TypeOK
<1>4. r \in Frames /\ owner[r] = Table(space, 4)
  BY <1>1, <1>3 DEF OnPath, TreesInv, RootsIn
<1>5. v \in Nat /\ UNCHANGED <<pc, rootTable, space, todo, at, level, table>> /\ vaddr' = v
  <2>1. todo # <<>>
    BY DEF MakeTable, Walking
  <2> QED
    BY <2>1, HeadPage DEF MakeTable, loadVars, walkVars, vaddr, Inv0
<1>6. owner[f].use = "free" /\ \A g \in Frames : g # f /\ g # table => mem'[g] = mem[g]
  BY <1>2 DEF Tables, Grown
<1>7. PathIn(mem', r, v, level) = PathIn(mem, r, v, level)
  <2>1. ASSUME NEW g \in Frames, NEW k \in 1 .. 4, owner[g] = Table(space, k), k > level
        PROVE  mem'[g] = mem[g]
    <3>1. g # f /\ g # table
      BY <1>1, <1>6, <2>1, TableIs
    <3> QED
      BY <1>6, <3>1
  <2>2. Typed(mem, owner) /\ LinksDown(mem, owner) /\ level \in 0 .. 4 /\ level \in 1 .. 4
    BY <1>1, <1>3 DEF TreesInv, Linked
  <2> HIDE DEF r, v
  <2>3. \A l \in 1 .. 4 : l >= level => PathIn(mem', r, v, l) = PathIn(mem, r, v, l)
    BY <1>3, <1>4, <1>5, <2>1, <2>2, PathKept
  <2> QED
    BY <2>2, <2>3
<1>8. OnPath'
  BY <1>3, <1>5, <1>7 DEF OnPath
<1> QED
  BY <1>8, WalkIsNext

LEMMA DescendWalk ==
  ASSUME Inv0, Descend
  PROVE  WalkInv'
<1> DEFINE r == rootTable[space]
           v == vaddr
           l == level - 1
<1>1. /\ UNCHANGED <<pc, mem, rootTable, space, todo, at>> /\ vaddr' = v
      /\ table' = Here.frame /\ level' = l /\ level > 1 /\ pc \in Mapping
      /\ todo # <<>> /\ at < Head(todo).pages /\ Here # None
  BY DEF Descend, Walking, memVars, loadVars, vaddr
<1>2. OnPath /\ level \in 1 .. 4
  BY WalkIs DEF Inv0, TypeOK
<1>3. l \in 1 .. 3 /\ l + 1 = level
  BY <1>1, <1>2
<1>4. {table} = PathIn(mem, r, v, level) /\ r \in Frames
  BY <1>1, <1>2 DEF OnPath
<1>5. Here = mem[table][Index(v, level)]
  BY DEF Here
<1> HIDE DEF r, v, l
<1>6. PathIn(mem, r, v, l) = BelowIn(mem, {table}, v, level)
  BY <1>3, <1>4, PathsAre
<1>7. BelowIn(mem, {table}, v, level) = {Here.frame}
  <2>1. EntriesIn(mem, {table}, v, level) = {Here}
    BY <1>1, <1>5 DEF EntriesIn
  <2> QED
    BY <2>1 DEF BelowIn
<1>8. OnPath'
  <2>1. {table'} = PathIn(mem, r, v, l)
    BY <1>1, <1>6, <1>7
  <2> QED
    BY <1>1, <1>4, <2>1 DEF OnPath, r
<1> QED
  BY <1>8, WalkIsNext

LEMMA RootWalk ==
  ASSUME RootStep, space' = space, space \in Spaces,
         rootTable \in [Spaces -> Frames \cup {None}]
  PROVE  WalkInv'
<1>1. PICK f \in Frames : /\ rootTable' = [rootTable EXCEPT ![space] = f]
                          /\ table' = f /\ level' = 4
  BY DEF RootStep
<1>2. rootTable'[space] = f
  BY <1>1
<1> QED
  BY <1>1, <1>2, AtTop

LEMMA WalkNext ==
  ASSUME Inv0, [Next]_vars
  PROVE  WalkInv'
<1>1. space \in Spaces /\ rootTable \in [Spaces -> Frames \cup {None}] /\ SpacesInv
  BY DEF Inv0, TypeOK
<1>2. CASE MakeTable
  BY <1>2, MakeTableWalk
<1>3. CASE Descend
  BY <1>3, DescendWalk
<1>4. CASE StoreEntry
  <2>1. pc \in Mapping /\ level' = 4 /\ table' = rootTable[space]
        /\ space' = space /\ rootTable' = rootTable
    BY <1>4 DEF StoreEntry, Walking, loadVars
  <2>2. rootTable[space] \in Frames
    BY <1>1, <2>1 DEF SpacesInv
  <2> QED
    BY <2>1, <2>2, AtTop
<1>5. CASE RegionDone
  <2>1. /\ pc \in Mapping /\ todo # <<>> /\ at = Head(todo).pages
        /\ UNCHANGED <<pc, space, rootTable, level, table>>
    BY <1>5 DEF RegionDone, memVars, loadVars
  <2>2. level = 4 /\ rootTable[space] \in Frames /\ table = rootTable[space]
    <3>1. at \in Nat /\ ~ (at < at)
      BY DEF Inv0, TypeOK
    <3> QED
      BY <2>1, <3>1, AtTopNow
  <2> QED
    BY <2>1, <2>2, AtTop
<1>6. CASE MakeKernelDir
  <2>1. RootStep /\ space' = space
    BY <1>6, MakeKernelDirIs DEF Inv0, MakeKernelDir, loadVars
  <2> QED
    BY <1>1, <2>1, RootWalk
<1>7. CASE MapFramebuffer
  <2>1. /\ pc \in Mapping /\ todo = <<>>
        /\ UNCHANGED <<space, rootTable, level, table>>
    BY <1>7 DEF MapFramebuffer, memVars, loadVars, Mapping
  <2>2. level = 4 /\ rootTable[space] \in Frames /\ table = rootTable[space]
    BY <2>1, AtTopNow
  <2> QED
    BY <2>1, <2>2, AtTop
<1>8. CASE NoFramebuffer \/ OutOfMemory \/ PageFault \/ CopyOverruns
  <2>1. pc' \in Stopped
    BY <1>8 DEF NoFramebuffer, OutOfMemory, PageFault, CopyOverruns, Stopped
  <2> QED
    BY <2>1, PointsAre, NotMapping
<1>9. CASE SwapToPageTable \/ NewBspThread \/ MakeStack \/ ThreadMade \/ CopySegment \/ AddThread
  <2>1. pc' \in {"cpus", "stack", "root", "load", "idle"}
    BY <1>9 DEF SwapToPageTable, NewBspThread, NewThread, MakeStack, ThreadMade, CopySegment,
                AddThread
  <2>2. pc' \notin Mapping
    BY <2>1 DEF Mapping
  <2> QED
    BY <2>2, NotMapping
<1>10. CASE MakeKernelStack \/ SkipSegment
  <2>1. pc' = pc /\ pc \in {"cpus", "load"}
    BY <1>10 DEF MakeKernelStack, SkipSegment
  <2>2. pc' \notin Mapping
    BY <2>1 DEF Mapping
  <2> QED
    BY <2>2, NotMapping
<1>11. CASE \E t \in Users : LoadFails(t)
  <2>1. pc' = pc /\ pc = "idle"
    BY <1>11 DEF LoadFails
  <2>2. pc' \notin Mapping
    BY <2>1 DEF Mapping
  <2> QED
    BY <2>2, NotMapping
<1>12. CASE \E t \in Users, p \in Programs : LoadAndExecuteElf(t, p)
  <2>1. pc' = "stack"
    BY <1>12 DEF LoadAndExecuteElf, NewThread
  <2>2. pc' \notin Mapping
    BY <2>1 DEF Mapping
  <2> QED
    BY <2>2, NotMapping
<1>13. CASE MakeRoot
  <2>1. RootStep /\ space' = space
    BY <1>13, MakeRootIs DEF Inv0, MakeRoot, loadVars
  <2> QED
    BY <1>1, <2>1, RootWalk
<1>14. CASE MakeSegment
  <2>1. /\ pc = "load" /\ space' = space /\ rootTable' = rootTable
        /\ level' = 4 /\ table' = rootTable[space]
    BY <1>14 DEF MakeSegment
  <2>2. rootTable[space] \in Frames
    BY <1>1, <2>1 DEF SpacesInv
  <2> QED
    BY <2>1, <2>2, AtTop
<1>15. CASE \E t \in added : SwitchTo(t)
  <2>1. pc' = pc /\ UNCHANGED <<mem, rootTable, space, walkVars>>
    BY <1>15 DEF SwitchTo, memVars, loadVars
  <2> QED
    BY <2>1, SameWalk
<1>16. CASE UNCHANGED vars
  <2>1. pc' = pc /\ UNCHANGED <<mem, rootTable, space, walkVars>>
    BY <1>16 DEF vars, memVars, loadVars
  <2> QED
    BY <2>1, SameWalk
<1> QED
  BY <1>2, <1>3, <1>4, <1>5, <1>6, <1>7, <1>8, <1>9, <1>10, <1>11, <1>12, <1>13, <1>14,
     <1>15, <1>16, Zenon DEF Next

-----------------------------------------------------------------------------
(* The invariant *)

LEMMA InvInit == Init => Inv
<1> SUFFICES ASSUME Init
             PROVE  Inv
  OBVIOUS
<1>1. /\ machine \in Machines /\ mem \in Contents /\ currentDir = Limine
      /\ rootTable = [s \in Spaces |-> None]
      /\ kstack_phys = [c \in 0 .. 255 |-> 0]
      /\ pc = "boot" /\ cpu = 0 /\ space = Kernel /\ stackAddr = 0
      /\ todo = <<>> /\ at = 0 /\ level = 4 /\ table = None
      /\ segments = <<>> /\ added = {} /\ program = [t \in Threads |-> None]
  BY DEF Init
<1>2. \A f \in Frames : owner[f].use # "table"
  BY DEF Init
<1>3. owner \in [Frames -> Owner]
  BY DEF Init, Owner
<1>4. Typed(mem, owner)
  BY <1>1, <1>3, ContentsAssumption DEF Typed
<1>5. RestOK
  <2>1. Kernel \in Spaces /\ 4 \in 1 .. 4
    BY DEF Spaces
  <2>2. <<>> \in Segments /\ <<>> \in Seq(Segment)
    BY DEF Segments
  <2>3. program = [t \in Threads |-> program[t]]
    BY <1>1
  <2> QED
    BY <1>1, <2>1, <2>2, <2>3, PointsAre DEF RestOK, MoreTypes
<1>6. TypeOK /\ MoreTypes
  BY <1>4, <1>5, TypesAre
<1>7. TablesAreTrees
  <2>1. RootsIn(owner, rootTable)
    <3>1. ASSUME NEW s \in Spaces, NEW f \in Frames
          PROVE  rootTable[s] # f /\ owner[f] # Table(s, 4)
      <4>1. rootTable[s] = None /\ f # None
        BY <1>1, NamesAssumption
      <4>2. Table(s, 4).use = "table" /\ owner[f].use # "table"
        BY <1>2, TableIs
      <4> QED
        BY <4>1, <4>2
    <3> QED
      BY <3>1 DEF RootsIn
  <2>2. Linked(mem, owner)
    BY <1>2 DEF Linked, LinksDown, LinkedOnce, LinkAt
  <2> QED
    BY <2>1, <2>2, TreesAre
<1>8. WalkInv
  BY <1>1 DEF WalkInv, Mapping
<1>9. SpacesInv
  <2>1. \A t \in Spaces : rootTable[t] = None
    BY <1>1
  <2>2. Kernel \in Spaces /\ BspThread \in Spaces /\ Users \subseteq Spaces
    BY DEF Spaces, Threads
  <2> QED
    BY <1>1, <2>1, <2>2 DEF SpacesInv, Mapping
<1>10. TodoInv
  BY <1>1 DEF TodoInv
<1>11. UserIn(mem, owner)
  BY <1>2 DEF UserIn
<1> QED
  BY <1>6, <1>7, <1>8, <1>9, <1>10, <1>11 DEF Inv

LEMMA InvNext == Inv /\ [Next]_vars => Inv'
<1> SUFFICES ASSUME Inv, [Next]_vars
             PROVE  Inv'
  OBVIOUS
<1>1. Inv0 /\ UserIn(mem, owner)
  BY DEF Inv, Inv0
<1>2. TreesInv' /\ UserIn(mem, owner)'
  BY <1>1, TreesNext DEF Inv0
<1>3. RestOK' /\ WalkInv' /\ SpacesInv' /\ TodoInv'
  BY <1>1, TypesNext, WalkNext, SpacesNext, TodoNext
<1>4. TypeOK' /\ MoreTypes'
  <2>1. Typed(mem, owner)'
    BY <1>2 DEF TreesInv
  <2>2. (TypeOK /\ MoreTypes)' <=> (Typed(mem, owner) /\ RestOK)'
    BY TypesAre, PTL
  <2> QED
    BY <1>3, <2>1, <2>2
<1>5. TablesAreTrees'
  <2>1. (TypeOK => (TablesAreTrees <=> TreesInv))'
    BY TreesInvIs, PTL
  <2> QED
    BY <1>2, <1>4, <2>1
<1> QED
  BY <1>2, <1>3, <1>4, <1>5 DEF Inv

\* The inductive invariant: besides the trees and MapPage's place in them, where
\* the kernel is says which spaces have tables (task.cpp:36-58), and what is to be
\* mapped for the user, like what is mapped for it, was made for the space.
THEOREM InductiveInvariant == Spec => []Inv
<1>1. Init => Inv
  BY InvInit
<1>2. Inv /\ [Next]_vars => Inv'
  BY InvNext
<1> QED
  BY <1>1, <1>2, PTL DEF Spec

\* Whatever frames held before, page tables are trees, each of one address
\* space, and each step of MapPage, which makes tables as it goes
\* (vmm.cpp:41-69), stands on the path to its page.
THEOREM TablesStayTrees == Spec => []IInv
<1>1. Inv => IInv
  BY DEF Inv, IInv
<1> QED
  BY <1>1, InductiveInvariant, PTL

\* User code of a thread reaches only the stack and the segments made for it
\* (task.cpp:45-58, util.cpp:70-90), whatever programs ask for.
THEOREM UserPagesStayPrivate == Spec => []UserPagesPrivate
<1>1. Inv => UserPagesPrivate
  <2> SUFFICES ASSUME Inv, NEW t \in added, NEW w \in Virt,
                      NEW e \in Translation(rootTable[t], w), "user" \in e.flags
               PROVE  /\ e.frame \in Frames /\ owner[e.frame].space = t
                      /\ owner[e.frame].use \in {"stack", "segment"}
    BY DEF UserPagesPrivate
  <2> DEFINE r == rootTable[t]
             x == Index(w, 1)
  <2>1. TreesInv /\ t \in Spaces /\ r \in Frames
    BY TreesInvIs DEF Inv, TypeOK, SpacesInv, Spaces
  <2>2. owner[r] = Table(t, 4)
    BY <2>1 DEF TreesInv, RootsIn
  <2>3. w \in Nat
    BY SizesAssumption
  <2>4. x \in Indexes
    BY <2>3, 1 \in 1 .. 4, IndexIs
  <2>5. e \in EntriesIn(mem, PathIn(mem, r, w, 1), w, 1)
    BY TranslationIs DEF TransIn
  <2> HIDE DEF r
  <2>6. PICK f \in PathIn(mem, r, w, 1) : mem[f][x] # None /\ e = mem[f][x]
    BY <2>5, EntriesAre
  <2>7. f \in Frames /\ owner[f] = Table(t, 1)
    <3>1. Typed(mem, owner) /\ LinksDown(mem, owner) /\ 1 \in 1 .. 4
      BY <2>1 DEF TreesInv, Linked
    <3> QED
      BY <2>1, <2>2, <2>3, <2>6, <3>1, PathTables
  <2>8. owner[f].use = "table" /\ owner[f].level = 1 /\ owner[f].space = t
    BY <2>7, TableIs
  <2> HIDE DEF x
  <2>9. Mine(owner, e.frame, t)
    BY <2>4, <2>6, <2>7, <2>8 DEF Inv, UserIn
  <2> QED
    BY <2>9 DEF Mine
<1> QED
  BY <1>1, InductiveInvariant, PTL

-----------------------------------------------------------------------------
(* The abstract address spaces *)

Live == {x \in Spaces : rootTable[x] # None}
Mapped == [s \in Live |-> [w \in Virt |-> Translation(rootTable[s], w)]]

LEMMA VirtIn == \A v \in Virt : v \in Nat
BY SizesAssumption

LEMMA MakeSpace ==
  ASSUME NEW a, NEW b, NEW s \in Spaces \ DOMAIN a, DOMAIN b = DOMAIN a \cup {s},
         \A r \in DOMAIN a : b[r] = a[r], b[s] = [v \in Virt |-> {}]
  PROVE  Maps!Make(a, b)
BY DEF Maps!Make

LEMMA MapOnePage ==
  ASSUME NEW a, NEW b, DOMAIN b = DOMAIN a, NEW s \in DOMAIN a, NEW v \in Virt, NEW e \in Entry,
         b[s][v] = {e}, a[s][v] # {e},
         \A r \in DOMAIN a : \A w \in Virt : b[r][w] # a[r][w] => r = s /\ w = v
  PROVE  Maps!MapPage(a, b)
<1> DEFINE changed == {p \in (DOMAIN a) \X Virt : b[p[1]][p[2]] # a[p[1]][p[2]]}
           p0 == <<s, v>>
<1>1. p0 \in changed /\ p0[1] = s /\ p0[2] = v
  OBVIOUS
<1>2. changed = {p0}
  <2>1. ASSUME NEW p \in changed
        PROVE  p = p0
    <3>1. p \in (DOMAIN a) \X Virt /\ b[p[1]][p[2]] # a[p[1]][p[2]]
      OBVIOUS
    <3>2. p[1] = s /\ p[2] = v
      BY <3>1
    <3> QED
      BY <3>1, <3>2
  <2> QED
    BY <1>1, <2>1
<1>3. b[p0[1]][p0[2]] = {e}
  BY <1>1
<1> QED
  BY <1>1, <1>2, <1>3 DEF Maps!MapPage

\* What is mapped, before and after a step.
LEMMA MappedIs ==
  /\ DOMAIN Mapped = Live
  /\ \A s \in Live : /\ Mapped[s] = [w \in Virt |-> TransIn(mem, rootTable[s], w)]
                     /\ \A w \in Virt : Mapped[s][w] = TransIn(mem, rootTable[s], w)
BY TranslationIs DEF Mapped

LEMMA MappedNext ==
  /\ DOMAIN Mapped' = Live'
  /\ \A s \in Live' : /\ Mapped'[s] = [w \in Virt |-> TransIn(mem', rootTable'[s], w)]
                      /\ \A w \in Virt : Mapped'[s][w] = TransIn(mem', rootTable'[s], w)
<1>1. (/\ DOMAIN Mapped = Live
       /\ \A s \in Live : /\ Mapped[s] = [w \in Virt |-> TransIn(mem, rootTable[s], w)]
                          /\ \A w \in Virt : Mapped[s][w] = TransIn(mem, rootTable[s], w))'
  BY MappedIs, PTL
<1> QED
  BY <1>1

LEMMA LiveRoots ==
  ASSUME Inv, NEW s \in Live
  PROVE  s \in Spaces /\ rootTable[s] \in Frames /\ owner[rootTable[s]] = Table(s, 4)
<1>1. s \in Spaces /\ rootTable[s] \in Frames
  BY DEF Live, Inv, TypeOK
<1> QED
  BY <1>1, TreesInvIs DEF Inv, TreesInv, RootsIn

LEMMA InitMapped == Init => Maps!Init
<1> SUFFICES ASSUME Init
             PROVE  Maps!Init
  OBVIOUS
<1>1. {x \in Spaces : rootTable[x] # None} = {}
  BY DEF Init
<1> QED
  BY <1>1 DEF Maps!Init

LEMMA SameMapped ==
  ASSUME UNCHANGED <<mem, rootTable>>
  PROVE  Mapped' = Mapped
BY DEF Mapped, Live, Translation, EntriesFor, Below

\* A new table is one more place where nothing is mapped.
LEMMA TableMapped ==
  ASSUME Inv, TableStep
  PROVE  Mapped' = Mapped
<1>1. PICK f \in Frames : Grown(mem, mem', owner, f)
  BY DEF TableStep, Tables
<1>2. rootTable' = rootTable /\ TreesInv
  BY TreesInvIs DEF TableStep, Inv
<1>3. Live' = Live
  BY <1>2 DEF Live
<1>4. ASSUME NEW s \in Live, NEW w \in Virt
      PROVE  TransIn(mem', rootTable[s], w) = TransIn(mem, rootTable[s], w)
  <2> DEFINE r == rootTable[s]
  <2>1. s \in Spaces /\ r \in Frames /\ owner[r] = Table(s, 4) /\ w \in Nat
    BY LiveRoots, VirtIn
  <2> HIDE DEF r
  <2>2. TransIn(mem', r, w) = TransIn(mem, r, w)
    BY <1>1, <1>2, <2>1, GrownSame DEF TreesInv, Linked
  <2> QED
    BY <2>2 DEF r
<1>5. Mapped' = [s \in Live |-> [w \in Virt |-> TransIn(mem', rootTable[s], w)]]
  <2>1. /\ Mapped' = [s \in Live' |-> Mapped'[s]]
        /\ \A s \in Live' : Mapped'[s] = [w \in Virt |-> TransIn(mem', rootTable'[s], w)]
    BY MappedNext DEF Mapped
  <2> QED
    BY <1>2, <1>3, <2>1
<1>6. Mapped = [s \in Live |-> [w \in Virt |-> TransIn(mem, rootTable[s], w)]]
  BY MappedIs DEF Mapped
<1> QED
  BY <1>4, <1>5, <1>6

LEMMA NothingThere ==
  ASSUME NEW m, NEW f \in Frames, \A x \in Indexes : m[f][x] = None, NEW v \in Nat
  PROVE  TransIn(m, f, v) = {}
<1>1. PathIn(m, f, v, 4) = {f} /\ Index(v, 4) \in Indexes
  BY 4 \in 1 .. 4, PathsAre, IndexIs
<1>2. \A l : BelowIn(m, {}, v, l) = {} /\ EntriesIn(m, {}, v, l) = {}
  BY DEF BelowIn, EntriesIn
<1>3. BelowIn(m, {f}, v, 4) = {}
  <2>1. EntriesIn(m, {f}, v, 4) = {}
    BY <1>1 DEF EntriesIn
  <2> QED
    BY <2>1 DEF BelowIn
<1>4. PathIn(m, f, v, 3) = {} /\ PathIn(m, f, v, 2) = {} /\ PathIn(m, f, v, 1) = {}
  <2>1. PathIn(m, f, v, 3) = {}
    BY <1>1, <1>3, 3 \in 1 .. 3, 3 + 1 = 4, PathsAre
  <2>2. PathIn(m, f, v, 2) = {}
    BY <1>2, <2>1, 2 \in 1 .. 3, 2 + 1 = 3, PathsAre
  <2>3. PathIn(m, f, v, 1) = {}
    BY <1>2, <2>2, 1 \in 1 .. 3, 1 + 1 = 2, PathsAre
  <2> QED
    BY <2>1, <2>2, <2>3
<1> QED
  BY <1>2, <1>4 DEF TransIn

\* A new top table is a new address space.
LEMMA RootMapped ==
  ASSUME Inv, RootStep
  PROVE  Maps!Make(Mapped, Mapped')
<1>1. PICK f \in Frames : /\ Tables(f, space, 4, None, None)
                          /\ rootTable[space] = None
                          /\ rootTable' = [rootTable EXCEPT ![space] = f]
  BY DEF RootStep
<1>2. Grown(mem, mem', owner, f) /\ \A x \in Indexes : mem'[f][x] = None
  BY <1>1 DEF Tables, Grown
<1>3. TreesInv /\ space \in Spaces /\ rootTable \in [Spaces -> Frames \cup {None}]
  BY TreesInvIs DEF Inv, TypeOK
<1>4. /\ rootTable'[space] = f /\ f # None
      /\ \A s \in Spaces : s # space => rootTable'[s] = rootTable[s]
  BY <1>1, <1>3, NamesAssumption
<1>5. space \notin Live /\ Live' = Live \cup {space}
  BY <1>1, <1>3, <1>4 DEF Live
<1>6. ASSUME NEW s \in Live
      PROVE  Mapped'[s] = Mapped[s]
  <2> DEFINE r == rootTable[s]
  <2>1. s \in Spaces /\ r \in Frames /\ owner[r] = Table(s, 4)
    BY LiveRoots
  <2>2. rootTable'[s] = r /\ s \in Live'
    BY <1>4, <1>5, <2>1
  <2> HIDE DEF r
  <2>3. \A w \in Virt : TransIn(mem', r, w) = TransIn(mem, r, w)
    BY <1>2, <1>3, <2>1, GrownSame, VirtIn DEF TreesInv, Linked
  <2>4. Mapped'[s] = [w \in Virt |-> TransIn(mem', r, w)]
    BY <2>2, MappedNext
  <2>5. Mapped[s] = [w \in Virt |-> TransIn(mem, r, w)]
    BY MappedIs DEF r
  <2> QED
    BY <2>3, <2>4, <2>5
<1>7. Mapped'[space] = [v \in Virt |-> {}]
  <2>1. Mapped'[space] = [w \in Virt |-> TransIn(mem', f, w)]
    BY <1>4, <1>5, MappedNext
  <2>2. \A w \in Virt : TransIn(mem', f, w) = {}
    BY <1>2, NothingThere, VirtIn
  <2> QED
    BY <2>1, <2>2
<1> DEFINE a == Mapped
           b == Mapped'
<1>8. /\ space \in Spaces \ DOMAIN a /\ DOMAIN b = DOMAIN a \cup {space}
      /\ \A r \in DOMAIN a : b[r] = a[r]
      /\ b[space] = [v \in Virt |-> {}]
  BY <1>3, <1>5, <1>6, <1>7, MappedIs, MappedNext
<1> HIDE DEF a, b
<1>9. Maps!Make(a, b)
  BY <1>8, MakeSpace
<1> QED
  BY <1>9 DEF a, b

\* The entry MapPage is at is the one for page w of space s.
LiesOn(s, w) ==
  table \in PathIn(mem, rootTable[s], w, 1) /\ Index(w, 1) = Index(vaddr, 1)

\* The entry is found for one page of one space.
LEMMA PageLies ==
  ASSUME Inv, PageStep
  PROVE  /\ Live' = Live
         /\ \A s \in Live : \A w \in Virt :
              /\ LiesOn(s, w) => Mapped'[s][w] = {PageEntry} /\ s = space
              /\ ~ LiesOn(s, w) => Mapped'[s][w] = Mapped[s][w]
         /\ \A s, t \in Live : \A v, w \in Virt : LiesOn(s, v) /\ LiesOn(t, w) => s = t /\ v = w
<1> DEFINE e == PageEntry
           x == Index(vaddr, 1)
           a == Mapped
           b == Mapped'
<1>1. /\ table \in Frames /\ owner[table] = Table(space, 1) /\ rootTable' = rootTable
      /\ e \in Entry /\ e # None /\ Stored(mem, mem', table, x, e)
  BY ContentsAssumption DEF PageStep
<1>2. owner[table].level = 1 /\ owner[table].space = space
  BY <1>1, TableIs
<1>3. Typed(mem, owner) /\ Linked(mem, owner) /\ TreesInv /\ x \in Indexes
  <2>1. TypeOK /\ todo # <<>>
    BY DEF Inv, PageStep
  <2> QED
    BY <2>1, TreesInvIs, HeadPage DEF Inv, TreesInv
<1> HIDE DEF e, x
<1>4. Live' = Live
  BY <1>1 DEF Live
<1> DEFINE Lies(s, w) == table \in PathIn(mem, rootTable[s], w, 1) /\ Index(w, 1) = x
<1>5. ASSUME NEW s \in Live, NEW w \in Virt
      PROVE  /\ Lies(s, w) => b[s][w] = {e} /\ s = space
             /\ ~ Lies(s, w) => b[s][w] = a[s][w]
  <2> DEFINE r == rootTable[s]
  <2>1. s \in Spaces /\ r \in Frames /\ owner[r] = Table(s, 4) /\ w \in Nat
    BY LiveRoots, VirtIn
  <2>2. /\ b[s][w] = TransIn(mem', r, w) /\ a[s][w] = TransIn(mem, r, w)
    BY <1>1, <1>4, MappedIs, MappedNext
  <2> HIDE DEF r
  <2>3. /\ table \in PathIn(mem, r, w, 1) /\ Index(w, 1) = x => TransIn(mem', r, w) = {e}
        /\ ~ (table \in PathIn(mem, r, w, 1) /\ Index(w, 1) = x) =>
             TransIn(mem', r, w) = TransIn(mem, r, w)
    BY <1>1, <1>2, <1>3, <2>1, StoredSame
  <2>4. table \in PathIn(mem, r, w, 1) => s = space
    <3>1. table \in PathIn(mem, r, w, 1) => owner[table] = Table(s, 1)
      BY <1>3, <2>1, 1 \in 1 .. 4, PathTables DEF Linked
    <3> QED
      BY <1>2, <3>1, TableIs
  <2> QED
    BY <2>2, <2>3, <2>4 DEF r
<1>6. ASSUME NEW s \in Live, NEW t \in Live, NEW v \in Virt, NEW w \in Virt,
             Lies(s, v), Lies(t, w)
      PROVE  s = t /\ v = w
  <2>1. s = space /\ t = space
    BY <1>5, <1>6
  <2> DEFINE r == rootTable[s]
  <2>2. s \in Spaces /\ r \in Frames /\ owner[r] = Table(s, 4) /\ v \in Nat /\ w \in Nat
    BY LiveRoots, VirtIn
  <2>3. /\ table \in PathIn(mem, r, v, 1) /\ table \in PathIn(mem, r, w, 1)
        /\ Index(v, 1) = Index(w, 1)
    BY <1>6, <2>1
  <2> HIDE DEF r
  <2>4. \A k \in 1 .. 4 : k > 1 => Index(v, k) = Index(w, k)
    BY <1>3, <2>2, <2>3, 1 \in 1 .. 4, PathOfOne
  <2>5. \A k \in 1 .. 4 : Index(v, k) = Index(w, k)
    <3>1. \A k \in 1 .. 4 : k = 1 \/ k > 1
      OBVIOUS
    <3> QED
      BY <2>3, <2>4, <3>1
  <2>6. v = w
    BY <2>5, PathsDiffer
  <2> QED
    BY <2>1, <2>6
<1> HIDE DEF a, b, Lies
<1>7. \A s, w : LiesOn(s, w) <=> Lies(s, w)
  BY DEF LiesOn, Lies, x
<1> QED
  BY <1>4, <1>5, <1>6, <1>7 DEF a, b, e

\* The page's entry is mapped in its space, and nothing else changes.
LEMMA PageMapped ==
  ASSUME Inv, PageStep
  PROVE  Mapped' = Mapped \/ Maps!MapPage(Mapped, Mapped')
<1> DEFINE e == PageEntry
           a == Mapped
           b == Mapped'
           Lies(s, w) == LiesOn(s, w)
<1>1. e \in Entry
  BY DEF PageStep
<1>4. Live' = Live
  BY PageLies
<1>5. ASSUME NEW s \in Live, NEW w \in Virt
      PROVE  /\ Lies(s, w) => b[s][w] = {e} /\ s = space
             /\ ~ Lies(s, w) => b[s][w] = a[s][w]
  BY PageLies
<1>6. ASSUME NEW s \in Live, NEW t \in Live, NEW v \in Virt, NEW w \in Virt,
             Lies(s, v), Lies(t, w)
      PROVE  s = t /\ v = w
  BY <1>6, PageLies
<1> HIDE DEF e, Lies
<1>7. DOMAIN a = Live /\ DOMAIN b = Live
  BY <1>4, MappedIs, MappedNext
<1>8. CASE \E s \in Live : \E v \in Virt : Lies(s, v) /\ a[s][v] # {e}
  <2>1. PICK s \in Live, v \in Virt : Lies(s, v) /\ a[s][v] # {e}
    BY <1>8
  <2>2. b[s][v] = {e}
    BY <1>5, <2>1
  <2>3. \A t \in Live : \A w \in Virt : b[t][w] # a[t][w] => t = s /\ w = v
    BY <1>5, <1>6, <2>1
  <2> HIDE DEF Lies, a, b
  <2>4. Maps!MapPage(a, b)
    BY <1>1, <1>7, <2>1, <2>2, <2>3, MapOnePage
  <2> QED
    BY <2>4 DEF a, b
<1>9. CASE ~ \E s \in Live : \E v \in Virt : Lies(s, v) /\ a[s][v] # {e}
  <2>1. \A s \in Live : \A v \in Virt : b[s][v] = a[s][v]
    <3> SUFFICES ASSUME NEW s \in Live, NEW v \in Virt
                 PROVE  b[s][v] = a[s][v]
      OBVIOUS
    <3>1. Lies(s, v) => b[s][v] = {e} /\ a[s][v] = {e}
      BY <1>5, <1>9
    <3> QED
      BY <1>5, <3>1
  <2>2. b = [s \in Live |-> [w \in Virt |-> b[s][w]]]
    <3>1. b = [s \in Live' |-> b[s]]
      BY DEF Mapped
    <3>2. \A s \in Live' : b[s] = [w \in Virt |-> TransIn(mem', rootTable'[s], w)]
                           /\ \A w \in Virt : b[s][w] = TransIn(mem', rootTable'[s], w)
      BY MappedNext
    <3> HIDE DEF b
    <3> QED
      BY <1>4, <3>1, <3>2
  <2>3. a = [s \in Live |-> [w \in Virt |-> a[s][w]]]
    BY DEF Mapped
  <2> HIDE DEF a, b, Lies
  <2>4. b = a
    BY <2>1, <2>2, <2>3
  <2> QED
    BY <2>4 DEF a, b
<1> QED
  BY <1>8, <1>9

LEMMA NextMapped ==
  ASSUME Inv, [Next]_vars
  PROVE  Maps!Next \/ Mapped' = Mapped
<1>1. CASE UNCHANGED memVars
  BY <1>1, SameMapped DEF memVars
<1>2. CASE Others
  BY <1>2, SameMapped DEF Others
<1>3. CASE RootStep
  <2>1. Maps!Make(Mapped, Mapped')
    BY <1>3, RootMapped
  <2> QED
    BY <2>1, Zenon DEF Maps!Next, Mapped, Live
<1>4. CASE TableStep
  BY <1>4, TableMapped
<1>5. CASE PageStep
  <2>1. Mapped' = Mapped \/ Maps!MapPage(Mapped, Mapped')
    BY <1>5, PageMapped
  <2> QED
    BY <2>1, Zenon DEF Maps!Next, Mapped, Live
<1> QED
  BY <1>1, <1>2, <1>3, <1>4, <1>5, StepKinds DEF Inv

\* MapPage (vmm.cpp:32-74), which makes tables as it goes from frames that hold
\* anything and overwrites entries, maps the page it is asked to and changes no
\* other page of any address space.
THEOREM Implementation == Spec => ImplementsAddressSpaces
<1>1. Init => Maps!Init
  BY InitMapped
<1>2. Inv /\ [Next]_vars =>
        [Maps!Next]_([s \in {x \in Spaces : rootTable[x] # None} |->
                       [w \in Virt |-> Translation(rootTable[s], w)]])
  BY NextMapped DEF Mapped, Live
<1> QED
  BY <1>1, <1>2, InductiveInvariant, PTL DEF Spec, ImplementsAddressSpaces, Maps!Spec

-----------------------------------------------------------------------------
(* What every finished address space maps: the window and a kernel stack.  *)
(* M is what is mapped, g a region, m a machine.                           *)

Shows(M, s, g, n) ==
  /\ s \in DOMAIN M
  /\ \A k \in 0 .. (n - 1) : M[s][g.virt + k] = {[frame |-> g.phys + k, flags |-> g.flags]}

Complete(M, s, w, k) == Shows(M, s, w, w.pages) /\ Shows(M, s, k, k.pages)

AliasedOn(m, f) == f \in ScreenFrames(m) /\ m.framebuffer[1] # m.screen

\* kernelDir's window, over which the framebuffer is mapped.
KernelWindow(M, m, n) ==
  /\ Kernel \in DOMAIN M
  /\ \A f \in 0 .. (n - 1) : \E e \in Entry :
       M[Kernel][HhdmVirt + f] = {e} /\ (e.frame = f \/ AliasedOn(m, f))

Fixed(m) == KStackRange \cup WindowRange(m)

\* kernelDir, while it is mapped and after.
DirInv ==
  /\ pc = "dir" =>
       \/ todo = KernelRegions
       \/ todo = <<WindowRegion>> /\ KernelWindow(Mapped, machine, at)
       \/ todo = <<>> /\ KernelWindow(Mapped, machine, machine.window)
  /\ pc = "framebuffer" => /\ todo \in {<<FramebufferRegion>>, <<>>}
                           /\ KernelWindow(Mapped, machine, machine.window)
  /\ currentDir # Limine => KernelWindow(Mapped, machine, machine.window)

\* What is left of ThreadRegions.
AfterKernel == <<FramebufferRegion, StackRegion, WindowRegion, KStackRegion>>
AfterFramebuffer == <<StackRegion, WindowRegion, KStackRegion>>
AfterStack == <<WindowRegion, KStackRegion>>
AfterWindow == <<KStackRegion>>

\* A thread's tables, while they are mapped.
ThreadInv ==
  pc = "thread" =>
    \/ todo \in {ThreadRegions, AfterKernel, AfterFramebuffer}
    \/ todo = AfterStack /\ Shows(Mapped, space, WindowRegion, at)
    \/ /\ todo = AfterWindow
       /\ Shows(Mapped, space, WindowRegion, machine.window)
       /\ Shows(Mapped, space, KStackRegion, at)
    \/ todo = <<>> /\ Complete(Mapped, space, WindowRegion, KStackRegion)

\* Segments leave the window and the kernel stack alone.
SegmentsInv ==
  /\ pc \in {"load", "segment"} => Complete(Mapped, space, WindowRegion, KStackRegion)
  /\ pc = "segment" /\ todo # <<>> =>
       /\ Head(todo).pages = 1 /\ Head(todo).virt \in Virt \ Fixed(machine)
       /\ Tail(todo) = <<>>
  /\ \A i \in DOMAIN segments :
       segments[i].load /\ segments[i].memsz # 0 => segments[i].virt \in Virt \ Fixed(machine)

\* The threads the scheduler may switch to are finished.
AddedInv ==
  /\ pc \in {"boot", "dir", "framebuffer", "cpus"} => added = {}
  /\ pc \in {"stack", "root", "thread"} => space \notin added
  /\ \A s \in added : Complete(Mapped, s, WindowRegion, KStackRegion)

\* The kernel stacks made so far, by processor_id; other places of cpus[] are zero.
KStackAt(o, f) == \A k \in 0 .. (KStackPages - 1) : f + k \in Frames /\ o[f + k].use = "kstack"
StacksInv ==
  /\ cpu <= Len(machine.cpus)
  /\ pc \in {"stack", "root", "thread", "load", "segment", "idle"} => cpu = Len(machine.cpus)
  /\ added # {} => cpu = Len(machine.cpus)
  /\ \A i \in 1 .. cpu : KStackAt(owner, kstack_phys[machine.cpus[i]])
  /\ \A c \in 0 .. 255 : (\A i \in 1 .. cpu : machine.cpus[i] # c) => kstack_phys[c] = 0

\* Which tables the processor uses.
HomeInv ==
  /\ \/ currentDir \in {Limine, rootTable[Kernel]}
     \/ \E t \in added : currentDir = rootTable[t]
  /\ pc \in {"boot", "dir", "framebuffer"} => currentDir = Limine
  /\ pc \in {"cpus", "stack", "root", "thread", "load", "segment", "idle"} => currentDir # Limine
  /\ pc = "idle" => BspThread \in added
  /\ pc \in {"stack", "root", "thread", "load", "segment"} =>
       IF space = BspThread THEN segments = <<>> ELSE BspThread \in added

\* What is handed out is usable memory.
UsableInv == \A f \in Frames : owner[f].use # "hole" => f \in machine.usable

\* A fault is at memory beyond the window.
FaultInv == pc = "fault" => touched \in Nat /\ touched >= machine.window

LayoutInv ==
  /\ DirInv /\ ThreadInv /\ SegmentsInv /\ AddedInv
  /\ StacksInv /\ HomeInv /\ UsableInv /\ FaultInv

-----------------------------------------------------------------------------
(* What a step does to what is mapped *)

Kept(M, M2) == \A s \in DOMAIN M : s \in DOMAIN M2 /\ M2[s] = M[s]

\* Page v of space s is mapped to e.
Put(M, M2, s, v, e) ==
  /\ s \in DOMAIN M /\ DOMAIN M2 = DOMAIN M
  /\ \A r \in DOMAIN M : r # s => M2[r] = M[r]
  /\ v \in Virt => /\ M2[s][v] = {e}
                   /\ \A w \in Virt : w # v => M2[s][w] = M[s][w]

LEMMA ShowsKept ==
  ASSUME NEW M, NEW M2, Kept(M, M2), NEW s, NEW g, NEW n, Shows(M, s, g, n)
  PROVE  Shows(M2, s, g, n)
BY DEF Shows, Kept

LEMMA CompleteKept ==
  ASSUME NEW M, NEW M2, Kept(M, M2), NEW s, NEW w, NEW k, Complete(M, s, w, k)
  PROVE  Complete(M2, s, w, k)
BY ShowsKept DEF Complete

LEMMA KernelWindowKept ==
  ASSUME NEW M, NEW M2, Kept(M, M2), NEW m, NEW n, KernelWindow(M, m, n)
  PROVE  KernelWindow(M2, m, n)
BY DEF KernelWindow, Kept

\* A page of another space, or none of the region.
LEMMA ShowsPut ==
  ASSUME NEW M, NEW M2, NEW s, NEW v, NEW e, Put(M, M2, s, v, e),
         NEW r, NEW g, NEW n, Shows(M, r, g, n),
         r = s => /\ v \in Virt
                  /\ \A k \in 0 .. (n - 1) : g.virt + k \in Virt /\ g.virt + k # v
  PROVE  Shows(M2, r, g, n)
<1>1. CASE r # s
  BY <1>1 DEF Shows, Put
<1>2. CASE r = s
  BY <1>2 DEF Shows, Put
<1> QED
  BY <1>1, <1>2

LEMMA KernelWindowPut ==
  ASSUME NEW M, NEW M2, NEW s, NEW v, NEW e, Put(M, M2, s, v, e), s # Kernel,
         NEW m, NEW n, KernelWindow(M, m, n)
  PROVE  KernelWindow(M2, m, n)
BY DEF KernelWindow, Put

\* The next page of a region.
LEMMA ShowsNext ==
  ASSUME NEW M, NEW M2, NEW s, NEW g, g.virt \in Nat, NEW n \in Nat,
         Put(M, M2, s, g.virt + n, [frame |-> g.phys + n, flags |-> g.flags]),
         \A k \in 0 .. n : g.virt + k \in Virt,
         Shows(M, s, g, n)
  PROVE  Shows(M2, s, g, n + 1)
<1> DEFINE b == g.virt
           e(k) == [frame |-> g.phys + k, flags |-> g.flags]
<1>1. /\ s \in DOMAIN M2 /\ M2[s][b + n] = {e(n)}
      /\ \A w \in Virt : w # b + n => M2[s][w] = M[s][w]
  <2>1. b + n \in Virt
    BY n \in 0 .. n
  <2> QED
    BY <2>1 DEF Put
<1>2. \A k \in 0 .. (n - 1) : M[s][b + k] = {e(k)}
  BY DEF Shows
<1>3. \A k \in 0 .. n : b + k \in Virt
  OBVIOUS
<1> HIDE DEF b, e
<1>4. SUFFICES ASSUME NEW k \in 0 .. (n + 1 - 1)
               PROVE  M2[s][b + k] = {e(k)}
  BY <1>1 DEF Shows, b, e
<1>5. CASE k = n
  BY <1>1, <1>5
<1>6. CASE k # n
  <2>1. k \in 0 .. (n - 1) /\ k \in 0 .. n
    BY <1>6
  <2>2. b + k # b + n
    <3>1. b \in Nat
      BY DEF b
    <3> QED
      BY <2>1, <3>1, <1>6
  <2> QED
    BY <1>1, <1>2, <1>3, <2>1, <2>2
<1> QED
  BY <1>5, <1>6

\* The next page of kernelDir's window.
LEMMA KernelWindowNext ==
  ASSUME NEW M, NEW M2, NEW m, NEW n \in Nat, NEW e \in Entry, e.frame = n,
         Put(M, M2, Kernel, HhdmVirt + n, e), \A k \in 0 .. n : HhdmVirt + k \in Virt,
         KernelWindow(M, m, n)
  PROVE  KernelWindow(M2, m, n + 1)
<1>1. /\ Kernel \in DOMAIN M2 /\ M2[Kernel][HhdmVirt + n] = {e}
      /\ \A w \in Virt : w # HhdmVirt + n => M2[Kernel][w] = M[Kernel][w]
  <2>1. HhdmVirt + n \in Virt
    BY n \in 0 .. n
  <2> QED
    BY <2>1 DEF Put
<1>2. SUFFICES ASSUME NEW k \in 0 .. (n + 1 - 1)
               PROVE  \E d \in Entry : M2[Kernel][HhdmVirt + k] = {d}
                                       /\ (d.frame = k \/ AliasedOn(m, k))
  BY <1>1 DEF KernelWindow
<1>3. CASE k = n
  BY <1>1, <1>3
<1>4. CASE k # n
  <2>1. k \in 0 .. (n - 1) /\ k \in 0 .. n /\ HhdmVirt + k # HhdmVirt + n
    BY <1>4, PlacesInMemory
  <2>2. PICK d \in Entry : M[Kernel][HhdmVirt + k] = {d} /\ (d.frame = k \/ AliasedOn(m, k))
    BY <2>1 DEF KernelWindow
  <2>3. M2[Kernel][HhdmVirt + k] = {d}
    BY <1>1, <2>1, <2>2
  <2> QED
    BY <2>2, <2>3
<1> QED
  BY <1>3, <1>4

\* The framebuffer is mapped over the window's place for the screen.
LEMMA KernelWindowScreen ==
  ASSUME NEW M, NEW M2, NEW m, NEW n \in Nat, NEW e \in Entry, NEW f \in Nat,
         Put(M, M2, Kernel, HhdmVirt + f, e), HhdmVirt + f \in Virt,
         \A k \in 0 .. (n - 1) : HhdmVirt + k \in Virt,
         e.frame = f \/ AliasedOn(m, f),
         KernelWindow(M, m, n)
  PROVE  KernelWindow(M2, m, n)
<1>1. /\ Kernel \in DOMAIN M2 /\ M2[Kernel][HhdmVirt + f] = {e}
      /\ \A w \in Virt : w # HhdmVirt + f => M2[Kernel][w] = M[Kernel][w]
  BY DEF Put
<1>2. SUFFICES ASSUME NEW k \in 0 .. (n - 1)
               PROVE  \E d \in Entry : M2[Kernel][HhdmVirt + k] = {d}
                                       /\ (d.frame = k \/ AliasedOn(m, k))
  BY <1>1 DEF KernelWindow
<1>3. CASE k = f
  BY <1>1, <1>3
<1>4. CASE k # f
  <2>1. HhdmVirt + k # HhdmVirt + f
    BY <1>4, PlacesInMemory
  <2>2. PICK d \in Entry : M[Kernel][HhdmVirt + k] = {d} /\ (d.frame = k \/ AliasedOn(m, k))
    BY DEF KernelWindow
  <2>3. M2[Kernel][HhdmVirt + k] = {d}
    BY <1>1, <2>1, <2>2
  <2> QED
    BY <2>2, <2>3
<1> QED
  BY <1>3, <1>4

\* Only MapPage's last store changes what is mapped.
LEMMA MappedKept ==
  ASSUME Inv, [Next]_vars, ~ StoreEntry
  PROVE  Kept(Mapped, Mapped')
<1>1. ASSUME Mapped' = Mapped
      PROVE  Kept(Mapped, Mapped')
  BY <1>1 DEF Kept
<1>2. CASE UNCHANGED memVars
  BY <1>1, <1>2, SameMapped DEF memVars
<1>3. CASE Others
  BY <1>1, <1>3, SameMapped DEF Others
<1>4. CASE RootStep
  <2> DEFINE a == Mapped
             b == Mapped'
  <2>1. Maps!Make(a, b)
    BY <1>4, RootMapped
  <2> HIDE DEF a, b
  <2>2. Kept(a, b)
    BY <2>1 DEF Maps!Make, Kept
  <2> QED
    BY <2>2 DEF a, b
<1>5. CASE TableStep
  BY <1>1, <1>5, TableMapped
<1> QED
  BY <1>2, <1>3, <1>4, <1>5, StepKinds DEF Inv

LEMMA MappedPut ==
  ASSUME Inv, StoreEntry
  PROVE  /\ Put(Mapped, Mapped', space, vaddr, PageEntry)
         /\ todo # <<>> /\ at < Head(todo).pages /\ PageEntry \in Entry
<1>1. PageStep /\ level = 1
  <2>1. TypeOK /\ TablesAreTrees /\ WalkInv
    BY DEF Inv
  <2> QED
    BY <2>1, StoreEntryIs DEF PageStep, StoreEntry, PageEntry
<1> DEFINE a == Mapped
           b == Mapped'
           e == PageEntry
<1>2. /\ DOMAIN a = Live /\ DOMAIN b = Live
      /\ \A s \in Live : \A w \in Virt :
           /\ LiesOn(s, w) => b[s][w] = {e} /\ s = space
           /\ ~ LiesOn(s, w) => b[s][w] = a[s][w]
      /\ \A s, t \in Live : \A v, w \in Virt : LiesOn(s, v) /\ LiesOn(t, w) => s = t /\ v = w
  BY <1>1, PageLies, MappedIs, MappedNext
<1>3. space \in Live
  BY <1>1, NamesAssumption DEF PageStep, Inv, SpacesInv, TypeOK, Live
<1>4. LiesOn(space, vaddr)
  <2>1. OnPath /\ pc \in Mapping
    BY <1>1, WalkIs DEF Inv, PageStep
  <2> QED
    BY <1>1, <2>1 DEF OnPath, LiesOn
<1>5. ASSUME NEW r \in Live, r # space
      PROVE  b[r] = a[r]
  <2>1. \A w \in Virt : b[r][w] = a[r][w]
    BY <1>2, <1>5
  <2>2. Live' = Live
    BY <1>1, PageLies
  <2>3. b[r] = [w \in Virt |-> b[r][w]]
    <3>1. /\ b[r] = [w \in Virt |-> TransIn(mem', rootTable'[r], w)]
          /\ \A w \in Virt : b[r][w] = TransIn(mem', rootTable'[r], w)
      BY <2>2, MappedNext
    <3> HIDE DEF b
    <3> QED
      BY <3>1
  <2>4. a[r] = [w \in Virt |-> a[r][w]]
    BY DEF Mapped
  <2> HIDE DEF a, b
  <2> QED
    BY <2>1, <2>3, <2>4
<1>6. ASSUME vaddr \in Virt
      PROVE  b[space][vaddr] = {e} /\ \A w \in Virt : w # vaddr => b[space][w] = a[space][w]
  BY <1>2, <1>3, <1>4, <1>6
<1> HIDE DEF a, b, e
<1>7. Put(a, b, space, vaddr, e)
  BY <1>2, <1>3, <1>5, <1>6 DEF Put
<1> QED
  BY <1>1, <1>7 DEF a, b, e, PageStep

\* Regions stay what they are while their parts do.
LEMMA RegionsSame ==
  ASSUME machine' = machine
  PROVE  /\ KernelRegion' = KernelRegion /\ WindowRegion' = WindowRegion
         /\ FramebufferRegion' = FramebufferRegion /\ KernelRegions' = KernelRegions
         /\ stackAddr' = stackAddr => StackRegion' = StackRegion
         /\ kstack_phys' = kstack_phys => KStackRegion' = KStackRegion
         /\ kstack_phys' = kstack_phys /\ stackAddr' = stackAddr =>
              /\ ThreadRegions' = ThreadRegions /\ AfterKernel' = AfterKernel
              /\ AfterFramebuffer' = AfterFramebuffer /\ AfterStack' = AfterStack
              /\ AfterWindow' = AfterWindow
<1>1. /\ KernelRegion' = KernelRegion /\ WindowRegion' = WindowRegion
      /\ FramebufferRegion' = FramebufferRegion
  BY DEF KernelRegion, WindowRegion, FramebufferRegion
<1>2. stackAddr' = stackAddr => StackRegion' = StackRegion
  BY DEF StackRegion
<1>3. kstack_phys' = kstack_phys => KStackRegion' = KStackRegion
  BY DEF KStackRegion
<1> QED
  BY <1>1, <1>2, <1>3
     DEF KernelRegions, ThreadRegions, AfterKernel, AfterFramebuffer, AfterStack, AfterWindow

\* The window and the kernel stack lie in Virt, apart.
LEMMA LayoutIs ==
  ASSUME TypeOK
  PROVE  /\ WindowRegion.virt = HhdmVirt /\ WindowRegion.phys = 0
         /\ WindowRegion.pages = machine.window /\ WindowRegion.flags = Rw
         /\ KStackRegion.virt = KStackVirt /\ KStackRegion.pages = KStackPages + 1
         /\ KStackRegion.phys = kstack_phys[machine.bsp]
         /\ machine.window \in Nat /\ HhdmVirt \in Nat /\ KStackVirt \in Nat /\ KStackPages \in Nat
         /\ \A k \in 0 .. (machine.window - 1) :
              HhdmVirt + k \in WindowRange(machine) /\ HhdmVirt + k \in Virt
         /\ \A k \in 0 .. KStackPages : KStackVirt + k \in KStackRange /\ KStackVirt + k \in Virt
         /\ WindowRange(machine) \cap KStackRange = {}
<1>1. machine.window \in Nat /\ HhdmVirt \in Nat /\ KStackVirt \in Nat /\ KStackPages \in Nat
  BY MachineIs, PlacesInMemory
<1>2. /\ WindowRegion.virt = HhdmVirt /\ WindowRegion.phys = 0
      /\ WindowRegion.pages = machine.window /\ WindowRegion.flags = Rw
      /\ KStackRegion.virt = KStackVirt /\ KStackRegion.pages = KStackPages + 1
      /\ KStackRegion.phys = kstack_phys[machine.bsp]
  BY DEF WindowRegion, KStackRegion, Region
<1>3. WindowRange(machine) \subseteq Virt \ KStackRange /\ KStackRange \subseteq Virt
  BY LayoutAssumption DEF TypeOK
<1>4. \A k \in 0 .. (machine.window - 1) : HhdmVirt + k \in WindowRange(machine)
  <2> DEFINE w == machine.window
  <2> HIDE DEF w
  <2>1. \A k \in 0 .. (w - 1) : HhdmVirt + k \in HhdmVirt .. (HhdmVirt + w - 1)
    BY <1>1 DEF w
  <2> QED
    BY <2>1 DEF w, WindowRange
<1>5. \A k \in 0 .. KStackPages : KStackVirt + k \in KStackRange
  BY <1>1 DEF KStackRange
<1> QED
  BY <1>1, <1>2, <1>3, <1>4, <1>5

\* The loops of Initialize and of the constructor, one after the other.
LEMMA LoopsAre ==
  /\ KernelRegions # <<>> /\ Head(KernelRegions) = KernelRegion
  /\ Tail(KernelRegions) = <<WindowRegion>>
  /\ <<WindowRegion>> # <<>> /\ Head(<<WindowRegion>>) = WindowRegion
  /\ Tail(<<WindowRegion>>) = <<>>
  /\ <<FramebufferRegion>> # <<>> /\ Head(<<FramebufferRegion>>) = FramebufferRegion
  /\ Tail(<<FramebufferRegion>>) = <<>>
  /\ ThreadRegions # <<>> /\ Tail(ThreadRegions) = AfterKernel
  /\ AfterKernel # <<>> /\ Tail(AfterKernel) = AfterFramebuffer
  /\ AfterFramebuffer # <<>> /\ Tail(AfterFramebuffer) = AfterStack
  /\ AfterStack # <<>> /\ Head(AfterStack) = WindowRegion /\ Tail(AfterStack) = AfterWindow
  /\ AfterWindow # <<>> /\ Head(AfterWindow) = KStackRegion /\ Tail(AfterWindow) = <<>>
<1>1. /\ KernelRegions # <<>> /\ Head(KernelRegions) = KernelRegion
      /\ Tail(KernelRegions) = <<WindowRegion>>
  BY DEF KernelRegions
<1>2. /\ <<WindowRegion>> # <<>> /\ Head(<<WindowRegion>>) = WindowRegion
      /\ Tail(<<WindowRegion>>) = <<>>
  OBVIOUS
<1>3. /\ <<FramebufferRegion>> # <<>> /\ Head(<<FramebufferRegion>>) = FramebufferRegion
      /\ Tail(<<FramebufferRegion>>) = <<>>
  OBVIOUS
<1>4. ThreadRegions # <<>> /\ Tail(ThreadRegions) = AfterKernel
  BY DEF ThreadRegions, AfterKernel
<1>5. AfterKernel # <<>> /\ Tail(AfterKernel) = AfterFramebuffer
  BY DEF AfterKernel, AfterFramebuffer
<1>6. AfterFramebuffer # <<>> /\ Tail(AfterFramebuffer) = AfterStack
  BY DEF AfterFramebuffer, AfterStack
<1>7. AfterStack # <<>> /\ Head(AfterStack) = WindowRegion /\ Tail(AfterStack) = AfterWindow
  BY DEF AfterStack, AfterWindow
<1>8. AfterWindow # <<>> /\ Head(AfterWindow) = KStackRegion /\ Tail(AfterWindow) = <<>>
  BY DEF AfterWindow
<1> QED
  BY <1>1, <1>2, <1>3, <1>4, <1>5, <1>6, <1>7, <1>8

LEMMA NotStored ==
  ASSUME Inv, at' \in {at, 0}
  PROVE  ~ StoreEntry
<1>1. at \in Nat
  BY DEF Inv, TypeOK
<1> QED
  BY <1>1 DEF StoreEntry

\* What every step but MapPage's last keeps.
LEMMA LayoutKept ==
  ASSUME Inv, [Next]_vars, at' \in {at, 0}, machine' = machine
  PROVE  /\ \A n : KernelWindow(Mapped, machine, n) => KernelWindow(Mapped', machine', n)
         /\ \A s, n : Shows(Mapped, s, WindowRegion, n) => Shows(Mapped', s, WindowRegion', n)
         /\ kstack_phys' = kstack_phys =>
              /\ \A s, n : Shows(Mapped, s, KStackRegion, n) => Shows(Mapped', s, KStackRegion', n)
              /\ \A s : Complete(Mapped, s, WindowRegion, KStackRegion) =>
                          Complete(Mapped', s, WindowRegion', KStackRegion')
<1>1. Kept(Mapped, Mapped')
  BY NotStored, MappedKept
<1>2. WindowRegion' = WindowRegion /\ (kstack_phys' = kstack_phys => KStackRegion' = KStackRegion)
  BY RegionsSame
<1>3. \A n : KernelWindow(Mapped, machine, n) => KernelWindow(Mapped', machine', n)
  BY <1>1, KernelWindowKept
<1>4. \A s, g, n : Shows(Mapped, s, g, n) => Shows(Mapped', s, g, n)
  BY <1>1, ShowsKept
<1>5. \A s, w, k : Complete(Mapped, s, w, k) => Complete(Mapped', s, w, k)
  BY <1>1, CompleteKept
<1> QED
  BY <1>2, <1>3, <1>4, <1>5

\* In a new address space, or one that is finished, nothing is shown of a region yet.
LEMMA ShowsNothing ==
  ASSUME NEW M, NEW s \in DOMAIN M, NEW g
  PROVE  Shows(M, s, g, 0)
BY DEF Shows

MapsInv == DirInv /\ ThreadInv /\ SegmentsInv /\ AddedInv

LEMMA QuietMaps ==
  ASSUME Inv, MapsInv, [Next]_vars,
         UNCHANGED <<machine, kstack_phys, currentDir, pc, todo, at, space, added, stackAddr,
                     segments>>
  PROVE  MapsInv'
<1>1. /\ \A n : KernelWindow(Mapped, machine, n) => KernelWindow(Mapped', machine', n)
      /\ \A s, n : Shows(Mapped, s, WindowRegion, n) => Shows(Mapped', s, WindowRegion', n)
      /\ \A s, n : Shows(Mapped, s, KStackRegion, n) => Shows(Mapped', s, KStackRegion', n)
      /\ \A s : Complete(Mapped, s, WindowRegion, KStackRegion) =>
                  Complete(Mapped', s, WindowRegion', KStackRegion')
  BY LayoutKept
<1>2. /\ WindowRegion' = WindowRegion /\ FramebufferRegion' = FramebufferRegion
      /\ KernelRegions' = KernelRegions /\ ThreadRegions' = ThreadRegions
      /\ AfterKernel' = AfterKernel /\ AfterFramebuffer' = AfterFramebuffer
      /\ AfterStack' = AfterStack /\ AfterWindow' = AfterWindow
  BY RegionsSame
<1>3. DirInv'
  BY <1>1, <1>2 DEF MapsInv, DirInv
<1>4. ThreadInv'
  BY <1>1, <1>2 DEF MapsInv, ThreadInv
<1>5. SegmentsInv'
  BY <1>1 DEF MapsInv, SegmentsInv
<1>6. AddedInv'
  BY <1>1 DEF MapsInv, AddedInv
<1> QED
  BY <1>3, <1>4, <1>5, <1>6 DEF MapsInv

\* A halt, a fault or an overrun changes no tables and takes no step.
LEMMA StoppedMaps ==
  ASSUME Inv, MapsInv, [Next]_vars, pc' \in Stopped,
         UNCHANGED <<machine, kstack_phys, currentDir, at, space, added, segments>>
  PROVE  MapsInv'
<1>1. /\ \A n : KernelWindow(Mapped, machine, n) => KernelWindow(Mapped', machine', n)
      /\ \A s : Complete(Mapped, s, WindowRegion, KStackRegion) =>
                  Complete(Mapped', s, WindowRegion', KStackRegion')
  BY LayoutKept
<1>2. pc' \in {"halted", "fault", "overrun"}
  BY DEF Stopped
<1>3. DirInv'
  BY <1>1, <1>2 DEF MapsInv, DirInv
<1>4. ThreadInv'
  BY <1>2 DEF ThreadInv
<1>5. SegmentsInv'
  BY <1>2 DEF MapsInv, SegmentsInv
<1>6. AddedInv'
  BY <1>1, <1>2 DEF MapsInv, AddedInv
<1> QED
  BY <1>3, <1>4, <1>5, <1>6 DEF MapsInv

LEMMA RegionDoneMaps ==
  ASSUME Inv, MapsInv, [Next]_vars, RegionDone
  PROVE  MapsInv'
<1>1. /\ UNCHANGED <<machine, kstack_phys, currentDir, pc, space, added, stackAddr, segments>>
      /\ at' = 0 /\ todo' = Tail(todo) /\ todo # <<>> /\ at = Head(todo).pages /\ pc \in Mapping
  BY DEF RegionDone, machineVars, memVars, loadVars, ghosts
<1>2. /\ \A n : KernelWindow(Mapped, machine, n) => KernelWindow(Mapped', machine', n)
      /\ \A s, n : Shows(Mapped, s, WindowRegion, n) => Shows(Mapped', s, WindowRegion', n)
      /\ \A s, n : Shows(Mapped, s, KStackRegion, n) => Shows(Mapped', s, KStackRegion', n)
      /\ \A s : Complete(Mapped, s, WindowRegion, KStackRegion) =>
                  Complete(Mapped', s, WindowRegion', KStackRegion')
  BY <1>1, LayoutKept
<1>3. /\ WindowRegion' = WindowRegion /\ FramebufferRegion' = FramebufferRegion
      /\ KernelRegions' = KernelRegions /\ ThreadRegions' = ThreadRegions
      /\ AfterKernel' = AfterKernel /\ AfterFramebuffer' = AfterFramebuffer
      /\ AfterStack' = AfterStack /\ AfterWindow' = AfterWindow
  BY <1>1, RegionsSame
<1>4. /\ space \in DOMAIN Mapped
      /\ \A g : Shows(Mapped, space, g, 0)
      /\ pc = "dir" => KernelWindow(Mapped, machine, 0)
  <2>1. space \in Live
    BY <1>1, NamesAssumption DEF Inv, SpacesInv, TypeOK, Live
  <2>2. pc = "dir" => space = Kernel
    BY DEF Inv, SpacesInv
  <2> QED
    BY <2>1, <2>2, MappedIs, ShowsNothing DEF KernelWindow
<1>5. /\ WindowRegion.pages = machine.window /\ KStackRegion.pages = KStackPages + 1
  BY LayoutIs DEF Inv
<1>6. DirInv'
  <2>1. CASE pc = "dir"
    <3>1. CASE todo = KernelRegions
      BY <1>1, <1>2, <1>3, <1>4, <2>1, <3>1, LoopsAre DEF MapsInv, DirInv
    <3>2. CASE todo = <<WindowRegion>>
      BY <1>1, <1>2, <1>3, <1>5, <2>1, <3>2, LoopsAre DEF MapsInv, DirInv
    <3> QED
      BY <1>1, <2>1, <3>1, <3>2 DEF MapsInv, DirInv
  <2>2. CASE pc = "framebuffer"
    BY <1>1, <1>2, <1>3, <2>2, LoopsAre DEF MapsInv, DirInv
  <2>3. CASE pc \notin {"dir", "framebuffer"}
    BY <1>1, <1>2, <2>3 DEF MapsInv, DirInv
  <2> QED
    BY <2>1, <2>2, <2>3
<1>7. ThreadInv'
  <2> SUFFICES ASSUME pc = "thread"
               PROVE  ThreadInv'
    BY <1>1 DEF ThreadInv
  <2>1. CASE todo \in {ThreadRegions, AfterKernel}
    BY <1>1, <1>3, <2>1, LoopsAre DEF ThreadInv
  <2>2. CASE todo = AfterFramebuffer
    BY <1>1, <1>2, <1>3, <1>4, <2>2, LoopsAre DEF ThreadInv
  <2>3. CASE todo = AfterStack
    <3>1. Shows(Mapped, space, WindowRegion, machine.window)
      BY <1>1, <1>5, <2>3, LoopsAre DEF MapsInv, ThreadInv
    <3> QED
      BY <1>1, <1>2, <1>3, <1>4, <2>3, <3>1, LoopsAre DEF ThreadInv
  <2>4. CASE todo = AfterWindow
    <3>1. Complete(Mapped, space, WindowRegion, KStackRegion)
      BY <1>1, <1>5, <2>4, LoopsAre DEF MapsInv, ThreadInv, Complete
    <3> QED
      BY <1>1, <1>2, <1>3, <2>4, <3>1, LoopsAre DEF ThreadInv
  <2> QED
    BY <1>1, <2>1, <2>2, <2>3, <2>4 DEF MapsInv, ThreadInv
<1>8. SegmentsInv'
  BY <1>1, <1>2 DEF MapsInv, SegmentsInv
<1>9. AddedInv'
  BY <1>1, <1>2 DEF MapsInv, AddedInv
<1> QED
  BY <1>6, <1>7, <1>8, <1>9 DEF MapsInv

\* MapPage's last store, while kernelDir is mapped.
LEMMA StoreDir ==
  ASSUME Inv, MapsInv, HomeInv, StoreEntry, pc \in {"dir", "framebuffer"}
  PROVE  DirInv'
<1>1. /\ UNCHANGED <<machine, currentDir, pc, todo>> /\ at' = at + 1
      /\ todo # <<>> /\ at < Head(todo).pages /\ at \in Nat
      /\ Put(Mapped, Mapped', space, vaddr, PageEntry) /\ PageEntry \in Entry
  BY MappedPut DEF StoreEntry, machineVars, Inv, TypeOK
<1>2. space = Kernel /\ currentDir = Limine
  BY DEF Inv, SpacesInv, HomeInv
<1>3. /\ WindowRegion' = WindowRegion /\ FramebufferRegion' = FramebufferRegion
      /\ KernelRegions' = KernelRegions
  BY <1>1, RegionsSame
<1>4. TypeOK /\ machine.window \in Nat /\ WindowRegion.pages = machine.window
      /\ WindowRegion.virt = HhdmVirt /\ WindowRegion.phys = 0
      /\ \A k \in 0 .. (machine.window - 1) : HhdmVirt + k \in Virt
  BY LayoutIs DEF Inv
<1>5. ASSUME todo = <<WindowRegion>>, KernelWindow(Mapped, machine, at)
      PROVE  KernelWindow(Mapped', machine, at + 1)
  <2>1. Head(todo) = WindowRegion
    BY <1>5, LoopsAre
  <2>2. vaddr = HhdmVirt + at /\ PageEntry.frame = at /\ at < machine.window
    BY <1>1, <1>4, <2>1 DEF vaddr, PageEntry
  <2>3. \A k \in 0 .. at : HhdmVirt + k \in Virt
    BY <1>1, <1>4, <2>2
  <2> QED
    BY <1>1, <1>2, <1>5, <2>2, <2>3, KernelWindowNext
<1>6. ASSUME todo = <<FramebufferRegion>>, KernelWindow(Mapped, machine, machine.window)
      PROVE  KernelWindow(Mapped', machine, machine.window)
  <2> DEFINE f == machine.screen + at
  <2>1. Head(todo) = FramebufferRegion
    BY <1>6, LoopsAre
  <2>2. machine.framebuffer # <<>>
    <3>1. machine.framebuffer = <<>> => FramebufferRegion.pages = 0
      BY DEF FramebufferRegion, Region
    <3> QED
      BY <1>1, <2>1, <3>1
  <2>3. /\ FramebufferRegion.virt = HhdmVirt + machine.screen
        /\ FramebufferRegion.phys = machine.framebuffer[1]
        /\ FramebufferRegion.pages = machine.framebuffer[2]
    BY <2>2 DEF FramebufferRegion, Region
  <2>4. machine.screen \in Nat /\ machine.framebuffer[1] \in Nat /\ machine.framebuffer[2] \in Nat
        /\ HhdmVirt \in Nat
    BY <1>4, <2>2, MachineIs, PlacesInMemory
  <2>5. f \in Nat /\ vaddr = HhdmVirt + f /\ PageEntry.frame = machine.framebuffer[1] + at
    <3>1. PageEntry.frame = machine.framebuffer[1] + at
      BY <2>1, <2>3 DEF PageEntry
    <3>2. vaddr = (HhdmVirt + machine.screen) + at
      BY <2>1, <2>3 DEF vaddr
    <3> DEFINE a == machine.screen
    <3>3. a \in Nat /\ at \in Nat /\ HhdmVirt \in Nat
      BY <1>1, <2>4
    <3> HIDE DEF a
    <3>4. a + at \in Nat /\ (HhdmVirt + a) + at = HhdmVirt + (a + at)
      BY <3>3
    <3> QED
      BY <3>1, <3>2, <3>4 DEF a
  <2>6. f \in ScreenFrames(machine)
    <3> DEFINE a == machine.screen
               n == machine.framebuffer[2]
    <3>1. a \in Nat /\ n \in Nat /\ at \in Nat /\ at < n
      BY <1>1, <2>1, <2>3, <2>4
    <3>2. ScreenFrames(machine) = a .. (a + n - 1)
      BY <2>2, Zenon DEF ScreenFrames
    <3> HIDE DEF a, n
    <3>3. a + at \in a .. (a + n - 1)
      BY <3>1
    <3> QED
      BY <3>2, <3>3 DEF a
  <2>7. HhdmVirt + f \in Virt
    <3>1. {HhdmVirt + g : g \in ScreenFrames(machine)} \subseteq Virt
      BY <1>4, LayoutAssumption DEF TypeOK
    <3> HIDE DEF f
    <3> QED
      BY <2>6, <3>1
  <2>8. PageEntry.frame = f \/ AliasedOn(machine, f)
    BY <2>5, <2>6 DEF AliasedOn
  <2> HIDE DEF f
  <2> QED
    BY <1>1, <1>2, <1>4, <1>6, <2>5, <2>7, <2>8, KernelWindowScreen
<1>7. CASE pc = "dir"
  <2>1. todo \in {KernelRegions, <<WindowRegion>>}
    BY <1>1, <1>7 DEF MapsInv, DirInv
  <2>2. CASE todo = KernelRegions
    BY <1>1, <1>2, <1>3, <1>7, <2>2 DEF DirInv
  <2>3. CASE todo # KernelRegions
    <3>1. todo = <<WindowRegion>> /\ KernelWindow(Mapped, machine, at)
      BY <1>1, <1>7, <2>1, <2>3 DEF MapsInv, DirInv
    <3> QED
      BY <1>1, <1>2, <1>3, <1>5, <1>7, <3>1 DEF DirInv
  <2> QED
    BY <2>2, <2>3
<1>8. CASE pc = "framebuffer"
  <2>1. todo = <<FramebufferRegion>> /\ KernelWindow(Mapped, machine, machine.window)
    BY <1>1, <1>8 DEF MapsInv, DirInv
  <2> QED
    BY <1>1, <1>2, <1>3, <1>6, <1>8, <2>1 DEF DirInv
<1> QED
  BY <1>7, <1>8

\* MapPage's last store, while a thread's tables are mapped.
LEMMA StoreThread ==
  ASSUME Inv, MapsInv, StoreEntry, pc = "thread"
  PROVE  ThreadInv'
<1>1. /\ UNCHANGED <<machine, kstack_phys, pc, todo, space, stackAddr>> /\ at' = at + 1
      /\ todo # <<>> /\ at < Head(todo).pages /\ at \in Nat
      /\ Put(Mapped, Mapped', space, vaddr, PageEntry)
  BY MappedPut DEF StoreEntry, machineVars, loadVars, Inv, TypeOK
<1>2. /\ WindowRegion' = WindowRegion /\ KStackRegion' = KStackRegion
      /\ ThreadRegions' = ThreadRegions
      /\ AfterKernel' = AfterKernel /\ AfterFramebuffer' = AfterFramebuffer
      /\ AfterStack' = AfterStack /\ AfterWindow' = AfterWindow
  BY <1>1, RegionsSame
<1>3. TypeOK
  BY DEF Inv
<1> DEFINE w == WindowRegion
           g == KStackRegion
           n == machine.window
<1>4. /\ w.virt = HhdmVirt /\ w.pages = n /\ n \in Nat /\ HhdmVirt \in Nat
      /\ g.virt = KStackVirt /\ g.pages = KStackPages + 1 /\ KStackVirt \in Nat
      /\ KStackPages \in Nat
      /\ \A k \in 0 .. (n - 1) : HhdmVirt + k \in WindowRange(machine) /\ HhdmVirt + k \in Virt
      /\ \A k \in 0 .. KStackPages : KStackVirt + k \in KStackRange /\ KStackVirt + k \in Virt
      /\ WindowRange(machine) \cap KStackRange = {}
  BY <1>3, LayoutIs
<1>5. /\ Head(todo) = g => PageEntry = [frame |-> g.phys + at, flags |-> g.flags]
      /\ Head(todo) = w => PageEntry = [frame |-> w.phys + at, flags |-> w.flags]
      /\ vaddr = Head(todo).virt + at
  BY DEF PageEntry, vaddr
<1> HIDE DEF w, g, n
<1>6. CASE todo = AfterStack
  <2>1. Shows(Mapped, space, w, at) /\ Head(todo) = w
    BY <1>1, <1>6, LoopsAre DEF MapsInv, ThreadInv, w
  <2>2. \A k \in 0 .. at : w.virt + k \in Virt
    BY <1>1, <1>4, <2>1
  <2>3. Shows(Mapped', space, w, at + 1)
    BY <1>1, <1>4, <1>5, <2>1, <2>2, ShowsNext
  <2> QED
    BY <1>1, <1>2, <1>6, <2>3 DEF ThreadInv, w
<1>7. CASE todo = AfterWindow
  <2>1. Shows(Mapped, space, w, n) /\ Shows(Mapped, space, g, at) /\ Head(todo) = g
    BY <1>1, <1>7, LoopsAre DEF MapsInv, ThreadInv, w, g, n
  <2>2. at \in 0 .. KStackPages
    BY <1>1, <1>4, <2>1
  <2>3. \A k \in 0 .. at : g.virt + k \in Virt
    BY <1>4, <2>2
  <2>4. Shows(Mapped', space, g, at + 1)
    BY <1>1, <1>4, <1>5, <2>1, <2>3, ShowsNext
  <2>5. vaddr \in KStackRange /\ vaddr \in Virt
    BY <1>4, <1>5, <2>1, <2>2
  <2>6. \A k \in 0 .. (n - 1) : w.virt + k \in Virt /\ w.virt + k # vaddr
    BY <1>4, <2>5
  <2>7. Shows(Mapped', space, w, n)
    BY <1>1, <2>1, <2>5, <2>6, ShowsPut
  <2> QED
    BY <1>1, <1>2, <1>7, <2>4, <2>7 DEF ThreadInv, w, g, n
<1> QED
  BY <1>1, <1>2, <1>6, <1>7 DEF MapsInv, ThreadInv

\* MapPage's last store leaves a finished space alone, when it is another's or
\* neither in the window nor in the kernel stack.
LEMMA StoreComplete ==
  ASSUME Inv, StoreEntry, NEW s, Complete(Mapped, s, WindowRegion, KStackRegion),
         s = space => vaddr \in Virt \ Fixed(machine)
  PROVE  Complete(Mapped', s, WindowRegion', KStackRegion')
<1>1. /\ UNCHANGED <<machine, kstack_phys>>
      /\ Put(Mapped, Mapped', space, vaddr, PageEntry)
  BY MappedPut DEF StoreEntry, machineVars
<1>2. WindowRegion' = WindowRegion /\ KStackRegion' = KStackRegion
  BY <1>1, RegionsSame
<1> DEFINE w == WindowRegion
           g == KStackRegion
<1>3. /\ w.virt = HhdmVirt /\ w.pages = machine.window
      /\ g.virt = KStackVirt /\ g.pages = KStackPages + 1 /\ KStackPages \in Nat
      /\ \A k \in 0 .. (machine.window - 1) :
           HhdmVirt + k \in WindowRange(machine) /\ HhdmVirt + k \in Virt
      /\ \A k \in 0 .. KStackPages : KStackVirt + k \in KStackRange /\ KStackVirt + k \in Virt
  BY LayoutIs DEF Inv
<1>4. Shows(Mapped, s, w, w.pages) /\ Shows(Mapped, s, g, g.pages)
  BY DEF Complete
<1> HIDE DEF w, g
<1>5. s = space => vaddr \in Virt /\ \A k \in 0 .. (w.pages - 1) :
                       w.virt + k \in Virt /\ w.virt + k # vaddr
  BY <1>3 DEF Fixed
<1>6. s = space => vaddr \in Virt /\ \A k \in 0 .. (g.pages - 1) :
                       g.virt + k \in Virt /\ g.virt + k # vaddr
  <2>1. \A k \in 0 .. (g.pages - 1) : k \in 0 .. KStackPages
    BY <1>3
  <2> QED
    BY <1>3, <2>1 DEF Fixed
<1>7. Shows(Mapped', s, w, w.pages)
  BY <1>1, <1>4, <1>5, ShowsPut
<1>8. Shows(Mapped', s, g, g.pages)
  BY <1>1, <1>4, <1>6, ShowsPut
<1> QED
  BY <1>2, <1>7, <1>8 DEF Complete, w, g

LEMMA StoreMaps ==
  ASSUME Inv, MapsInv, HomeInv, StoreEntry
  PROVE  MapsInv'
<1>1. /\ UNCHANGED <<machine, kstack_phys, currentDir, pc, todo, space, added, stackAddr, segments>>
      /\ at' = at + 1 /\ pc \in Mapping /\ todo # <<>> /\ at < Head(todo).pages /\ at \in Nat
      /\ Put(Mapped, Mapped', space, vaddr, PageEntry)
  BY MappedPut DEF StoreEntry, Walking, machineVars, loadVars, Inv, TypeOK
<1>2. /\ pc \in {"dir", "framebuffer"} => added = {}
      /\ pc \in {"thread", "segment"} => space # Kernel
      /\ pc = "thread" => space \notin added
  BY NamesAssumption DEF MapsInv, AddedInv, Inv, SpacesInv
<1>3. ASSUME pc = "segment"
      PROVE  vaddr \in Virt \ Fixed(machine)
  <2>1. Head(todo).pages = 1 /\ Head(todo).virt \in Virt \ Fixed(machine)
    BY <1>1, <1>3 DEF MapsInv, SegmentsInv
  <2>2. Head(todo).virt \in Nat
    BY <1>1, RegionIs DEF Inv, TypeOK, Segments
  <2>3. vaddr = Head(todo).virt
    BY <1>1, <2>1, <2>2 DEF vaddr
  <2> QED
    BY <2>1, <2>3
<1>4. DirInv'
  <2>1. CASE pc \in {"dir", "framebuffer"}
    BY <2>1, StoreDir
  <2>2. CASE pc \in {"thread", "segment"}
    <3>1. \A n : KernelWindow(Mapped, machine, n) => KernelWindow(Mapped', machine', n)
      BY <1>1, <1>2, <2>2, KernelWindowPut
    <3> QED
      BY <1>1, <2>2, <3>1 DEF MapsInv, DirInv
  <2> QED
    BY <1>1, <2>1, <2>2 DEF Mapping
<1>5. ThreadInv'
  BY <1>1, StoreThread DEF ThreadInv
<1>6. SegmentsInv'
  <2>1. pc = "segment" => Complete(Mapped', space, WindowRegion', KStackRegion')
    BY <1>3, StoreComplete DEF MapsInv, SegmentsInv
  <2>2. pc # "load"
    BY <1>1 DEF Mapping
  <2> QED
    BY <1>1, <2>1, <2>2 DEF MapsInv, SegmentsInv
<1>7. AddedInv'
  <2>1. ASSUME NEW s \in added
        PROVE  Complete(Mapped', s, WindowRegion', KStackRegion')
    <3>1. Complete(Mapped, s, WindowRegion, KStackRegion)
      BY DEF MapsInv, AddedInv
    <3>2. s = space => pc = "segment"
      BY <1>1, <1>2 DEF Mapping
    <3> QED
      BY <1>3, <3>1, <3>2, StoreComplete
  <2> QED
    BY <1>1, <2>1 DEF MapsInv, AddedInv
<1> QED
  BY <1>4, <1>5, <1>6, <1>7 DEF MapsInv

LEMMA BootMaps ==
  ASSUME Inv, MapsInv, HomeInv, [Next]_vars
  PROVE  /\ MakeKernelDir => MapsInv'
         /\ MapFramebuffer => MapsInv'
         /\ SwapToPageTable => MapsInv'
         /\ MakeKernelStack => MapsInv'
<1>1. ASSUME MakeKernelDir
      PROVE  MapsInv'
  <2>1. /\ pc = "boot" /\ pc' = "dir" /\ todo' = KernelRegions
        /\ UNCHANGED <<machine, kstack_phys, currentDir, added, segments>>
    BY <1>1 DEF MakeKernelDir, NewTables, machineVars, loadVars
  <2>2. KernelRegions' = KernelRegions /\ currentDir = Limine /\ added = {}
    BY <2>1, RegionsSame DEF HomeInv, MapsInv, AddedInv
  <2>3. DirInv' /\ ThreadInv'
    BY <2>1, <2>2 DEF DirInv, ThreadInv
  <2>4. SegmentsInv'
    BY <2>1 DEF SegmentsInv, MapsInv
  <2>5. AddedInv'
    BY <2>1, <2>2 DEF AddedInv
  <2> QED
    BY <2>3, <2>4, <2>5 DEF MapsInv
<1>2. ASSUME MapFramebuffer
      PROVE  MapsInv'
  <2>1. /\ pc = "dir" /\ pc' = "framebuffer" /\ todo = <<>> /\ todo' = <<FramebufferRegion>>
        /\ UNCHANGED <<machine, kstack_phys, currentDir, added, segments, at, space>>
    BY <1>2 DEF MapFramebuffer, machineVars, loadVars
  <2>2. FramebufferRegion' = FramebufferRegion /\ added = {}
    BY <2>1, RegionsSame DEF MapsInv, AddedInv
  <2>3. KernelWindow(Mapped, machine, machine.window)
    BY <2>1, LoopsAre DEF MapsInv, DirInv
  <2>4. KernelWindow(Mapped', machine', machine'.window)
    BY <2>1, <2>3, LayoutKept
  <2>5. DirInv' /\ ThreadInv'
    BY <2>1, <2>2, <2>4 DEF DirInv, ThreadInv
  <2>6. SegmentsInv'
    BY <2>1 DEF SegmentsInv, MapsInv
  <2>7. AddedInv'
    BY <2>1, <2>2 DEF AddedInv
  <2> QED
    BY <2>5, <2>6, <2>7 DEF MapsInv
<1>3. ASSUME SwapToPageTable
      PROVE  MapsInv'
  <2>1. /\ pc = "framebuffer" /\ pc' = "cpus"
        /\ UNCHANGED <<machine, kstack_phys, added, segments, at, space>>
    BY <1>3 DEF SwapToPageTable, loadVars, walkVars
  <2>2. added = {} /\ KernelWindow(Mapped, machine, machine.window)
    BY <2>1 DEF MapsInv, AddedInv, DirInv
  <2>3. KernelWindow(Mapped', machine', machine'.window)
    BY <2>1, <2>2, LayoutKept
  <2>4. DirInv' /\ ThreadInv'
    BY <2>1, <2>3 DEF DirInv, ThreadInv
  <2>5. SegmentsInv'
    BY <2>1 DEF SegmentsInv, MapsInv
  <2>6. AddedInv'
    BY <2>1, <2>2 DEF AddedInv
  <2> QED
    BY <2>4, <2>5, <2>6 DEF MapsInv
<1>4. ASSUME MakeKernelStack
      PROVE  MapsInv'
  <2>1. /\ pc = "cpus" /\ pc' = "cpus"
        /\ UNCHANGED <<machine, currentDir, added, segments, at, space>>
    BY <1>4 DEF MakeKernelStack, loadVars, walkVars
  <2>2. added = {}
    BY <2>1 DEF MapsInv, AddedInv
  <2>3. \A n : KernelWindow(Mapped, machine, n) => KernelWindow(Mapped', machine', n)
    BY <2>1, LayoutKept
  <2>4. DirInv' /\ ThreadInv'
    BY <2>1, <2>3 DEF MapsInv, DirInv, ThreadInv
  <2>5. SegmentsInv'
    BY <2>1 DEF SegmentsInv, MapsInv
  <2>6. AddedInv'
    BY <2>1, <2>2 DEF AddedInv
  <2> QED
    BY <2>4, <2>5, <2>6 DEF MapsInv
<1> QED
  BY <1>1, <1>2, <1>3, <1>4

\* Segments of p, a program for machine m, ask for no page of the window or the
\* kernel stack.
Placed(p, m) ==
  \A i \in DOMAIN p : p[i].load /\ p[i].memsz # 0 => p[i].virt \in Virt \ Fixed(m)

LEMMA NewThreadMaps ==
  ASSUME Inv, MapsInv, [Next]_vars, NEW t \in Threads \ added, NEW p, Placed(p, machine),
         NewThread(t, p)
  PROVE  MapsInv'
<1>1. /\ pc' = "stack" /\ space' = t /\ segments' = p
      /\ UNCHANGED <<machine, kstack_phys, currentDir, at, added>>
  BY DEF NewThread, machineVars, walkVars
<1>2. /\ \A n : KernelWindow(Mapped, machine, n) => KernelWindow(Mapped', machine', n)
      /\ \A s : Complete(Mapped, s, WindowRegion, KStackRegion) =>
                  Complete(Mapped', s, WindowRegion', KStackRegion')
  BY <1>1, LayoutKept
<1>3. DirInv' /\ ThreadInv'
  BY <1>1, <1>2 DEF MapsInv, DirInv, ThreadInv
<1>4. SegmentsInv'
  BY <1>1 DEF SegmentsInv, Placed
<1>5. AddedInv'
  BY <1>1, <1>2 DEF MapsInv, AddedInv
<1> QED
  BY <1>3, <1>4, <1>5 DEF MapsInv

LEMMA ThreadMaps ==
  ASSUME Inv, MapsInv, [Next]_vars
  PROVE  /\ NewBspThread => MapsInv'
         /\ MakeStack => MapsInv'
         /\ MakeRoot => MapsInv'
         /\ ThreadMade => MapsInv'
         /\ (\E t \in Users, p \in Programs : LoadAndExecuteElf(t, p)) => MapsInv'
<1>1. ASSUME NewBspThread
      PROVE  MapsInv'
  <2>1. NewThread(BspThread, <<>>) /\ pc = "cpus"
    BY <1>1 DEF NewBspThread
  <2>2. BspThread \in Threads \ added
    BY <2>1 DEF Threads, MapsInv, AddedInv
  <2>3. Placed(<<>>, machine)
    BY DEF Placed
  <2> QED
    BY <2>1, <2>2, <2>3, NewThreadMaps
<1>2. ASSUME MakeStack
      PROVE  MapsInv'
  <2>1. /\ pc = "stack" /\ pc' = "root"
        /\ UNCHANGED <<machine, kstack_phys, currentDir, added, segments, at, space>>
    BY <1>2 DEF MakeStack, machineVars, walkVars
  <2>2. /\ \A n : KernelWindow(Mapped, machine, n) => KernelWindow(Mapped', machine', n)
        /\ \A s : Complete(Mapped, s, WindowRegion, KStackRegion) =>
                    Complete(Mapped', s, WindowRegion', KStackRegion')
    BY <2>1, LayoutKept
  <2>3. DirInv' /\ ThreadInv'
    BY <2>1, <2>2 DEF MapsInv, DirInv, ThreadInv
  <2>4. SegmentsInv'
    BY <2>1 DEF SegmentsInv, MapsInv
  <2>5. AddedInv'
    BY <2>1, <2>2 DEF MapsInv, AddedInv
  <2> QED
    BY <2>3, <2>4, <2>5 DEF MapsInv
<1>3. ASSUME MakeRoot
      PROVE  MapsInv'
  <2>1. /\ pc = "root" /\ pc' = "thread" /\ todo' = ThreadRegions /\ at' = 0
        /\ UNCHANGED <<machine, kstack_phys, currentDir, added, segments, space, stackAddr>>
    BY <1>3 DEF MakeRoot, NewTables, machineVars, loadVars
  <2>2. /\ \A n : KernelWindow(Mapped, machine, n) => KernelWindow(Mapped', machine', n)
        /\ \A s : Complete(Mapped, s, WindowRegion, KStackRegion) =>
                    Complete(Mapped', s, WindowRegion', KStackRegion')
    BY <2>1, LayoutKept
  <2>3. ThreadRegions' = ThreadRegions
    BY <2>1, RegionsSame
  <2>4. DirInv' /\ ThreadInv'
    BY <2>1, <2>2, <2>3 DEF MapsInv, DirInv, ThreadInv
  <2>5. SegmentsInv'
    BY <2>1 DEF SegmentsInv, MapsInv
  <2>6. AddedInv'
    BY <2>1, <2>2 DEF MapsInv, AddedInv
  <2> QED
    BY <2>4, <2>5, <2>6 DEF MapsInv
<1>4. ASSUME ThreadMade
      PROVE  MapsInv'
  <2>1. /\ pc = "thread" /\ pc' = "load" /\ todo = <<>>
        /\ UNCHANGED <<machine, kstack_phys, currentDir, added, segments, space, at>>
    BY <1>4 DEF ThreadMade, machineVars, loadVars, walkVars
  <2>2. /\ \A n : KernelWindow(Mapped, machine, n) => KernelWindow(Mapped', machine', n)
        /\ \A s : Complete(Mapped, s, WindowRegion, KStackRegion) =>
                    Complete(Mapped', s, WindowRegion', KStackRegion')
    BY <2>1, LayoutKept
  <2>3. Complete(Mapped, space, WindowRegion, KStackRegion)
    BY <2>1, LoopsAre DEF MapsInv, ThreadInv
  <2>4. DirInv' /\ ThreadInv'
    BY <2>1, <2>2 DEF MapsInv, DirInv, ThreadInv
  <2>5. SegmentsInv'
    BY <2>1, <2>2, <2>3 DEF SegmentsInv, MapsInv
  <2>6. AddedInv'
    BY <2>1, <2>2 DEF MapsInv, AddedInv
  <2> QED
    BY <2>4, <2>5, <2>6 DEF MapsInv
<1>5. ASSUME NEW t \in Users, NEW p \in Programs, LoadAndExecuteElf(t, p)
      PROVE  MapsInv'
  <2>1. NewThread(t, p) /\ program[t] = None
    BY <1>5 DEF LoadAndExecuteElf
  <2>2. t \in Threads \ added
    <3>1. rootTable[t] = None
      BY <2>1 DEF Inv, SpacesInv
    <3> QED
      BY <3>1, NamesAssumption DEF Inv, SpacesInv, Threads
  <2>3. Placed(p, machine)
    <3>1. machine \in Machines
      BY DEF Inv, TypeOK
    <3> QED
      BY <3>1, LayoutAssumption DEF Placed, Fixed
  <2> QED
    BY <2>1, <2>2, <2>3, NewThreadMaps
<1> QED
  BY <1>1, <1>2, <1>3, <1>4, <1>5

\* The rest of a sequence of segments.
LEMMA PlacedTail ==
  ASSUME NEW p \in Seq(Segment), p # <<>>, NEW m, Placed(p, m)
  PROVE  Placed(Tail(p), m)
<1>1. \A i \in DOMAIN Tail(p) : i + 1 \in DOMAIN p /\ Tail(p)[i] = p[i + 1]
  OBVIOUS
<1> QED
  BY <1>1 DEF Placed

LEMMA PlacedHead ==
  ASSUME NEW p \in Seq(Segment), p # <<>>, NEW m, Placed(p, m),
         Head(p).load, Head(p).memsz # 0
  PROVE  Head(p).virt \in Virt \ Fixed(m)
<1>1. Head(p) = p[1] /\ 1 \in DOMAIN p
  OBVIOUS
<1> QED
  BY <1>1 DEF Placed

LEMMA LoadMaps ==
  ASSUME Inv, MapsInv, [Next]_vars
  PROVE  /\ SkipSegment => MapsInv'
         /\ MakeSegment => MapsInv'
         /\ CopySegment => MapsInv'
         /\ AddThread => MapsInv'
<1>1. segments \in Seq(Segment) /\ Placed(segments, machine) /\ at \in Nat
  BY DEF Inv, TypeOK, MoreTypes, MapsInv, SegmentsInv, Placed
<1>2. ASSUME UNCHANGED <<machine, kstack_phys, currentDir, space>>, at' \in {at, 0},
             pc' \in {"load", "segment", "idle"}, pc \in {"load", "segment"},
             Placed(segments', machine),
             pc' = "segment" /\ todo' # <<>> =>
               /\ Head(todo').pages = 1 /\ Head(todo').virt \in Virt \ Fixed(machine)
               /\ Tail(todo') = <<>>,
             \A s \in added' : s \in added \/ s = space
      PROVE  MapsInv'
  <2>1. /\ \A n : KernelWindow(Mapped, machine, n) => KernelWindow(Mapped', machine', n)
        /\ \A s : Complete(Mapped, s, WindowRegion, KStackRegion) =>
                    Complete(Mapped', s, WindowRegion', KStackRegion')
    BY <1>2, LayoutKept
  <2>2. Complete(Mapped, space, WindowRegion, KStackRegion)
    BY <1>2 DEF MapsInv, SegmentsInv
  <2>3. DirInv' /\ ThreadInv'
    BY <1>2, <2>1 DEF MapsInv, DirInv, ThreadInv
  <2>4. SegmentsInv'
    BY <1>2, <2>1, <2>2 DEF SegmentsInv, Placed
  <2>5. AddedInv'
    BY <1>2, <2>1, <2>2 DEF MapsInv, AddedInv
  <2> QED
    BY <2>3, <2>4, <2>5 DEF MapsInv
<1>3. ASSUME SkipSegment
      PROVE  MapsInv'
  <2>1. /\ pc = "load" /\ pc' = "load" /\ segments # <<>> /\ segments' = Tail(segments)
        /\ UNCHANGED <<machine, kstack_phys, currentDir, space, at, added>>
    BY <1>3 DEF SkipSegment, machineVars, walkVars
  <2>2. Placed(segments', machine)
    BY <1>1, <2>1, PlacedTail
  <2> QED
    BY <1>2, <2>1, <2>2
<1>4. ASSUME MakeSegment
      PROVE  MapsInv'
  <2> DEFINE s == Head(segments)
  <2>1. /\ pc = "load" /\ pc' = "segment" /\ segments # <<>> /\ segments' = segments
        /\ s.load /\ s.memsz # 0 /\ at' = 0
        /\ UNCHANGED <<machine, kstack_phys, currentDir, space, added>>
    BY <1>4 DEF MakeSegment, machineVars
  <2>2. PICK f : todo' = <<Region(s.virt, f, 1, RwUser)>>
    BY <1>4 DEF MakeSegment
  <2>3. s.virt \in Virt \ Fixed(machine)
    BY <1>1, <2>1, PlacedHead
  <2> HIDE DEF s
  <2>4. /\ Head(todo').pages = 1 /\ Head(todo').virt \in Virt \ Fixed(machine)
        /\ Tail(todo') = <<>>
    <3> DEFINE g == Region(s.virt, f, 1, RwUser)
    <3>1. g.pages = 1 /\ g.virt = s.virt
      BY DEF Region
    <3> HIDE DEF g
    <3>2. Head(<<g>>) = g /\ Tail(<<g>>) = <<>>
      OBVIOUS
    <3> QED
      BY <2>2, <2>3, <3>1, <3>2 DEF g
  <2> QED
    BY <1>1, <1>2, <2>1, <2>4
<1>5. ASSUME CopySegment
      PROVE  MapsInv'
  <2>1. /\ pc = "segment" /\ pc' = "load" /\ segments' = Tail(segments)
        /\ UNCHANGED <<machine, kstack_phys, currentDir, space, at, added>>
    BY <1>5 DEF CopySegment, machineVars, walkVars
  <2>2. Placed(segments', machine)
    BY <1>1, <2>1, PlacedTail DEF Inv, SpacesInv
  <2> QED
    BY <1>2, <2>1, <2>2
<1>6. ASSUME AddThread
      PROVE  MapsInv'
  <2>1. /\ pc = "load" /\ pc' = "idle" /\ added' = added \cup {space} /\ segments' = segments
        /\ UNCHANGED <<machine, kstack_phys, currentDir, space, at>>
    BY <1>6 DEF AddThread, machineVars, walkVars
  <2> QED
    BY <1>1, <1>2, <2>1
<1> QED
  BY <1>3, <1>4, <1>5, <1>6

LEMMA SwitchMaps ==
  ASSUME Inv, MapsInv, HomeInv, [Next]_vars, NEW t \in added, SwitchTo(t)
  PROVE  MapsInv'
<1>1. /\ pc \notin Stopped
      /\ UNCHANGED <<machine, kstack_phys, pc, todo, at, space, added, stackAddr, segments>>
  BY DEF SwitchTo, loadVars, walkVars
<1>2. currentDir # Limine
  <2>1. pc \in {"cpus", "stack", "root", "thread", "load", "segment", "idle"}
    BY <1>1 DEF Inv, TypeOK, Mapping, MapsInv, AddedInv
  <2> QED
    BY <2>1 DEF HomeInv
<1>3. /\ \A n : KernelWindow(Mapped, machine, n) => KernelWindow(Mapped', machine', n)
      /\ \A s, n : Shows(Mapped, s, WindowRegion, n) => Shows(Mapped', s, WindowRegion', n)
      /\ \A s, n : Shows(Mapped, s, KStackRegion, n) => Shows(Mapped', s, KStackRegion', n)
      /\ \A s : Complete(Mapped, s, WindowRegion, KStackRegion) =>
                  Complete(Mapped', s, WindowRegion', KStackRegion')
  BY <1>1, LayoutKept
<1>4. /\ WindowRegion' = WindowRegion /\ ThreadRegions' = ThreadRegions
      /\ AfterKernel' = AfterKernel /\ AfterFramebuffer' = AfterFramebuffer
      /\ AfterStack' = AfterStack /\ AfterWindow' = AfterWindow
  BY <1>1, RegionsSame
<1>5. DirInv'
  BY <1>1, <1>2, <1>3 DEF MapsInv, DirInv, AddedInv
<1>6. ThreadInv'
  BY <1>1, <1>3, <1>4 DEF MapsInv, ThreadInv
<1>7. SegmentsInv'
  BY <1>1, <1>3 DEF MapsInv, SegmentsInv
<1>8. AddedInv'
  BY <1>1, <1>3 DEF MapsInv, AddedInv
<1> QED
  BY <1>5, <1>6, <1>7, <1>8 DEF MapsInv

LEMMA MapsNext ==
  ASSUME Inv, MapsInv, HomeInv, [Next]_vars
  PROVE  MapsInv'
<1>1. ASSUME MakeTable \/ Descend \/ (\E t \in Users : LoadFails(t)) \/ UNCHANGED vars
      PROVE  MapsInv'
  <2>1. UNCHANGED <<machine, kstack_phys, currentDir, pc, todo, at, space, added, stackAddr,
                    segments>>
    BY <1>1 DEF MakeTable, Descend, LoadFails, vars, machineVars, loadVars, walkVars
  <2> QED
    BY <2>1, QuietMaps
<1>2. ASSUME NoFramebuffer \/ CopyOverruns \/ OutOfMemory \/ PageFault
      PROVE  MapsInv'
  <2>1. /\ pc' \in Stopped
        /\ UNCHANGED <<machine, kstack_phys, currentDir, at, space, added, segments>>
    BY <1>2 DEF NoFramebuffer, CopyOverruns, OutOfMemory, PageFault, machineVars, loadVars,
                walkVars, Stopped
  <2> QED
    BY <2>1, StoppedMaps
<1> QED
  BY <1>1, <1>2, StoreMaps, RegionDoneMaps, BootMaps, ThreadMaps, LoadMaps, SwitchMaps, Zenon
     DEF Next

-----------------------------------------------------------------------------
(* Frames, kernel stacks, and the tables the processor uses *)

\* A step hands out free frames, or none.
LEMMA OwnersNext ==
  ASSUME Inv, [Next]_vars, NEW f \in Frames, owner[f].use # "free"
  PROVE  owner'[f] = owner[f]
<1>1. ASSUME NEW F, NEW rec, HandsOut(owner, owner', F, rec)
      PROVE  owner'[f] = owner[f]
  BY <1>1 DEF HandsOut
<1>2. CASE UNCHANGED memVars
  BY <1>2 DEF memVars
<1>3. CASE Others
  BY <1>1, <1>3 DEF Others
<1>4. CASE RootStep
  BY <1>1, <1>4 DEF RootStep, Tables
<1>5. CASE TableStep
  BY <1>1, <1>5 DEF TableStep, Tables
<1>6. CASE PageStep
  BY <1>6 DEF PageStep
<1> QED
  BY <1>2, <1>3, <1>4, <1>5, <1>6, StepKinds DEF Inv

LEMMA UsableNext ==
  ASSUME Inv, UsableInv, [Next]_vars, machine' = machine
  PROVE  UsableInv'
BY OwnersNext DEF UsableInv

LEMMA KStackKept ==
  ASSUME Inv, [Next]_vars, NEW f, KStackAt(owner, f)
  PROVE  KStackAt(owner', f)
BY OwnersNext DEF KStackAt

\* The machine is what the boot loader reports.
LEMMA MachineSame ==
  ASSUME [Next]_vars
  PROVE  machine' = machine
BY DEF Next, MakeTable, Descend, StoreEntry, RegionDone, MakeKernelDir, MapFramebuffer,
       NoFramebuffer, SwapToPageTable, MakeKernelStack, NewBspThread, NewThread, MakeStack,
       MakeRoot, ThreadMade, LoadFails, LoadAndExecuteElf, SkipSegment, MakeSegment,
       CopySegment, CopyOverruns, AddThread, SwitchTo, OutOfMemory, PageFault, vars,
       machineVars

\* Kernel stacks are made before the first thread, and only then.
LEMMA StacksSame ==
  ASSUME [Next]_vars, ~ MakeKernelStack
  PROVE  UNCHANGED <<kstack_phys, cpu>>
BY DEF Next, MakeTable, Descend, StoreEntry, RegionDone, MakeKernelDir, MapFramebuffer,
       NoFramebuffer, SwapToPageTable, NewBspThread, NewThread, MakeStack,
       MakeRoot, ThreadMade, LoadFails, LoadAndExecuteElf, SkipSegment, MakeSegment,
       CopySegment, CopyOverruns, AddThread, SwitchTo, OutOfMemory, PageFault, vars,
       machineVars

\* Where the kernel is after it has booted.
Booted == {"stack", "root", "thread", "load", "segment", "idle"}

LEMMA BootedFrom ==
  ASSUME [Next]_vars, ~ NewBspThread, pc' \in Booted
  PROVE  pc \in Booted
BY DEF Next, MakeTable, Descend, StoreEntry, RegionDone, MakeKernelDir, MapFramebuffer,
       NoFramebuffer, SwapToPageTable, MakeKernelStack, NewThread, MakeStack,
       MakeRoot, ThreadMade, LoadFails, LoadAndExecuteElf, SkipSegment, MakeSegment,
       CopySegment, CopyOverruns, AddThread, SwitchTo, OutOfMemory, PageFault, vars,
       Booted, Stopped

LEMMA KernelStackMade ==
  ASSUME Inv, MakeKernelStack
  PROVE  \E f \in Frames :
           /\ kstack_phys' = [kstack_phys EXCEPT ![machine.cpus[cpu + 1]] = f]
           /\ KStackAt(owner', f)
<1>1. owner \in [Frames -> Owner] /\ KStackExtent \in Nat /\ KStackExtent = KStackPages
  BY SizesAssumption DEF Inv, TypeOK, KStackExtent
<1>2. PICK f \in Places(KStackExtent) :
        /\ owner' = Given(f, KStackExtent, "kstack", None, 0)
        /\ kstack_phys' = [kstack_phys EXCEPT ![machine.cpus[cpu + 1]] = f]
  BY DEF MakeKernelStack
<1>3. UNCHANGED <<mem, rootTable>>
  BY DEF MakeKernelStack
<1>4. HandsOut(owner, owner', Run(f, KStackExtent), [use |-> "kstack", space |-> None, level |-> 0])
  BY <1>1, <1>2, <1>3, GivenOthers
<1>5. f \in Frames /\ f \in Nat
  BY <1>1, PlacesAre
<1>6. KStackAt(owner', f)
  <2> SUFFICES ASSUME NEW k \in 0 .. (KStackPages - 1)
               PROVE  f + k \in Frames /\ owner'[f + k].use = "kstack"
    BY DEF KStackAt
  <2>1. f + k \in Run(f, KStackExtent)
    BY <1>1, <1>5 DEF Run
  <2> QED
    BY <1>4, <2>1 DEF HandsOut
<1> QED
  BY <1>2, <1>5, <1>6

LEMMA StacksNext ==
  ASSUME Inv, StacksInv, [Next]_vars
  PROVE  StacksInv'
<1>1. machine' = machine
  BY MachineSame
<1> DEFINE q == machine.cpus
           m == Len(q)
<1>2. q \in Seq(0 .. 255) /\ m \in Nat /\ (\A i \in 1 .. m : q[i] \in 0 .. 255) /\ cpu \in Nat
  <2>1. q \in Seq(0 .. 255)
    BY MachineIs DEF Inv
  <2>2. cpu \in Nat
    BY DEF Inv, TypeOK
  <2>3. \A S, p : p \in Seq(S) => Len(p) \in Nat /\ \A i \in 1 .. Len(p) : p[i] \in S
    OBVIOUS
  <2> HIDE DEF q
  <2> QED
    BY <2>1, <2>2, <2>3
<1>3. kstack_phys \in [0 .. 255 -> Nat]
  BY DEF Inv, MoreTypes
<1>4. /\ cpu <= m /\ (pc \in Booted => cpu = m) /\ (added # {} => cpu = m)
      /\ \A i \in 1 .. cpu : KStackAt(owner, kstack_phys[q[i]])
      /\ \A c \in 0 .. 255 : (\A i \in 1 .. cpu : q[i] # c) => kstack_phys[c] = 0
  BY DEF StacksInv, Booted
<1>5. StacksInv' <=>
        /\ cpu' <= m /\ (pc' \in Booted => cpu' = m) /\ (added' # {} => cpu' = m)
        /\ \A i \in 1 .. cpu' : KStackAt(owner', kstack_phys'[q[i]])
        /\ \A c \in 0 .. 255 : (\A i \in 1 .. cpu' : q[i] # c) => kstack_phys'[c] = 0
  BY <1>1, Zenon DEF StacksInv, Booted
<1>6. CASE MakeKernelStack
  <2>1. cpu < m /\ cpu' = cpu + 1 /\ pc' = "cpus" /\ added' = added
    BY <1>6 DEF MakeKernelStack, loadVars
  <2>2. PICK f \in Frames : /\ kstack_phys' = [kstack_phys EXCEPT ![q[cpu + 1]] = f]
                            /\ KStackAt(owner', f)
    BY <1>6, KernelStackMade
  <2> HIDE DEF q, m
  <2>3. cpu + 1 \in 1 .. m /\ q[cpu + 1] \in 0 .. 255
    BY <1>2, <2>1
  <2>4. /\ kstack_phys'[q[cpu + 1]] = f
        /\ \A c \in 0 .. 255 : c # q[cpu + 1] => kstack_phys'[c] = kstack_phys[c]
    BY <1>3, <2>2, <2>3
  <2>5. ASSUME NEW i \in 1 .. cpu'
        PROVE  KStackAt(owner', kstack_phys'[q[i]])
    <3>1. i \in 1 .. m /\ q[i] \in 0 .. 255 /\ (i = cpu + 1 \/ i \in 1 .. cpu)
      BY <1>2, <2>1
    <3>2. CASE q[i] = q[cpu + 1]
      BY <2>2, <2>4, <3>2
    <3>3. CASE q[i] # q[cpu + 1]
      <4>1. i \in 1 .. cpu
        BY <3>1, <3>3
      <4>2. KStackAt(owner', kstack_phys[q[i]])
        BY <1>4, <4>1, KStackKept
      <4> QED
        BY <2>4, <3>1, <3>3, <4>2
    <3> QED
      BY <3>2, <3>3
  <2>6. ASSUME NEW c \in 0 .. 255, \A i \in 1 .. cpu' : q[i] # c
        PROVE  kstack_phys'[c] = 0
    <3>1. c # q[cpu + 1] /\ \A i \in 1 .. cpu : q[i] # c
      BY <1>2, <2>1, <2>6
    <3> QED
      BY <1>4, <2>4, <3>1
  <2>7. cpu' <= m /\ pc' \notin Booted /\ added' = {}
    BY <1>2, <1>4, <2>1 DEF Booted
  <2> QED
    BY <1>5, <2>5, <2>6, <2>7
<1>7. CASE ~ MakeKernelStack
  <2>1. UNCHANGED <<kstack_phys, cpu>>
    BY <1>7, StacksSame
  <2>2. pc' \in Booted => cpu = m
    <3>1. NewBspThread => cpu = m
      BY DEF NewBspThread
    <3> QED
      BY <1>4, <3>1, BootedFrom
  <2>3. \A i \in 1 .. cpu : KStackAt(owner', kstack_phys[q[i]])
    BY <1>4, KStackKept
  <2>4. added' # {} => cpu = m
    <3>1. added' = added \/ pc \in Booted
      BY DEF Next, MakeTable, Descend, StoreEntry, RegionDone, MakeKernelDir, MapFramebuffer,
         NoFramebuffer, SwapToPageTable, MakeKernelStack, NewBspThread, NewThread, MakeStack,
         MakeRoot, ThreadMade, LoadFails, LoadAndExecuteElf, SkipSegment, MakeSegment,
         CopySegment, CopyOverruns, AddThread, SwitchTo, OutOfMemory, PageFault, vars,
         loadVars, Booted
    <3> QED
      BY <1>4, <3>1
  <2> HIDE DEF q, m
  <2> QED
    BY <1>4, <1>5, <2>1, <2>2, <2>3, <2>4
<1> QED
  BY <1>6, <1>7

\* Tables stay at the top of their space.
LEMMA RootsKept ==
  ASSUME Inv, [Next]_vars, NEW s \in Spaces, rootTable[s] \in Frames
  PROVE  rootTable'[s] = rootTable[s]
<1>1. CASE UNCHANGED memVars
  BY <1>1 DEF memVars
<1>2. CASE Others
  BY <1>2 DEF Others
<1>3. CASE RootStep
  <2>1. rootTable[space] = None
    BY <1>3 DEF RootStep
  <2>2. s # space
    BY <2>1, NamesAssumption
  <2>3. rootTable \in [Spaces -> Frames \cup {None}]
    BY DEF Inv, TypeOK
  <2> QED
    BY <1>3, <2>2, <2>3 DEF RootStep
<1>4. CASE TableStep
  BY <1>4 DEF TableStep
<1>5. CASE PageStep
  BY <1>5 DEF PageStep
<1> QED
  BY <1>1, <1>2, <1>3, <1>4, <1>5, StepKinds DEF Inv

\* Who uses which tables, without the tables.
PlacesInv ==
  /\ pc \in {"boot", "dir", "framebuffer"} => currentDir = Limine
  /\ pc \in {"cpus"} \cup Booted => currentDir # Limine
  /\ pc = "idle" => BspThread \in added
  /\ pc \in Booted \ {"idle"} =>
       IF space = BspThread THEN segments = <<>> ELSE BspThread \in added

CurrentInv ==
  currentDir \in {Limine, rootTable[Kernel]} \/ \E t \in added : currentDir = rootTable[t]

LEMMA HomeIs == HomeInv <=> CurrentInv /\ PlacesInv
BY DEF HomeInv, CurrentInv, PlacesInv, Booted

\* Once there are threads there is BspKernelThread's and the kernel has booted.
LEMMA PlacesNext ==
  ASSUME Inv, AddedInv, PlacesInv, [Next]_vars
  PROVE  PlacesInv'
<1>1. /\ currentDir \in Frames \cup {Limine} /\ Limine \notin Frames
      /\ \A t \in added : rootTable[t] \in Frames
      /\ pc \in {"boot", "dir", "framebuffer", "cpus"} => added = {}
  BY NamesAssumption DEF Inv, TypeOK, SpacesInv, AddedInv
<1>2. ASSUME MakeTable \/ Descend \/ StoreEntry \/ RegionDone
             \/ (\E t \in Users : LoadFails(t)) \/ UNCHANGED vars
      PROVE  PlacesInv'
  <2>1. UNCHANGED <<currentDir, pc, space, added, segments>>
    BY <1>2 DEF MakeTable, Descend, StoreEntry, RegionDone, LoadFails, vars, machineVars, loadVars
  <2> QED
    BY <2>1 DEF PlacesInv
<1>3. ASSUME NoFramebuffer \/ CopyOverruns \/ OutOfMemory \/ PageFault
      PROVE  PlacesInv'
  <2>1. pc' \in {"halted", "fault", "overrun"}
    BY <1>3 DEF NoFramebuffer, CopyOverruns, OutOfMemory, PageFault
  <2> QED
    BY <2>1 DEF PlacesInv, Booted
<1>4. ASSUME MakeKernelDir \/ MapFramebuffer
      PROVE  PlacesInv'
  <2>1. pc \in {"boot", "dir"} /\ pc' \in {"dir", "framebuffer"} /\ currentDir' = currentDir
    BY <1>4 DEF MakeKernelDir, MapFramebuffer, machineVars
  <2> QED
    BY <2>1 DEF PlacesInv, Booted
<1>5. ASSUME SwapToPageTable
      PROVE  PlacesInv'
  <2>1. pc = "framebuffer" /\ pc' = "cpus" /\ currentDir' = rootTable[Kernel]
    BY <1>5 DEF SwapToPageTable
  <2>2. rootTable[Kernel] \in Frames
    BY <2>1 DEF Inv, SpacesInv, Mapping
  <2> QED
    BY <1>1, <2>1, <2>2 DEF PlacesInv, Booted
<1>6. ASSUME MakeKernelStack
      PROVE  PlacesInv'
  <2>1. pc = "cpus" /\ pc' = "cpus" /\ currentDir' = currentDir
    BY <1>6 DEF MakeKernelStack
  <2> QED
    BY <2>1 DEF PlacesInv, Booted
<1>7. ASSUME NewBspThread
      PROVE  PlacesInv'
  <2>1. /\ pc = "cpus" /\ pc' = "stack" /\ space' = BspThread /\ segments' = <<>>
        /\ currentDir' = currentDir
    BY <1>7 DEF NewBspThread, NewThread, machineVars
  <2> QED
    BY <2>1 DEF PlacesInv, Booted
<1>8. ASSUME NEW t \in Users, NEW p \in Programs, LoadAndExecuteElf(t, p)
      PROVE  PlacesInv'
  <2>1. /\ pc = "idle" /\ pc' = "stack" /\ space' = t
        /\ currentDir' = currentDir /\ added' = added
    BY <1>8 DEF LoadAndExecuteElf, NewThread, machineVars
  <2> QED
    BY <2>1, NamesAssumption DEF PlacesInv, Booted
<1>9. ASSUME MakeStack \/ MakeRoot \/ ThreadMade \/ MakeSegment
      PROVE  PlacesInv'
  <2>1. /\ pc \in Booted \ {"idle"} /\ pc' \in Booted \ {"idle"}
        /\ UNCHANGED <<currentDir, space, segments, added>>
    BY <1>9 DEF MakeStack, MakeRoot, ThreadMade, MakeSegment, machineVars, loadVars, Booted
  <2> QED
    BY <2>1 DEF PlacesInv, Booted
<1>10. ASSUME SkipSegment \/ CopySegment
       PROVE  PlacesInv'
  <2>1. /\ pc \in Booted \ {"idle"} /\ pc' \in Booted \ {"idle"} /\ segments # <<>>
        /\ UNCHANGED <<currentDir, space, added>>
    BY <1>10 DEF SkipSegment, CopySegment, machineVars, Booted, Inv, SpacesInv
  <2> QED
    BY <2>1 DEF PlacesInv, Booted
<1>11. ASSUME AddThread
       PROVE  PlacesInv'
  <2>1. pc = "load" /\ pc' = "idle" /\ added' = added \cup {space} /\ currentDir' = currentDir
    BY <1>11 DEF AddThread, machineVars
  <2> QED
    BY <2>1 DEF PlacesInv, Booted
<1>12. ASSUME NEW t \in added, SwitchTo(t)
       PROVE  PlacesInv'
  <2>1. currentDir' = rootTable[t] /\ UNCHANGED <<pc, space, added, segments>>
    BY <1>12 DEF SwitchTo, loadVars
  <2> QED
    BY <1>1, <2>1 DEF PlacesInv
<1> QED
  BY <1>2, <1>3, <1>4, <1>5, <1>6, <1>7, <1>8, <1>9, <1>10, <1>11, <1>12, Zenon DEF Next

LEMMA CurrentNext ==
  ASSUME Inv, CurrentInv, [Next]_vars
  PROVE  CurrentInv'
<1>1. /\ \A t \in added : t \in Spaces /\ rootTable[t] \in Frames
      /\ Kernel \in Spaces /\ currentDir \in Frames \cup {Limine}
  BY DEF Inv, TypeOK, SpacesInv, Spaces
<1>2. \A t \in added : rootTable'[t] = rootTable[t]
  BY <1>1, RootsKept
<1>3. rootTable[Kernel] \in Frames => rootTable'[Kernel] = rootTable[Kernel]
  BY <1>1, RootsKept
<1>4. added \subseteq added'
  BY DEF Next, MakeTable, Descend, StoreEntry, RegionDone, MakeKernelDir, MapFramebuffer,
         NoFramebuffer, SwapToPageTable, MakeKernelStack, NewBspThread, NewThread, MakeStack,
         MakeRoot, ThreadMade, LoadFails, LoadAndExecuteElf, SkipSegment, MakeSegment,
         CopySegment, CopyOverruns, AddThread, SwitchTo, OutOfMemory, PageFault, vars,
         loadVars
<1>5. CASE currentDir' = currentDir
  BY <1>1, <1>2, <1>3, <1>4, <1>5 DEF CurrentInv
<1>6. CASE SwapToPageTable
  <2>1. pc = "framebuffer" /\ currentDir' = rootTable[Kernel]
    BY <1>6 DEF SwapToPageTable
  <2>2. rootTable[Kernel] \in Frames
    BY <2>1 DEF Inv, SpacesInv, Mapping
  <2> QED
    BY <1>3, <2>1, <2>2 DEF CurrentInv
<1>7. CASE \E t \in added : SwitchTo(t)
  <2>1. PICK t \in added : currentDir' = rootTable[t]
    BY <1>7 DEF SwitchTo
  <2> QED
    BY <1>2, <1>4, <2>1 DEF CurrentInv
<1>8. currentDir' = currentDir \/ SwapToPageTable \/ \E t \in added : SwitchTo(t)
  BY DEF Next, MakeTable, Descend, StoreEntry, RegionDone, MakeKernelDir, MapFramebuffer,
         NoFramebuffer, MakeKernelStack, NewBspThread, NewThread, MakeStack,
         MakeRoot, ThreadMade, LoadFails, LoadAndExecuteElf, SkipSegment, MakeSegment,
         CopySegment, CopyOverruns, AddThread, OutOfMemory, PageFault, vars, machineVars
<1> QED
  BY <1>5, <1>6, <1>7, <1>8

-----------------------------------------------------------------------------
(* A frame below 4 GiB is in the window *)

\* What the kernel touches is memory, and usable but where memcpy overruns.
LEMMA AccessesAre ==
  ASSUME Inv, NEW f \in Accesses
  PROVE  f \in Frames /\ (pc = "segment" \/ owner[f].use # "hole")
<1>1. ASSUME NEW n \in Nat, NEW p \in Places(n), NEW g \in Run(p, n)
      PROVE  g \in Frames /\ owner[g].use # "hole"
  BY PlacesAre
<1>2. ASSUME NEW p \in Places(1)
      PROVE  p \in Frames /\ owner[p].use # "hole"
  <2>1. p \in Run(p, 1) /\ 1 \in Nat
    BY PlacesAre
  <2> QED
    BY <1>1, <2>1
<1>3. CASE pc = "stack"
  <2>1. Accesses = UNION {Run(p, StackPages) : p \in Places(StackExtent)}
    <3>1. ~ Walking
      BY <1>3 DEF Walking, Mapping
    <3> QED
      BY <1>3, <3>1, Zenon DEF Accesses
  <2>2. PICK p \in Places(StackExtent) : f \in Run(p, StackPages)
    BY <2>1
  <2>3. f \in Run(p, StackExtent)
    <3>1. p \in Nat
      BY PlacesAre, StackExtentIs
    <3> QED
      BY <2>2, <3>1, StackExtentIs DEF Run
  <2> QED
    BY <1>1, <2>3, StackExtentIs
<1>4. CASE pc \in {"boot", "root"}
  <2>1. Accesses = Places(1)
    <3>1. ~ Walking /\ pc # "stack" /\ pc # "segment"
      BY <1>4 DEF Walking, Mapping
    <3> QED
      BY <1>4, <3>1, Zenon DEF Accesses
  <2> QED
    BY <1>2, <2>1
<1>5. CASE Walking
  <2>1. pc \in Mapping
    BY <1>5 DEF Walking
  <2>2. Accesses = {table} \cup (IF Asked = 1 THEN Places(1) ELSE {})
    <3>1. todo # <<>> /\ pc # "stack" /\ pc \notin {"boot", "root"}
      BY <1>5, <2>1 DEF Walking, Mapping
    <3> QED
      BY <1>5, <3>1, Zenon DEF Accesses
  <2>3. f = table \/ f \in Places(1)
    BY <2>2
  <2>4. table \in Frames /\ owner[table].use = "table"
    BY <2>1, PlaceIs, TableIs DEF Inv
  <2> QED
    BY <1>2, <2>3, <2>4
<1>6. CASE pc \notin {"stack", "boot", "root"} /\ ~ Walking
  <2>1. pc = "segment" /\ f \in Written(Head(segments)) \cap Frames
    BY <1>6 DEF Accesses
  <2> QED
    BY <2>1
<1> QED
  BY <1>3, <1>4, <1>5, <1>6

\* What the window shows of a finished space.
LEMMA CompleteReaches ==
  ASSUME Inv, NEW s, Complete(Mapped, s, WindowRegion, KStackRegion),
         NEW f \in 0 .. (machine.window - 1)
  PROVE  Translation(rootTable[s], HhdmVirt + f) = {[frame |-> f, flags |-> Rw]}
<1> DEFINE w == WindowRegion
<1>1. /\ w.virt = HhdmVirt /\ w.phys = 0 /\ w.pages = machine.window /\ w.flags = Rw
      /\ HhdmVirt + f \in Virt /\ machine.window \in Nat
  BY LayoutIs DEF Inv
<1>2. Shows(Mapped, s, w, w.pages)
  BY DEF Complete
<1> HIDE DEF w
<1>3. s \in Live /\ Mapped[s][w.virt + f] = {[frame |-> w.phys + f, flags |-> w.flags]}
  BY <1>1, <1>2, MappedIs DEF Shows
<1>4. 0 + f = f
  BY <1>1
<1>5. Mapped[s][HhdmVirt + f] = {[frame |-> f, flags |-> Rw]}
  BY <1>1, <1>3, <1>4
<1>6. Mapped[s][HhdmVirt + f] = Translation(rootTable[s], HhdmVirt + f)
  BY <1>1, <1>3 DEF Mapped
<1> QED
  BY <1>5, <1>6

\* What kernelDir's window shows.
LEMMA KernelReaches ==
  ASSUME Inv, KernelWindow(Mapped, machine, machine.window),
         NEW f \in 0 .. (machine.window - 1)
  PROVE  \E e : /\ Translation(rootTable[Kernel], HhdmVirt + f) = {e}
                /\ e.frame = f \/ AliasedOn(machine, f)
<1>1. HhdmVirt + f \in Virt
  BY LayoutIs DEF Inv
<1>2. PICK e \in Entry :
        Mapped[Kernel][HhdmVirt + f] = {e} /\ (e.frame = f \/ AliasedOn(machine, f))
  BY DEF KernelWindow
<1>3. Kernel \in Live
  BY MappedIs DEF KernelWindow
<1>4. Mapped[Kernel][HhdmVirt + f] = Translation(rootTable[Kernel], HhdmVirt + f)
  BY <1>1, <1>3 DEF Mapped
<1> QED
  BY <1>2, <1>4

LEMMA FaultIs ==
  ASSUME Inv, MapsInv, HomeInv, UsableInv, PageFault
  PROVE  touched' \in Nat /\ touched' >= machine.window
<1>1. PICK f \in Accesses : ~ Reaches(f) /\ touched' = f
  BY DEF PageFault
<1>2. AtHome
  BY DEF PageFault
<1>3. f \in Frames /\ f \in Nat /\ machine.window \in Nat
      /\ (pc = "segment" \/ owner[f].use # "hole")
  BY AccessesAre, MachineIs, SizesAssumption DEF Inv
<1>4. SUFFICES ASSUME f < machine.window
               PROVE  FALSE
  BY <1>1, <1>3
<1>5. f \in 0 .. (machine.window - 1)
  BY <1>3, <1>4
<1>6. pc # "boot" /\ currentDir # Limine
      /\ {e.frame : e \in Translation(currentDir, HhdmVirt + f)} # {f}
  BY <1>1, <1>4 DEF Reaches
<1>7. ASSUME NEW t \in added, currentDir = rootTable[t]
      PROVE  FALSE
  <2> DEFINE e == [frame |-> f, flags |-> Rw]
  <2>1. Complete(Mapped, t, WindowRegion, KStackRegion)
    BY DEF MapsInv, AddedInv
  <2>2. Translation(currentDir, HhdmVirt + f) = {e}
    BY <1>5, <1>7, <2>1, CompleteReaches
  <2>3. e.frame = f
    OBVIOUS
  <2> HIDE DEF e
  <2> QED
    BY <1>6, <2>2, <2>3
<1>8. BspThread \notin added
  BY <1>2, <1>7 DEF AtHome
<1>9. pc # "segment"
  <2>1. pc = "segment" => segments # <<>>
    BY DEF Inv, SpacesInv
  <2> QED
    BY <1>8, <2>1 DEF HomeInv
<1>10. f \in machine.usable
  BY <1>3, <1>9 DEF UsableInv
<1>11. ~ AliasedOn(machine, f)
  <2>1. ScreenFrames(machine) \cap machine.usable = {}
    BY LayoutAssumption DEF Inv, TypeOK
  <2> QED
    BY <1>10, <2>1 DEF AliasedOn
<1>12. currentDir = rootTable[Kernel]
  BY <1>6, <1>7 DEF HomeInv
<1>13. KernelWindow(Mapped, machine, machine.window)
  BY <1>6 DEF MapsInv, DirInv
<1>14. PICK e : Translation(currentDir, HhdmVirt + f) = {e} /\ e.frame = f
  BY <1>5, <1>11, <1>12, <1>13, KernelReaches
<1> QED
  BY <1>6, <1>14

LEMMA FaultNext ==
  ASSUME Inv, MapsInv, HomeInv, UsableInv, FaultInv, [Next]_vars
  PROVE  FaultInv'
<1>1. machine' = machine
  BY MachineSame
<1>2. CASE PageFault
  BY <1>1, <1>2, FaultIs DEF FaultInv
<1>3. CASE ~ PageFault
  <2>1. touched' = touched /\ (pc' = "fault" => pc = "fault")
    BY <1>3 DEF Next, MakeTable, Descend, StoreEntry, RegionDone, MakeKernelDir, MapFramebuffer,
         NoFramebuffer, SwapToPageTable, MakeKernelStack, NewBspThread, NewThread, MakeStack,
         MakeRoot, ThreadMade, LoadFails, LoadAndExecuteElf, SkipSegment, MakeSegment,
         CopySegment, CopyOverruns, AddThread, SwitchTo, OutOfMemory, vars, ghosts
  <2> QED
    BY <1>1, <2>1 DEF FaultInv
<1> QED
  BY <1>2, <1>3

LEMMA LayoutInit == Init => LayoutInv
<1> SUFFICES ASSUME Init
             PROVE  LayoutInv
  OBVIOUS
<1>1. /\ pc = "boot" /\ added = {} /\ segments = <<>> /\ cpu = 0 /\ currentDir = Limine
      /\ kstack_phys = [c \in 0 .. 255 |-> 0]
      /\ \A f \in Frames : owner[f].use # "hole" => f \in machine.usable
  BY DEF Init
<1>2. TypeOK
  BY InvInit DEF Inv
<1>3. 0 <= Len(machine.cpus)
  <2> DEFINE q == machine.cpus
  <2>1. q \in Seq(0 .. 255)
    BY <1>2, MachineIs
  <2> HIDE DEF q
  <2> QED
    BY <2>1 DEF q
<1>4. DirInv /\ ThreadInv /\ SegmentsInv /\ AddedInv
  BY <1>1 DEF DirInv, ThreadInv, SegmentsInv, AddedInv
<1>5. StacksInv
  BY <1>1, <1>3 DEF StacksInv
<1>6. HomeInv /\ UsableInv /\ FaultInv
  BY <1>1 DEF HomeInv, UsableInv, FaultInv
<1> QED
  BY <1>4, <1>5, <1>6 DEF LayoutInv

LEMMA LayoutNext ==
  ASSUME Inv, LayoutInv, [Next]_vars
  PROVE  LayoutInv'
<1>1. MapsInv /\ StacksInv /\ HomeInv /\ UsableInv /\ FaultInv
  BY DEF LayoutInv, MapsInv
<1>2. MapsInv'
  BY <1>1, MapsNext
<1>3. HomeInv'
  <2>1. CurrentInv' /\ PlacesInv'
    BY <1>1, HomeIs, CurrentNext, PlacesNext DEF MapsInv
  <2>2. (HomeInv <=> CurrentInv /\ PlacesInv)'
    BY HomeIs, PTL
  <2> QED
    BY <2>1, <2>2
<1>4. StacksInv' /\ UsableInv' /\ FaultInv'
  BY <1>1, MachineSame, StacksNext, UsableNext, FaultNext
<1> QED
  BY <1>2, <1>3, <1>4 DEF LayoutInv, MapsInv

\* Where Initialize, Scheduler::Initialize, the constructor and LoadAndExecuteElf are
\* says what is mapped so far: the loops come one after the other (vmm.cpp:91-120,
\* task.cpp:42-62), and only segments are mapped once a space is finished.
THEOREM LayoutInvariant == Spec => []LayoutInv
<1>1. Init => LayoutInv
  BY LayoutInit
<1>2. Inv /\ LayoutInv /\ [Next]_vars => LayoutInv'
  BY LayoutNext
<1> QED
  BY <1>1, <1>2, InductiveInvariant, PTL DEF Spec

\* The tables of every thread map all of the window (task.cpp:58) and so do
\* kernelDir's, but where the first framebuffer entry is mapped over the screen's
\* place (vmm.cpp:100-114); a fault while tables or stacks are written means memory
\* above 4 GiB.
THEOREM WindowsHold == Spec => []WindowHolds
<1>1. Inv /\ LayoutInv => WindowHolds
  <2> SUFFICES ASSUME Inv, LayoutInv
               PROVE  WindowHolds
    OBVIOUS
  <2>1. machine.window \in Nat
    BY MachineIs DEF Inv
  <2>2. ASSUME NEW s \in added, NEW f \in 0 .. (machine.window - 1)
        PROVE  \E e \in Translation(rootTable[s], HhdmVirt + f) : e.frame = f
    <3>1. Complete(Mapped, s, WindowRegion, KStackRegion)
      BY DEF LayoutInv, AddedInv
    <3>2. Translation(rootTable[s], HhdmVirt + f) = {[frame |-> f, flags |-> Rw]}
      BY <3>1, CompleteReaches
    <3> DEFINE e == [frame |-> f, flags |-> Rw]
    <3>3. e.frame = f
      OBVIOUS
    <3> HIDE DEF e
    <3>4. e \in Translation(rootTable[s], HhdmVirt + f)
      BY <3>2 DEF e
    <3> QED
      BY <3>3, <3>4
  <2>3. ASSUME rootTable[Kernel] = currentDir, NEW f \in 0 .. (machine.window - 1)
        PROVE  \E e \in Translation(rootTable[Kernel], HhdmVirt + f) :
                 e.frame = f \/ Aliased(f)
    <3>1. currentDir # Limine
      BY <2>3, NamesAssumption DEF Inv, TypeOK, Spaces
    <3>2. KernelWindow(Mapped, machine, machine.window)
      BY <3>1 DEF LayoutInv, DirInv
    <3>3. PICK e : /\ Translation(rootTable[Kernel], HhdmVirt + f) = {e}
                   /\ e.frame = f \/ AliasedOn(machine, f)
      BY <3>2, KernelReaches
    <3> QED
      BY <3>3 DEF Aliased, AliasedOn
  <2>4. pc = "fault" => touched >= machine.window
    BY DEF LayoutInv, FaultInv
  <2>5. \A s \in added \cup {x \in {Kernel} : rootTable[x] = currentDir} :
          \A f \in 0 .. (machine.window - 1) :
            \E e \in Translation(rootTable[s], HhdmVirt + f) :
              e.frame = f \/ (s = Kernel /\ Aliased(f))
    BY <2>2, <2>3
  <2> QED
    BY <2>4, <2>5 DEF WindowHolds
<1> QED
  BY <1>1, InductiveInvariant, LayoutInvariant, PTL

\* System calls of a thread run on pages made for kernel stacks when the boot
\* processor's LAPIC id is also some processor_id, and on the first pages of memory
\* otherwise (scheduler.cpp:156, task.cpp:61).
THEOREM KernelStacksAreBacked == Spec => []KernelStackBacked
<1>1. Inv /\ LayoutInv => KernelStackBacked
  <2> SUFFICES ASSUME Inv, LayoutInv, NEW t \in added, NEW k \in 0 .. (KStackPages - 1)
               PROVE  \E e \in Translation(rootTable[t], KStackVirt + k) :
                        IF machine.bsp \in Range(machine.cpus)
                        THEN e.frame \in Frames /\ owner[e.frame].use = "kstack"
                        ELSE e.frame = k
    BY DEF KernelStackBacked
  <2> DEFINE g == KStackRegion
             b == kstack_phys[machine.bsp]
             e == [frame |-> b + k, flags |-> g.flags]
  <2>1. /\ g.virt = KStackVirt /\ g.pages = KStackPages + 1 /\ g.phys = b /\ KStackPages \in Nat
        /\ KStackVirt + k \in Virt
    BY LayoutIs DEF Inv
  <2>2. Shows(Mapped, t, g, g.pages)
    BY DEF LayoutInv, AddedInv, Complete
  <2>3. Translation(rootTable[t], KStackVirt + k) = {e}
    <3> HIDE DEF g
    <3>1. Mapped[t][KStackVirt + k] = {e} /\ t \in Live
      BY <2>1, <2>2, MappedIs DEF Shows
    <3> QED
      BY <2>1, <3>1 DEF Mapped
  <2>4. e.frame = b + k
    OBVIOUS
  <2>5. cpu = Len(machine.cpus)
    BY DEF LayoutInv, StacksInv
  <2> HIDE DEF e, g
  <2>6. CASE machine.bsp \in Range(machine.cpus)
    <3> DEFINE q == machine.cpus
    <3>1. PICK i \in DOMAIN q : q[i] = machine.bsp
      BY <2>6 DEF Range
    <3>2. q \in Seq(0 .. 255)
      BY MachineIs DEF Inv
    <3>3. KStackAt(owner, kstack_phys[q[i]])
      <4>1. \A j \in 1 .. Len(q) : KStackAt(owner, kstack_phys[q[j]])
        BY <2>5 DEF LayoutInv, StacksInv
      <4> HIDE DEF q
      <4>2. i \in 1 .. Len(q)
        BY <3>1, <3>2
      <4> QED
        BY <4>1, <4>2
    <3>4. KStackAt(owner, b)
      BY <3>1, <3>3
    <3> HIDE DEF b
    <3> QED
      BY <2>3, <2>4, <2>6, <3>4 DEF KStackAt
  <2>7. CASE machine.bsp \notin Range(machine.cpus)
    <3> DEFINE q == machine.cpus
    <3>1. q \in Seq(0 .. 255) /\ machine.bsp \in 0 .. 255
      BY MachineIs DEF Inv
    <3>2. \A i \in 1 .. Len(q) : q[i] # machine.bsp
      <4>1. \A i \in DOMAIN q : q[i] # machine.bsp
        BY <2>7 DEF Range
      <4> HIDE DEF q
      <4>2. DOMAIN q = 1 .. Len(q)
        BY <3>1
      <4> QED
        BY <4>1, <4>2
    <3>3. b = 0
      BY <2>5, <3>1, <3>2 DEF LayoutInv, StacksInv
    <3>4. 0 + k = k
      BY <2>1
    <3> HIDE DEF b
    <3> QED
      BY <2>3, <2>4, <2>7, <3>3, <3>4
  <2> QED
    BY <2>6, <2>7
<1> QED
  BY <1>1, InductiveInvariant, LayoutInvariant, PTL

-----------------------------------------------------------------------------
(* Programs in memory *)

ProgramsOf(t) == IF t = BspThread THEN {<<>>} ELSE Programs

\* Which program a thread is made from, and how many of its segments are loaded.
ProgramInv ==
  /\ \A t \in added : program[t] \in ProgramsOf(t)
  /\ pc \in {"stack", "root", "thread", "load", "segment"} =>
       /\ program[space] \in ProgramsOf(space) /\ space \notin added
       /\ Loaded \in 0 .. Len(program[space])
       /\ \A i \in DOMAIN segments : segments[i] = program[space][Loaded + i]
  /\ pc \in {"stack", "root", "thread"} => segments = program[space]
  /\ pc = "segment" => Loads(Head(segments))

\* A thread maps what everyone maps, and the first pages of its segments.
Expected(p, m, w) == w \in CommonPages(m) \/ \E i \in DOMAIN p : Loads(p[i]) /\ p[i].virt = w
OnlyExpected(M, t, p, m) ==
  t \in DOMAIN M /\ \A w \in Virt : M[t][w] # {} => Expected(p, m, w)
ExpectedInv ==
  /\ \A t \in added : OnlyExpected(Mapped, t, program[t], machine)
  /\ pc \in {"thread", "load", "segment"} => OnlyExpected(Mapped, space, program[space], machine)

\* The first page of a segment is mapped to a frame of its own that holds its bytes; the
\* frames in F are those of the segment being loaded.
Copied(M, o, im, F, t, k, s) ==
  /\ t \in DOMAIN M
  /\ \E e \in M[t][s.virt] : /\ e.frame \in Frames \ F
                             /\ o[e.frame].use = "segment"
                             /\ im[e.frame] = <<t, k, 0>>
CopiedUpTo(M, o, im, F, t, p, n) ==
  \A k \in 1 .. n : Loads(p[k]) /\ p[k].filesz > 0 => Copied(M, o, im, F, t, k, p[k])
Fresh == IF pc = "segment" THEN Run(stackAddr, SegmentExtent(Head(segments))) ELSE {}
CopiedInv ==
  /\ \A t \in added : CopiedUpTo(Mapped, owner, image, Fresh, t, program[t], Len(program[t]))
  /\ pc \in {"load", "segment"} =>
       CopiedUpTo(Mapped, owner, image, Fresh, space, program[space], Loaded)

\* The segment being loaded: its frames, and whether its page is mapped yet.
FirstInv ==
  pc = "segment" =>
    LET s == Head(segments)
    IN  /\ \A f \in Fresh : f \in Frames /\ owner[f].use = "segment"
        /\ todo \in {<<Region(s.virt, stackAddr, 1, RwUser)>>, <<>>}
        /\ todo = <<>> \/ at # 0 =>
             Mapped[space][s.virt] = {[frame |-> stackAddr, flags |-> RwUser]}

LoadInv == ProgramInv /\ ExpectedInv /\ CopiedInv /\ FirstInv

LEMMA ExpectedKept ==
  ASSUME NEW M, NEW M2, Kept(M, M2), NEW t, NEW p, NEW m, OnlyExpected(M, t, p, m)
  PROVE  OnlyExpected(M2, t, p, m)
BY DEF OnlyExpected, Kept

LEMMA CopiedKept ==
  ASSUME NEW M, NEW M2, Kept(M, M2), NEW o, NEW o2, NEW im, NEW im2, NEW F, NEW F2,
         \A f \in Frames \ F : o[f].use = "segment" =>
           f \notin F2 /\ o2[f] = o[f] /\ im2[f] = im[f],
         NEW t, NEW p, NEW n, CopiedUpTo(M, o, im, F, t, p, n)
  PROVE  CopiedUpTo(M2, o2, im2, F2, t, p, n)
<1> SUFFICES ASSUME NEW k \in 1 .. n, Loads(p[k]), p[k].filesz > 0
             PROVE  Copied(M2, o2, im2, F2, t, k, p[k])
  BY DEF CopiedUpTo
<1>1. Copied(M, o, im, F, t, k, p[k])
  BY DEF CopiedUpTo
<1> DEFINE v == p[k].virt
<1>2. t \in DOMAIN M2 /\ M2[t] = M[t]
  BY <1>1 DEF Copied, Kept
<1>3. PICK e \in M[t][v] : /\ e.frame \in Frames \ F /\ o[e.frame].use = "segment"
                           /\ im[e.frame] = <<t, k, 0>>
  BY <1>1 DEF Copied
<1>4. e \in M2[t][v] /\ e.frame \in Frames \ F2 /\ o2[e.frame].use = "segment"
      /\ im2[e.frame] = <<t, k, 0>>
  BY <1>2, <1>3
<1> QED
  BY <1>2, <1>4 DEF Copied

LEMMA ExpectedPut ==
  ASSUME NEW M, NEW M2, NEW s, NEW v \in Virt, NEW e, Put(M, M2, s, v, e),
         NEW t, NEW p, NEW m, OnlyExpected(M, t, p, m), t = s => Expected(p, m, v)
  PROVE  OnlyExpected(M2, t, p, m)
BY DEF OnlyExpected, Put

LEMMA CopiedPut ==
  ASSUME NEW M, NEW M2, NEW s, NEW v \in Virt, NEW e, Put(M, M2, s, v, e),
         NEW o, NEW im, NEW F, NEW t, NEW p, NEW n, CopiedUpTo(M, o, im, F, t, p, n),
         t = s => \A k \in 1 .. n : Loads(p[k]) => p[k].virt \in Virt /\ p[k].virt # v
  PROVE  CopiedUpTo(M2, o, im, F, t, p, n)
<1> SUFFICES ASSUME NEW k \in 1 .. n, Loads(p[k]), p[k].filesz > 0
             PROVE  Copied(M2, o, im, F, t, k, p[k])
  BY DEF CopiedUpTo
<1>1. Copied(M, o, im, F, t, k, p[k])
  BY DEF CopiedUpTo
<1>2. t \in DOMAIN M2 /\ M2[t][p[k].virt] = M[t][p[k].virt]
  BY <1>1 DEF Copied, Put
<1> QED
  BY <1>1, <1>2 DEF Copied

\* q is what is left of p after n segments.
RestOf(p, q, n) ==
  /\ n = Len(p) - Len(q) /\ n \in 0 .. Len(p)
  /\ \A i \in DOMAIN q : q[i] = p[n + i]

\* The segments still to load are the end of the program.
LEMMA SegmentsLeft ==
  ASSUME NEW p \in Seq(Segment), NEW q \in Seq(Segment), q # <<>>, NEW n, RestOf(p, q, n)
  PROVE  RestOf(p, Tail(q), n + 1) /\ n + 1 \in DOMAIN p /\ Head(q) = p[n + 1]
<1>1. Len(q) \in Nat /\ Len(q) # 0 /\ Len(p) \in Nat /\ Len(Tail(q)) = Len(q) - 1
      /\ DOMAIN q = 1 .. Len(q) /\ DOMAIN p = 1 .. Len(p) /\ Head(q) = q[1]
      /\ DOMAIN Tail(q) = 1 .. (Len(q) - 1)
      /\ \A i \in 1 .. (Len(q) - 1) : Tail(q)[i] = q[i + 1]
  OBVIOUS
<1> DEFINE a == Len(p)
           b == Len(q)
<1>2. a \in Nat /\ b \in Nat /\ b # 0 /\ n = a - b /\ n \in 0 .. a
  BY <1>1 DEF RestOf
<1> HIDE DEF a, b
<1>3. a - (b - 1) = n + 1 /\ n + 1 \in 0 .. a /\ n + 1 \in 1 .. a /\ 1 \in 1 .. b
      /\ \A i \in 1 .. (b - 1) : i + 1 \in 1 .. b /\ n + (i + 1) = (n + 1) + i
  BY <1>2
<1>4. \A i \in 1 .. b : q[i] = p[n + i]
  BY <1>1 DEF b, RestOf
<1>5. q[1] = p[n + 1]
  BY <1>3, <1>4
<1>6. \A i \in 1 .. (b - 1) : Tail(q)[i] = p[(n + 1) + i]
  <2> SUFFICES ASSUME NEW i \in 1 .. (b - 1)
               PROVE  Tail(q)[i] = p[(n + 1) + i]
    OBVIOUS
  <2>1. q[i + 1] = p[n + (i + 1)] /\ n + (i + 1) = (n + 1) + i
    BY <1>3, <1>4
  <2> QED
    BY <1>1, <2>1 DEF b
<1> QED
  BY <1>1, <1>3, <1>5, <1>6 DEF a, b, RestOf

\* Where the segments of a program lie.
LEMMA ApartIs ==
  ASSUME SegmentsApart, TypeOK, NEW t, NEW p \in ProgramsOf(t), NEW k \in DOMAIN p, Loads(p[k])
  PROVE  /\ p[k] \in Segment
         /\ p[k].virt \in Virt /\ p[k].virt \in PagesOf(p[k])
         /\ PagesOf(p[k]) \subseteq Virt \ CommonPages(machine)
         /\ \A i \in DOMAIN p : i # k /\ Loads(p[i]) => p[i].virt \notin PagesOf(p[k])
<1>1. p \in Programs
  BY DEF ProgramsOf
<1>2. p[k] \in Segment
  BY <1>1, ProgramsAssumption
<1>3. p[k].virt \in PagesOf(p[k])
  BY DEF PagesOf
<1> QED
  BY <1>1, <1>2, <1>3 DEF SegmentsApart, TypeOK

\* What every step keeps of the programs in memory but MapPage's last store and the
\* copying of a segment.
LEMMA LoadKept ==
  ASSUME Inv, LoadInv, [Next]_vars, ~ StoreEntry, image' = image,
         pc' = "segment" => pc = "segment" /\ UNCHANGED <<stackAddr, segments>>,
         \A t \in added : program'[t] = program[t]
  PROVE  /\ \A t \in added : program'[t] \in ProgramsOf(t)
         /\ \A t \in added : OnlyExpected(Mapped', t, program'[t], machine')
         /\ \A t \in added :
              CopiedUpTo(Mapped', owner', image', Fresh', t, program'[t], Len(program'[t]))
         /\ \A t, p : OnlyExpected(Mapped, t, p, machine) => OnlyExpected(Mapped', t, p, machine')
         /\ \A t, p, n : CopiedUpTo(Mapped, owner, image, Fresh, t, p, n) =>
                           CopiedUpTo(Mapped', owner', image', Fresh', t, p, n)
<1>1. Kept(Mapped, Mapped') /\ machine' = machine
  BY MappedKept, MachineSame
<1>2. \A t, p : OnlyExpected(Mapped, t, p, machine) => OnlyExpected(Mapped', t, p, machine')
  BY <1>1, ExpectedKept
<1>3. \A f \in Frames \ Fresh : owner[f].use = "segment" =>
        f \notin Fresh' /\ owner'[f] = owner[f] /\ image'[f] = image[f]
  <2>1. \A f \in Fresh' : f \in Fresh
    <3>1. CASE pc' = "segment"
      BY <3>1 DEF Fresh, Run
    <3>2. CASE pc' # "segment"
      BY <3>2 DEF Fresh
    <3> QED
      BY <3>1, <3>2
  <2>2. \A f \in Frames : owner[f].use = "segment" => owner'[f] = owner[f]
    BY OwnersNext
  <2> QED
    BY <2>1, <2>2
<1>4. \A t, p, n : CopiedUpTo(Mapped, owner, image, Fresh, t, p, n) =>
                     CopiedUpTo(Mapped', owner', image', Fresh', t, p, n)
  <2> DEFINE F == Fresh
             F2 == Fresh'
             M == Mapped
             M2 == Mapped'
  <2>1. /\ Kept(M, M2)
        /\ \A f \in Frames \ F : owner[f].use = "segment" =>
             f \notin F2 /\ owner'[f] = owner[f] /\ image'[f] = image[f]
    BY <1>1, <1>3
  <2> HIDE DEF F, F2, M, M2
  <2>2. ASSUME NEW t, NEW p, NEW n, CopiedUpTo(M, owner, image, F, t, p, n)
        PROVE  CopiedUpTo(M2, owner', image', F2, t, p, n)
    BY <2>1, <2>2, CopiedKept
  <2> QED
    BY <2>2 DEF F, F2, M, M2
<1>5. \A t \in added : program'[t] \in ProgramsOf(t)
  BY DEF LoadInv, ProgramInv
<1>6. \A t \in added : OnlyExpected(Mapped', t, program'[t], machine')
  BY <1>2 DEF LoadInv, ExpectedInv
<1>7. \A t \in added :
        CopiedUpTo(Mapped', owner', image', Fresh', t, program'[t], Len(program'[t]))
  BY <1>4 DEF LoadInv, CopiedInv
<1> QED
  BY <1>2, <1>4, <1>5, <1>6, <1>7

\* The space being built, and its segments, stay.
LEMMA LoadQuiet ==
  ASSUME Inv, LoadInv, [Next]_vars, ~ StoreEntry,
         UNCHANGED <<image, added, pc, space, stackAddr, segments, program, todo, at>>
  PROVE  LoadInv'
<1>1. /\ \A t \in added : program'[t] \in ProgramsOf(t)
      /\ \A t \in added : OnlyExpected(Mapped', t, program'[t], machine')
      /\ \A t \in added :
           CopiedUpTo(Mapped', owner', image', Fresh', t, program'[t], Len(program'[t]))
      /\ \A t, p : OnlyExpected(Mapped, t, p, machine) => OnlyExpected(Mapped', t, p, machine')
      /\ \A t, p, n : CopiedUpTo(Mapped, owner, image, Fresh, t, p, n) =>
                        CopiedUpTo(Mapped', owner', image', Fresh', t, p, n)
  BY LoadKept
<1>2. Loaded' = Loaded /\ Fresh' = Fresh
  BY DEF Loaded, Fresh, Run
<1>3. ProgramInv'
  BY <1>1, <1>2 DEF LoadInv, ProgramInv
<1>4. ExpectedInv'
  BY <1>1 DEF LoadInv, ExpectedInv
<1>5. CopiedInv'
  BY <1>1, <1>2 DEF LoadInv, CopiedInv
<1>6. FirstInv'
  <2> SUFFICES ASSUME pc = "segment"
               PROVE  FirstInv'
    BY DEF FirstInv
  <2>1. Kept(Mapped, Mapped')
    BY MappedKept
  <2>2. space \in DOMAIN Mapped
    BY DEF LoadInv, ExpectedInv, OnlyExpected
  <2>3. Mapped'[space] = Mapped[space]
    BY <2>1, <2>2 DEF Kept
  <2>4. \A f \in Fresh' : f \in Frames /\ owner'[f].use = "segment"
    BY <1>2, OwnersNext DEF LoadInv, FirstInv
  <2> QED
    BY <2>3, <2>4 DEF LoadInv, FirstInv
<1> QED
  BY <1>3, <1>4, <1>5, <1>6 DEF LoadInv

\* No address space of a thread is being built.
LEMMA LoadElsewhere ==
  ASSUME Inv, LoadInv, [Next]_vars, ~ StoreEntry, UNCHANGED <<image, added, program>>,
         pc' \notin {"stack", "root", "thread", "load", "segment"}
  PROVE  LoadInv'
<1>1. /\ \A t \in added : program'[t] \in ProgramsOf(t)
      /\ \A t \in added : OnlyExpected(Mapped', t, program'[t], machine')
      /\ \A t \in added :
           CopiedUpTo(Mapped', owner', image', Fresh', t, program'[t], Len(program'[t]))
  BY LoadKept
<1> QED
  BY <1>1 DEF LoadInv, ProgramInv, ExpectedInv, CopiedInv, FirstInv

\* What follows for the space being built, where it goes on being built.
LEMMA LoadGoesOn ==
  ASSUME Inv, LoadInv, [Next]_vars, ~ StoreEntry, UNCHANGED <<image, added, space, segments, program>>,
         pc \in {"stack", "root", "thread", "load", "segment"},
         pc' \in {"root", "thread", "load"},
         pc' \in {"root", "thread"} => pc \in {"stack", "root", "thread"},
         pc' = "thread" => pc = "thread" \/ OnlyExpected(Mapped', space, program[space], machine'),
         pc' = "load" => pc \in {"thread", "load"}
  PROVE  LoadInv'
<1>1. /\ \A t \in added : program'[t] \in ProgramsOf(t)
      /\ \A t \in added : OnlyExpected(Mapped', t, program'[t], machine')
      /\ \A t \in added :
           CopiedUpTo(Mapped', owner', image', Fresh', t, program'[t], Len(program'[t]))
      /\ \A t, p : OnlyExpected(Mapped, t, p, machine) => OnlyExpected(Mapped', t, p, machine')
      /\ \A t, p, n : CopiedUpTo(Mapped, owner, image, Fresh, t, p, n) =>
                        CopiedUpTo(Mapped', owner', image', Fresh', t, p, n)
  BY LoadKept
<1>2. Loaded' = Loaded
  BY DEF Loaded
<1>3. ProgramInv'
  BY <1>1, <1>2 DEF LoadInv, ProgramInv
<1>4. ExpectedInv'
  BY <1>1 DEF LoadInv, ExpectedInv
<1>5. CopiedInv'
  <2>1. ASSUME pc = "thread", pc' = "load"
        PROVE  CopiedUpTo(Mapped', owner', image', Fresh', space, program[space], Loaded)
    <3>1. Loaded = 0
      <4>1. segments = program[space] /\ segments \in Seq(Segment)
        BY <2>1 DEF LoadInv, ProgramInv, Inv, MoreTypes
      <4>2. Len(segments) \in Nat
        BY <4>1
      <4> QED
        BY <4>1, <4>2 DEF Loaded
    <3> QED
      BY <3>1 DEF CopiedUpTo
  <2>2. pc' = "load" =>
          CopiedUpTo(Mapped', owner', image', Fresh', space, program[space], Loaded)
    BY <1>1, <2>1 DEF LoadInv, CopiedInv
  <2> QED
    BY <1>1, <1>2, <2>2 DEF CopiedInv
<1>6. FirstInv'
  BY DEF FirstInv
<1> QED
  BY <1>3, <1>4, <1>5, <1>6 DEF LoadInv

LEMMA NewThreadLoad ==
  ASSUME Inv, LoadInv, [Next]_vars, NEW t \in Threads, NEW p \in ProgramsOf(t), NewThread(t, p),
         t \notin added
  PROVE  LoadInv'
<1>1. /\ pc' = "stack" /\ space' = t /\ segments' = p
      /\ program' = [program EXCEPT ![t] = p]
      /\ UNCHANGED <<image, added, at>>
  BY DEF NewThread, walkVars
<1>2. program'[t] = p /\ \A r \in added : program'[r] = program[r]
  <2>1. program = [r \in Threads |-> program[r]] /\ added \subseteq Threads
    BY DEF Inv, MoreTypes, TypeOK
  <2> QED
    BY <1>1, <2>1
<1>3. /\ \A r \in added : program'[r] \in ProgramsOf(r)
      /\ \A r \in added : OnlyExpected(Mapped', r, program'[r], machine')
      /\ \A r \in added :
           CopiedUpTo(Mapped', owner', image', Fresh', r, program'[r], Len(program'[r]))
  BY <1>1, <1>2, NotStored, LoadKept
<1>4. Loaded' = 0 /\ 0 \in 0 .. Len(p) /\ \A i \in DOMAIN p : p[i] = p[0 + i]
  <2>1. p \in Seq(Segment)
    <3>1. p = <<>> \/ p \in Programs
      BY DEF ProgramsOf
    <3>2. <<>> \in Seq(Segment)
      OBVIOUS
    <3> QED
      BY <3>1, <3>2, ProgramsAssumption
  <2>2. Len(p) \in Nat /\ DOMAIN p \subseteq Nat
    BY <2>1
  <2>3. Loaded' = Len(p) - Len(p)
    BY <1>1, <1>2 DEF Loaded
  <2> QED
    BY <2>2, <2>3
<1>5. ProgramInv'
  BY <1>1, <1>2, <1>3, <1>4 DEF ProgramInv
<1> QED
  BY <1>1, <1>3, <1>5 DEF LoadInv, ExpectedInv, CopiedInv, FirstInv

LEMMA ThreadLoad ==
  ASSUME Inv, LayoutInv, LoadInv, [Next]_vars
  PROVE  /\ NewBspThread => LoadInv'
         /\ MakeStack => LoadInv'
         /\ MakeRoot => LoadInv'
         /\ ThreadMade => LoadInv'
<1>1. ASSUME NewBspThread
      PROVE  LoadInv'
  <2>1. BspThread \in Threads /\ <<>> \in ProgramsOf(BspThread)
    BY DEF Threads, ProgramsOf
  <2>2. pc = "cpus" /\ NewThread(BspThread, <<>>)
    BY <1>1 DEF NewBspThread
  <2>3. added = {}
    BY <2>2 DEF LayoutInv, AddedInv
  <2> QED
    BY <2>1, <2>2, <2>3, NewThreadLoad
<1>2. ASSUME MakeStack
      PROVE  LoadInv'
  <2>1. /\ pc = "stack" /\ pc' = "root"
        /\ UNCHANGED <<image, added, space, segments, program, at>>
    BY <1>2 DEF MakeStack, walkVars, ghosts
  <2> QED
    BY <2>1, NotStored, LoadGoesOn
<1>3. ASSUME MakeRoot
      PROVE  LoadInv'
  <2>1. /\ pc = "root" /\ pc' = "thread" /\ at' = 0
        /\ UNCHANGED <<image, added, space, segments, program>>
    BY <1>3 DEF MakeRoot, NewTables, loadVars, ghosts
  <2>2. Inv /\ RootStep
    BY <1>3, MakeRootIs DEF Inv
  <2>3. Maps!Make(Mapped, Mapped')
    BY <2>2, RootMapped
  <2>4. space \notin Live /\ space \in Live'
    <3>1. PICK f \in Frames : rootTable[space] = None /\ rootTable' = [rootTable EXCEPT ![space] = f]
      BY <2>2 DEF RootStep
    <3>2. space \in Spaces /\ rootTable \in [Spaces -> Frames \cup {None}] /\ f # None
      BY <3>1, NamesAssumption DEF Inv, TypeOK
    <3> QED
      BY <3>1, <3>2 DEF Live
  <2>5. DOMAIN Mapped = Live /\ DOMAIN Mapped' = Live'
    BY MappedIs, MappedNext
  <2> DEFINE a == Mapped
             b == Mapped'
  <2>6. Maps!Make(a, b) /\ space \notin DOMAIN a /\ space \in DOMAIN b
    BY <2>3, <2>4, <2>5
  <2> HIDE DEF a, b
  <2>7. b[space] = [v \in Virt |-> {}]
    BY <2>6 DEF Maps!Make
  <2>8. OnlyExpected(b, space, program[space], machine')
    BY <2>6, <2>7 DEF OnlyExpected
  <2> QED
    BY <2>1, <2>8, NotStored, LoadGoesOn DEF b
<1>4. ASSUME ThreadMade
      PROVE  LoadInv'
  <2>1. /\ pc = "thread" /\ pc' = "load"
        /\ UNCHANGED <<image, added, space, segments, program, at>>
    BY <1>4 DEF ThreadMade, loadVars, walkVars, ghosts
  <2> QED
    BY <2>1, NotStored, LoadGoesOn
<1> QED
  BY <1>1, <1>2, <1>3, <1>4

\* The segments of the program being loaded.
LEMMA LoadingIs ==
  ASSUME Inv, LoadInv, pc \in {"load", "segment"}, segments # <<>>
  PROVE  LET p == program[space]
         IN  /\ p \in ProgramsOf(space)
             /\ Loaded + 1 \in DOMAIN p /\ Head(segments) = p[Loaded + 1]
             /\ Loaded \in Nat /\ DOMAIN p = 1 .. Len(p)
             /\ Loaded + 1 \in 0 .. Len(p)
             /\ Len(p) - Len(Tail(segments)) = Loaded + 1
             /\ \A i \in DOMAIN Tail(segments) : Tail(segments)[i] = p[(Loaded + 1) + i]
             /\ \A k \in 1 .. (Loaded + 1) : k \in 1 .. Loaded \/ k = Loaded + 1
             /\ \A k \in 1 .. Loaded : k \in DOMAIN p /\ k # Loaded + 1
<1> DEFINE p == program[space]
           n == Loaded
<1>1. /\ p \in ProgramsOf(space) /\ n \in 0 .. Len(p)
      /\ \A i \in DOMAIN segments : segments[i] = p[n + i]
  BY DEF LoadInv, ProgramInv
<1>2. p \in Seq(Segment)
  <2>1. p = <<>> \/ p \in Programs
    BY <1>1 DEF ProgramsOf
  <2>2. <<>> \in Seq(Segment)
    OBVIOUS
  <2> HIDE DEF p
  <2> QED
    BY <2>1, <2>2, ProgramsAssumption
<1>3. segments \in Seq(Segment) /\ n = Len(p) - Len(segments)
  BY DEF Inv, MoreTypes, Loaded
<1> HIDE DEF p, n
<1>4. /\ Len(p) - Len(Tail(segments)) = n + 1 /\ n + 1 \in 0 .. Len(p)
      /\ n + 1 \in DOMAIN p /\ Head(segments) = p[n + 1]
      /\ \A i \in DOMAIN Tail(segments) : Tail(segments)[i] = p[(n + 1) + i]
  <2>1. RestOf(p, segments, n)
    BY <1>1, <1>3 DEF RestOf
  <2>2. RestOf(p, Tail(segments), n + 1) /\ n + 1 \in DOMAIN p /\ Head(segments) = p[n + 1]
    BY <1>2, <1>3, <2>1, SegmentsLeft
  <2> QED
    BY <2>2 DEF RestOf
<1>5. DOMAIN p = 1 .. Len(p) /\ Len(p) \in Nat
  BY <1>2
<1> DEFINE a == Len(p)
<1> HIDE DEF a
<1>6. /\ n \in Nat
      /\ \A k \in 1 .. (n + 1) : k \in 1 .. n \/ k = n + 1
      /\ \A k \in 1 .. n : k \in 1 .. a /\ k # n + 1
  BY <1>1, <1>5 DEF a
<1> QED
  BY <1>1, <1>4, <1>5, <1>6 DEF p, n, a

\* A segment that is not loaded.
LEMMA SkipLoad ==
  ASSUME Inv, LoadInv, [Next]_vars, SkipSegment
  PROVE  LoadInv'
<1> DEFINE p == program[space]
<1>1. /\ pc = "load" /\ pc' = "load" /\ segments # <<>> /\ segments' = Tail(segments)
      /\ ~ Loads(Head(segments))
      /\ UNCHANGED <<image, added, space, program, at>>
  BY DEF SkipSegment, walkVars, ghosts, Loads
<1>2. /\ p \in ProgramsOf(space) /\ Head(segments) = p[Loaded + 1]
      /\ Loaded + 1 \in 0 .. Len(p) /\ Len(p) - Len(Tail(segments)) = Loaded + 1
      /\ \A i \in DOMAIN Tail(segments) : Tail(segments)[i] = p[(Loaded + 1) + i]
      /\ \A k \in 1 .. (Loaded + 1) : k \in 1 .. Loaded \/ k = Loaded + 1
  BY <1>1, LoadingIs
<1>3. /\ \A t \in added : program'[t] \in ProgramsOf(t)
      /\ \A t \in added : OnlyExpected(Mapped', t, program'[t], machine')
      /\ \A t \in added :
           CopiedUpTo(Mapped', owner', image', Fresh', t, program'[t], Len(program'[t]))
      /\ \A t, q : OnlyExpected(Mapped, t, q, machine) => OnlyExpected(Mapped', t, q, machine')
      /\ \A t, q, n : CopiedUpTo(Mapped, owner, image, Fresh, t, q, n) =>
                        CopiedUpTo(Mapped', owner', image', Fresh', t, q, n)
  BY <1>1, NotStored, LoadKept
<1>4. Loaded' = Loaded + 1
  BY <1>1, <1>2 DEF Loaded
<1>5. ProgramInv'
  BY <1>1, <1>2, <1>3, <1>4 DEF LoadInv, ProgramInv
<1>6. ExpectedInv'
  BY <1>1, <1>3 DEF LoadInv, ExpectedInv
<1>7. CopiedUpTo(Mapped', owner', image', Fresh', space, p, Loaded + 1)
  <2>1. CopiedUpTo(Mapped', owner', image', Fresh', space, p, Loaded)
    BY <1>1, <1>3 DEF LoadInv, CopiedInv
  <2> HIDE DEF p
  <2> QED
    BY <1>1, <1>2, <2>1 DEF CopiedUpTo
<1>8. CopiedInv'
  BY <1>1, <1>3, <1>4, <1>7 DEF CopiedInv
<1>9. FirstInv'
  BY <1>1 DEF FirstInv
<1> QED
  BY <1>5, <1>6, <1>8, <1>9 DEF LoadInv

\* The last segment is loaded.
LEMMA AddLoad ==
  ASSUME Inv, LoadInv, [Next]_vars, AddThread
  PROVE  LoadInv'
<1>1. /\ pc = "load" /\ pc' = "idle" /\ segments = <<>> /\ added' = added \cup {space}
      /\ UNCHANGED <<image, program, at>>
  BY DEF AddThread, walkVars, ghosts
<1>2. Loaded = Len(program[space])
  <2> DEFINE a == Len(program[space])
  <2>1. Loaded = a - Len(<<>>) /\ Len(<<>>) = 0
    BY <1>1 DEF Loaded
  <2>2. a \in Nat
    <3>1. program[space] = <<>> \/ program[space] \in Programs
      BY <1>1 DEF LoadInv, ProgramInv, ProgramsOf
    <3> QED
      BY <3>1, ProgramsAssumption
  <2> HIDE DEF a
  <2> QED
    BY <2>1, <2>2 DEF a
<1>3. /\ \A t \in added : program'[t] \in ProgramsOf(t)
      /\ \A t \in added : OnlyExpected(Mapped', t, program'[t], machine')
      /\ \A t \in added :
           CopiedUpTo(Mapped', owner', image', Fresh', t, program'[t], Len(program'[t]))
      /\ \A t, q : OnlyExpected(Mapped, t, q, machine) => OnlyExpected(Mapped', t, q, machine')
      /\ \A t, q, n : CopiedUpTo(Mapped, owner, image, Fresh, t, q, n) =>
                        CopiedUpTo(Mapped', owner', image', Fresh', t, q, n)
  BY <1>1, NotStored, LoadKept
<1>4. ProgramInv'
  BY <1>1, <1>3 DEF LoadInv, ProgramInv
<1>5. ExpectedInv'
  BY <1>1, <1>3 DEF LoadInv, ExpectedInv
<1>6. CopiedInv'
  BY <1>1, <1>2, <1>3 DEF LoadInv, CopiedInv
<1>7. FirstInv'
  BY <1>1 DEF FirstInv
<1> QED
  BY <1>4, <1>5, <1>6, <1>7 DEF LoadInv

\* Memory for a segment: nobody else's.
LEMMA MakeSegmentLoad ==
  ASSUME Inv, LoadInv, [Next]_vars, MakeSegment
  PROVE  LoadInv'
<1> DEFINE s == Head(segments)
           n == SegmentExtent(s)
           rec == [use |-> "segment", space |-> space, level |-> 0]
<1>1. /\ pc = "load" /\ pc' = "segment" /\ segments # <<>> /\ Loads(s) /\ at' = 0
      /\ UNCHANGED <<image, added, space, segments, program, mem, rootTable>>
  BY DEF MakeSegment, ghosts, Loads
<1>2. PICK f \in Places(n) :
        /\ owner' = Given(f, n, "segment", space, 0) /\ stackAddr' = f
        /\ todo' = <<Region(s.virt, f, 1, RwUser)>>
  BY DEF MakeSegment
<1>3. HandsOut(owner, owner', Run(f, n), rec)
  <2>1. owner \in [Frames -> Owner] /\ space \in Spaces
    BY DEF Inv, TypeOK
  <2>2. n \in Nat
    BY <1>1, SegmentExtentIs DEF Inv
  <2> HIDE DEF n
  <2> QED
    BY <1>1, <1>2, <2>1, <2>2, GivenOthers
<1>4. Fresh = {} /\ Fresh' = Run(f, n)
  <2>1. pc # "segment" /\ Fresh = {}
    BY <1>1 DEF Fresh
  <2>2. Fresh' = Run(f, n)
    BY <1>1, <1>2 DEF Fresh, Run
  <2> QED
    BY <2>1, <2>2
<1>5. Kept(Mapped, Mapped') /\ machine' = machine
  BY <1>1, NotStored, MappedKept, MachineSame
<1>6. \A t, p : OnlyExpected(Mapped, t, p, machine) => OnlyExpected(Mapped', t, p, machine')
  BY <1>5, ExpectedKept
<1>7. \A t, p, k : CopiedUpTo(Mapped, owner, image, Fresh, t, p, k) =>
                     CopiedUpTo(Mapped', owner', image', Fresh', t, p, k)
  <2> DEFINE F == Fresh
             F2 == Fresh'
             M == Mapped
             M2 == Mapped'
  <2>1. \A g \in Frames \ F : owner[g].use = "segment" =>
          g \notin F2 /\ owner'[g] = owner[g] /\ image'[g] = image[g]
    <3> SUFFICES ASSUME NEW g \in Frames, owner[g].use = "segment"
                 PROVE  g \notin F2 /\ owner'[g] = owner[g] /\ image'[g] = image[g]
      OBVIOUS
    <3>1. g \notin Run(f, n)
      BY <1>3 DEF HandsOut
    <3> QED
      BY <1>1, <1>3, <1>4, <3>1 DEF HandsOut
  <2>2. Kept(M, M2)
    BY <1>5
  <2> HIDE DEF F, F2, M, M2
  <2>3. ASSUME NEW t, NEW p, NEW k, CopiedUpTo(M, owner, image, F, t, p, k)
        PROVE  CopiedUpTo(M2, owner', image', F2, t, p, k)
    BY <2>1, <2>2, <2>3, CopiedKept
  <2> QED
    BY <2>3 DEF F, F2, M, M2
<1>8. Loaded' = Loaded
  BY <1>1 DEF Loaded
<1>9. ProgramInv'
  BY <1>1, <1>8 DEF LoadInv, ProgramInv
<1>10. ExpectedInv'
  BY <1>1, <1>6 DEF LoadInv, ExpectedInv
<1>11. CopiedInv'
  BY <1>1, <1>7, <1>8 DEF LoadInv, CopiedInv
<1>12. FirstInv'
  <2>1. \A g \in Fresh' : g \in Frames /\ owner'[g].use = "segment"
    BY <1>3, <1>4 DEF HandsOut
  <2>2. todo' = <<Region(s.virt, stackAddr, 1, RwUser)>>' /\ todo' # <<>>
    BY <1>1, <1>2 DEF Region
  <2> QED
    BY <1>1, <2>1, <2>2 DEF FirstInv
<1> QED
  BY <1>9, <1>10, <1>11, <1>12 DEF LoadInv

\* What memcpy writes begins at the segment's frame, unless there is nothing to write.
LEMMA WrittenIs ==
  ASSUME NEW s \in Segment, stackAddr \in Nat
  PROVE  /\ s.filesz > 0 => stackAddr \in Written(s)
         /\ stackAddr - stackAddr = 0
<1> DEFINE b == s.filesz
           a == stackAddr
           n == (b + PageBytes - 1) \div PageBytes
<1>1. b \in Nat /\ PageBytes \in Nat \ {0} /\ a \in Nat
  BY SizesAssumption DEF Segment
<1>2. Written(s) = Run(a, n)
  BY DEF Written
<1>3. ASSUME b > 0
      PROVE  n >= 1 /\ n \in Nat
  <2> DEFINE c == b + PageBytes - 1
  <2> HIDE DEF b
  <2>1. c \in Nat /\ c >= PageBytes
    BY <1>1, <1>3
  <2> HIDE DEF c
  <2>2. c \div PageBytes \in Nat /\ c \div PageBytes >= 1
    BY <1>1, <2>1
  <2> QED
    BY <2>2 DEF c
<1> HIDE DEF n, b
<1>4. b > 0 => a \in Run(a, n)
  <2> HIDE DEF a
  <2> QED
    BY <1>1, <1>3 DEF Run
<1>5. a - a = 0
  <2> HIDE DEF a
  <2> QED
    BY <1>1
<1> QED
  BY <1>2, <1>4, <1>5 DEF b, a

\* The segment's bytes go where its page is mapped, and to no frame of another.
LEMMA CopyLoad ==
  ASSUME Inv, LoadInv, [Next]_vars, CopySegment
  PROVE  LoadInv'
<1> DEFINE s == Head(segments)
           p == program[space]
           n == Loaded
<1>1. /\ pc = "segment" /\ pc' = "load" /\ segments # <<>> /\ segments' = Tail(segments)
      /\ todo = <<>>
      /\ UNCHANGED <<added, space, program, stackAddr, at, memVars>>
      /\ \A g \in Overrun(s) : owner[g].use = "free"
      /\ image' = [g \in Frames |->
                     IF g \in Written(s) THEN <<space, n + 1, g - stackAddr>> ELSE image[g]]
  BY DEF CopySegment, walkVars, Inv, SpacesInv
<1>2. /\ p \in ProgramsOf(space) /\ s = p[n + 1] /\ n + 1 \in DOMAIN p
      /\ n + 1 \in 0 .. Len(p) /\ Len(p) - Len(Tail(segments)) = n + 1
      /\ \A i \in DOMAIN Tail(segments) : Tail(segments)[i] = p[(n + 1) + i]
      /\ \A k \in 1 .. (n + 1) : k \in 1 .. n \/ k = n + 1
  BY <1>1, LoadingIs
<1>3. Fresh = Run(stackAddr, SegmentExtent(s)) /\ Fresh' = {}
  BY <1>1 DEF Fresh
<1>4. Kept(Mapped, Mapped') /\ machine' = machine
  BY <1>1, NotStored, MappedKept, MachineSame
<1>5. \A t, q : OnlyExpected(Mapped, t, q, machine) => OnlyExpected(Mapped', t, q, machine')
  BY <1>4, ExpectedKept
<1>6. \A t, q, k : CopiedUpTo(Mapped, owner, image, Fresh, t, q, k) =>
                     CopiedUpTo(Mapped', owner', image', Fresh', t, q, k)
  <2> DEFINE F == Fresh
             F2 == Fresh'
             M == Mapped
             M2 == Mapped'
  <2>1. \A g \in Frames \ F : owner[g].use = "segment" =>
          g \notin F2 /\ owner'[g] = owner[g] /\ image'[g] = image[g]
    <3> SUFFICES ASSUME NEW g \in Frames \ F, owner[g].use = "segment"
                 PROVE  g \notin F2 /\ owner'[g] = owner[g] /\ image'[g] = image[g]
      OBVIOUS
    <3>1. g \notin Written(s)
      <4>1. g \notin Overrun(s)
        BY <1>1
      <4> QED
        BY <1>3, <4>1 DEF Overrun
    <3> QED
      BY <1>1, <1>3, <3>1 DEF memVars
  <2>2. Kept(M, M2)
    BY <1>4
  <2> HIDE DEF F, F2, M, M2
  <2>3. ASSUME NEW t, NEW q, NEW k, CopiedUpTo(M, owner, image, F, t, q, k)
        PROVE  CopiedUpTo(M2, owner', image', F2, t, q, k)
    BY <2>1, <2>2, <2>3, CopiedKept
  <2> QED
    BY <2>3 DEF F, F2, M, M2
<1>7. ASSUME s.filesz > 0
      PROVE  Copied(Mapped', owner', image', Fresh', space, n + 1, s)
  <2> DEFINE e == [frame |-> stackAddr, flags |-> RwUser]
  <2>1. s \in Segment /\ stackAddr \in Nat
    <3>1. \A q \in Seq(Segment) : q # <<>> => Head(q) \in Segment
      OBVIOUS
    <3> QED
      BY <1>1, <3>1 DEF Inv, TypeOK, MoreTypes
  <2>2. stackAddr \in Written(s) /\ stackAddr - stackAddr = 0
    BY <1>7, <2>1, WrittenIs
  <2>3. stackAddr \in Fresh
    <3>1. stackAddr \notin Overrun(s)  \/ owner[stackAddr].use = "free"
      BY <1>1
    <3>2. SegmentExtent(s) \in Nat /\ 1 <= SegmentExtent(s)
      BY <1>1, SegmentExtentIs DEF Inv
    <3> DEFINE m == SegmentExtent(s)
               a == stackAddr
    <3> HIDE DEF m, a
    <3>3. a \in Run(a, m)
      BY <2>1, <3>2 DEF Run, m, a
    <3> QED
      BY <1>3, <3>3 DEF m, a
  <2>4. stackAddr \in Frames /\ owner[stackAddr].use = "segment"
    BY <1>1, <2>3 DEF LoadInv, FirstInv
  <2>5. Mapped[space][s.virt] = {e}
    BY <1>1 DEF LoadInv, FirstInv
  <2>6. space \in DOMAIN Mapped' /\ Mapped'[space] = Mapped[space]
    BY <1>1, <1>4 DEF Kept, LoadInv, ExpectedInv, OnlyExpected
  <2>7. image'[stackAddr] = <<space, n + 1, 0>>
    BY <1>1, <2>2, <2>4
  <2>8. e.frame = stackAddr
    OBVIOUS
  <2> HIDE DEF e, n, s
  <2>9. e \in Mapped'[space][s.virt] /\ owner'[e.frame].use = "segment" /\ e.frame \in Frames \ Fresh'
        /\ image'[e.frame] = <<space, n + 1, 0>>
    BY <1>1, <1>3, <2>4, <2>5, <2>6, <2>7, <2>8 DEF memVars
  <2> QED
    BY <2>6, <2>9 DEF Copied
<1>8. Loaded' = n + 1
  BY <1>1, <1>2 DEF Loaded
<1>9. ProgramInv'
  BY <1>1, <1>2, <1>8 DEF LoadInv, ProgramInv
<1>10. ExpectedInv'
  BY <1>1, <1>5 DEF LoadInv, ExpectedInv
<1>11. CopiedInv'
  <2>1. CopiedUpTo(Mapped', owner', image', Fresh', space, p, n)
    BY <1>1, <1>6 DEF LoadInv, CopiedInv
  <2>2. CopiedUpTo(Mapped', owner', image', Fresh', space, p, n + 1)
    <3> HIDE DEF p, n, s
    <3> QED
      BY <1>2, <1>7, <2>1 DEF CopiedUpTo
  <2>3. \A t \in added :
          CopiedUpTo(Mapped', owner', image', Fresh', t, program'[t], Len(program'[t]))
    BY <1>1, <1>6 DEF LoadInv, CopiedInv
  <2> QED
    BY <1>1, <1>8, <2>2, <2>3 DEF CopiedInv
<1>12. FirstInv'
  BY <1>1 DEF FirstInv
<1> QED
  BY <1>9, <1>10, <1>11, <1>12 DEF LoadInv

LEMMA InRange ==
  ASSUME NEW v \in Nat, NEW n \in Nat, NEW k \in Nat, k < n
  PROVE  v + k \in v .. (v + n - 1)
OBVIOUS

\* While a thread's tables are made, pages are mapped that everyone maps.
LEMMA ThreadPages ==
  ASSUME Inv, LayoutInv, SegmentsApart, pc = "thread", todo # <<>>, at < Head(todo).pages
  PROVE  vaddr \in CommonPages(machine) /\ vaddr \in Virt
<1>1. TypeOK /\ at \in Nat
  BY DEF Inv, TypeOK
<1>2. /\ machine.kernelPages \in Nat /\ machine.window \in Nat /\ machine.screen \in Nat
      /\ KernelVirt \in Nat /\ HhdmVirt \in Nat /\ StackVirt \in Nat /\ KStackVirt \in Nat
      /\ StackPages \in Nat /\ KStackPages \in Nat
      /\ machine.framebuffer # <<>> => machine.framebuffer[2] \in Nat
  BY <1>1, MachineIs, PlacesInMemory, SizesAssumption
<1>3. Head(todo) \in {KernelRegion, FramebufferRegion, StackRegion, WindowRegion, KStackRegion}
  <2>1. todo \in {ThreadRegions, AfterKernel, AfterFramebuffer, AfterStack, AfterWindow}
    BY DEF LayoutInv, ThreadInv
  <2>2. /\ Head(ThreadRegions) = KernelRegion /\ Head(AfterKernel) = FramebufferRegion
        /\ Head(AfterFramebuffer) = StackRegion /\ Head(AfterStack) = WindowRegion
        /\ Head(AfterWindow) = KStackRegion
    BY DEF ThreadRegions, AfterKernel, AfterFramebuffer, AfterStack, AfterWindow
  <2> QED
    BY <2>1, <2>2
<1>4. vaddr = Head(todo).virt + at
  BY DEF vaddr
<1>5. CASE Head(todo) = KernelRegion
  <2> DEFINE n == machine.kernelPages
  <2>1. Head(todo).virt = KernelVirt /\ Head(todo).pages = n
    BY <1>5 DEF KernelRegion, Region
  <2> HIDE DEF n
  <2>2. n \in Nat /\ at < n
    BY <1>2, <2>1 DEF n
  <2>3. KernelVirt + at \in KernelVirt .. (KernelVirt + n - 1)
    BY <1>1, <1>2, <2>2, InRange
  <2> QED
    BY <1>1, <1>4, <2>1, <2>3 DEF CommonPages, n, SegmentsApart, TypeOK
<1>6. CASE Head(todo) = FramebufferRegion
  <2> DEFINE n == machine.framebuffer[2]
             a == machine.screen
  <2>1. machine.framebuffer # <<>>
    <3>1. machine.framebuffer = <<>> => FramebufferRegion.pages = 0
      BY DEF FramebufferRegion, Region
    <3> QED
      BY <1>1, <1>6, <3>1
  <2>2. Head(todo).virt = HhdmVirt + a /\ Head(todo).pages = n
    BY <1>6, <2>1 DEF FramebufferRegion, Region
  <2>3. n \in Nat /\ a \in Nat /\ ScreenFrames(machine) = a .. (a + n - 1)
    BY <1>2, <2>1, Zenon DEF ScreenFrames
  <2> HIDE DEF n, a
  <2>4. a + at \in ScreenFrames(machine) /\ vaddr = HhdmVirt + (a + at)
    <3>1. a + at \in a .. (a + n - 1)
      BY <1>1, <2>2, <2>3, InRange
    <3> QED
      BY <1>1, <1>2, <1>4, <2>2, <2>3, <3>1
  <2> DEFINE f == a + at
  <2> HIDE DEF f
  <2>5. vaddr \in {HhdmVirt + g : g \in ScreenFrames(machine)}
    BY <2>4 DEF f
  <2> QED
    BY <1>1, <2>5 DEF CommonPages, SegmentsApart, TypeOK
<1>7. CASE Head(todo) = StackRegion
  <2>1. Head(todo).virt = StackVirt /\ Head(todo).pages = StackPages
    BY <1>7 DEF StackRegion, Region
  <2>2. StackVirt + at \in StackVirt .. (StackVirt + StackPages - 1)
    BY <1>1, <1>2, <2>1, InRange
  <2> QED
    BY <1>1, <1>4, <2>1, <2>2 DEF CommonPages, SegmentsApart, TypeOK
<1>8. CASE Head(todo) = WindowRegion
  <2> DEFINE n == machine.window
  <2>1. Head(todo).virt = HhdmVirt /\ Head(todo).pages = n
    BY <1>8 DEF WindowRegion, Region
  <2> HIDE DEF n
  <2>2. n \in Nat /\ at < n
    BY <1>2, <2>1 DEF n
  <2>3. HhdmVirt + at \in HhdmVirt .. (HhdmVirt + n - 1)
    BY <1>1, <1>2, <2>2, InRange
  <2> QED
    BY <1>1, <1>4, <2>1, <2>3 DEF CommonPages, WindowRange, n, SegmentsApart, TypeOK
<1>9. CASE Head(todo) = KStackRegion
  <2>1. Head(todo).virt = KStackVirt /\ Head(todo).pages = KStackPages + 1
    BY <1>9 DEF KStackRegion, Region
  <2>2. KStackVirt + at \in KStackVirt .. (KStackVirt + KStackPages)
    BY <1>1, <1>2, <2>1
  <2> QED
    BY <1>1, <1>4, <2>1, <2>2 DEF CommonPages, KStackRange, SegmentsApart, TypeOK
<1> QED
  BY <1>3, <1>5, <1>6, <1>7, <1>8, <1>9

\* MapPage's last store: a page everyone maps, or the segment's first.
LEMMA StoreLoad ==
  ASSUME SegmentsApart, Inv, LayoutInv, LoadInv, [Next]_vars, StoreEntry
  PROVE  LoadInv'
<1> DEFINE p == program[space]
           s == Head(segments)
           n == Loaded
<1>1. /\ UNCHANGED <<machine, pc, todo, space, added, stackAddr, segments, program, image, owner>>
      /\ at' = at + 1 /\ pc \in Mapping /\ todo # <<>> /\ at < Head(todo).pages /\ at \in Nat
      /\ Put(Mapped, Mapped', space, vaddr, PageEntry)
  BY MappedPut DEF StoreEntry, Walking, machineVars, loadVars, ghosts, Inv, TypeOK
<1>2. Loaded' = Loaded /\ Fresh' = Fresh /\ at' # 0
  BY <1>1 DEF Loaded, Fresh, Run
<1>3. ProgramInv'
  BY <1>1, <1>2 DEF LoadInv, ProgramInv
<1>4. CASE pc \in {"dir", "framebuffer"}
  <2>1. added = {}
    BY <1>4 DEF LayoutInv, AddedInv
  <2> QED
    BY <1>1, <1>3, <1>4, <2>1 DEF LoadInv, ExpectedInv, CopiedInv, FirstInv
<1>5. ASSUME pc \in {"thread", "segment"}, vaddr \in Virt
      PROVE  /\ \A t \in added : OnlyExpected(Mapped', t, program[t], machine)
             /\ \A t \in added :
                  CopiedUpTo(Mapped', owner, image, Fresh, t, program[t], Len(program[t]))
  <2> SUFFICES ASSUME NEW t \in added
               PROVE  /\ OnlyExpected(Mapped', t, program[t], machine)
                      /\ CopiedUpTo(Mapped', owner, image, Fresh, t, program[t], Len(program[t]))
    OBVIOUS
  <2>1. t # space
    BY <1>5 DEF LoadInv, ProgramInv
  <2>2. OnlyExpected(Mapped, t, program[t], machine)
    BY DEF LoadInv, ExpectedInv
  <2>3. CopiedUpTo(Mapped, owner, image, Fresh, t, program[t], Len(program[t]))
    BY DEF LoadInv, CopiedInv
  <2> DEFINE a == Mapped
             b == Mapped'
             v == vaddr
             m == Len(program[t])
  <2>4. Put(a, b, space, v, PageEntry) /\ v \in Virt
    BY <1>1, <1>5
  <2> HIDE DEF a, b, v, m
  <2>5. OnlyExpected(b, t, program[t], machine)
    BY <2>1, <2>2, <2>4, ExpectedPut DEF a
  <2>6. CopiedUpTo(b, owner, image, Fresh, t, program[t], m)
    BY <2>1, <2>3, <2>4, CopiedPut DEF a, m
  <2> QED
    BY <2>5, <2>6 DEF b, m
<1>6. CASE pc = "thread"
  <2>1. vaddr \in CommonPages(machine) /\ vaddr \in Virt
    BY <1>1, <1>6, ThreadPages
  <2>2. OnlyExpected(Mapped', space, p, machine)
    <3>1. OnlyExpected(Mapped, space, p, machine) /\ Expected(p, machine, vaddr)
      BY <1>6, <2>1 DEF LoadInv, ExpectedInv, Expected
    <3> DEFINE v == vaddr
    <3>2. Put(Mapped, Mapped', space, v, PageEntry) /\ v \in Virt /\ Expected(p, machine, v)
      BY <1>1, <2>1, <3>1
    <3> HIDE DEF v, p
    <3> QED
      BY <3>1, <3>2, ExpectedPut
  <2>3. ExpectedInv' /\ CopiedInv' /\ FirstInv'
    BY <1>1, <1>2, <1>5, <1>6, <2>1, <2>2 DEF ExpectedInv, CopiedInv, FirstInv
  <2> QED
    BY <1>3, <2>3 DEF LoadInv
<1>7. CASE pc = "segment"
  <2>1. segments # <<>> /\ Loads(s)
    BY <1>7 DEF Inv, SpacesInv, LoadInv, ProgramInv
  <2>2. /\ p \in ProgramsOf(space) /\ n + 1 \in DOMAIN p /\ s = p[n + 1]
        /\ \A k \in 1 .. n : k \in DOMAIN p /\ k # n + 1
    BY <1>7, <2>1, LoadingIs
  <2>3. s.virt \in Virt /\ \A k \in 1 .. n : Loads(p[k]) => p[k].virt \in Virt /\ p[k].virt # s.virt
    <3>1. TypeOK
      BY DEF Inv
    <3> DEFINE i == n + 1
    <3>2. i \in DOMAIN p /\ s = p[i] /\ \A k \in 1 .. n : k \in DOMAIN p /\ i # k
      BY <2>2
    <3> HIDE DEF i, p, n, s
    <3>3. s.virt \in Virt
      BY <2>1, <2>2, <3>1, <3>2, ApartIs
    <3>4. ASSUME NEW k \in 1 .. n, Loads(p[k])
          PROVE  p[k].virt \in Virt /\ p[k].virt # s.virt
      <4>1. k \in DOMAIN p /\ i # k
        BY <3>2
      <4>2. /\ p[k].virt \in Virt /\ p[k].virt \in PagesOf(p[k])
            /\ \A j \in DOMAIN p : j # k /\ Loads(p[j]) => p[j].virt \notin PagesOf(p[k])
        BY <2>2, <3>1, <3>4, <4>1, ApartIs
      <4> QED
        BY <2>1, <3>2, <4>1, <4>2
    <3> QED
      BY <3>3, <3>4
  <2>4. vaddr = s.virt /\ PageEntry = [frame |-> stackAddr, flags |-> RwUser]
    <3> DEFINE g == Region(s.virt, stackAddr, 1, RwUser)
    <3>1. todo = <<g>>
      BY <1>1, <1>7 DEF LoadInv, FirstInv
    <3>2. g.virt = s.virt /\ g.phys = stackAddr /\ g.pages = 1 /\ g.flags = RwUser
      BY DEF Region
    <3> HIDE DEF g
    <3>3. Head(todo) = g
      BY <3>1
    <3>4. at = 0
      BY <1>1, <3>2, <3>3
    <3>5. s.virt \in Nat /\ stackAddr \in Nat
      BY <2>3, VirtIn DEF Inv, TypeOK
    <3>6. vaddr = s.virt + 0 /\ PageEntry = [frame |-> stackAddr + 0, flags |-> RwUser]
      BY <3>2, <3>3, <3>4 DEF vaddr, PageEntry
    <3> DEFINE u == s.virt
    <3>7. u \in Nat /\ vaddr = u + 0
      BY <3>5, <3>6
    <3> HIDE DEF u
    <3>8. u + 0 = u /\ stackAddr + 0 = stackAddr
      BY <3>5, <3>7
    <3> QED
      BY <3>6, <3>7, <3>8 DEF u
  <2> DEFINE e == PageEntry
             v == s.virt
             a == Mapped
             b == Mapped'
  <2>5. Put(a, b, space, v, e) /\ v \in Virt
    BY <1>1, <2>3, <2>4
  <2>6. OnlyExpected(b, space, p, machine)
    <3>1. OnlyExpected(a, space, p, machine)
      BY <1>7 DEF LoadInv, ExpectedInv
    <3>2. Expected(p, machine, v)
      BY <2>1, <2>2 DEF Expected
    <3> HIDE DEF v, p, a, b, e
    <3> QED
      BY <2>5, <3>1, <3>2, ExpectedPut
  <2>7. CopiedUpTo(b, owner, image, Fresh, space, p, n)
    <3>1. CopiedUpTo(a, owner, image, Fresh, space, p, n)
      BY <1>7 DEF LoadInv, CopiedInv
    <3>2. \A k \in 1 .. n : Loads(p[k]) => p[k].virt \in Virt /\ p[k].virt # v
      BY <2>3
    <3> HIDE DEF v, p, a, b, e, n
    <3> QED
      BY <2>5, <3>1, <3>2, CopiedPut
  <2>8. b[space][v] = {[frame |-> stackAddr, flags |-> RwUser]}
    <3>1. b[space][v] = {e}
      <4> HIDE DEF a, b, v, e
      <4> QED
        BY <2>5 DEF Put
    <3> QED
      BY <2>4, <3>1
  <2>9. ExpectedInv' /\ CopiedInv'
    BY <1>1, <1>2, <1>5, <1>7, <2>3, <2>4, <2>6, <2>7 DEF ExpectedInv, CopiedInv
  <2>10. FirstInv'
    <3>1. s' = s
      BY <1>1
    <3> QED
      BY <1>1, <1>2, <1>7, <2>8 DEF LoadInv, FirstInv, Region
  <2> QED
    BY <1>3, <2>9, <2>10 DEF LoadInv
<1> QED
  BY <1>1, <1>4, <1>6, <1>7 DEF Mapping

\* The end of a loop: the segment's page is mapped.
LEMMA RegionDoneLoad ==
  ASSUME Inv, LoadInv, [Next]_vars, RegionDone
  PROVE  LoadInv'
<1>1. /\ UNCHANGED <<image, added, pc, space, stackAddr, segments, program>>
      /\ at' = 0 /\ todo' = Tail(todo) /\ todo # <<>> /\ at = Head(todo).pages
  BY DEF RegionDone, loadVars, ghosts
<1>2. /\ \A t \in added : program'[t] \in ProgramsOf(t)
      /\ \A t \in added : OnlyExpected(Mapped', t, program'[t], machine')
      /\ \A t \in added :
           CopiedUpTo(Mapped', owner', image', Fresh', t, program'[t], Len(program'[t]))
      /\ \A t, p : OnlyExpected(Mapped, t, p, machine) => OnlyExpected(Mapped', t, p, machine')
      /\ \A t, p, n : CopiedUpTo(Mapped, owner, image, Fresh, t, p, n) =>
                        CopiedUpTo(Mapped', owner', image', Fresh', t, p, n)
  BY <1>1, NotStored, LoadKept
<1>3. Loaded' = Loaded /\ Fresh' = Fresh
  BY <1>1 DEF Loaded, Fresh, Run
<1>4. ProgramInv'
  BY <1>1, <1>2, <1>3 DEF LoadInv, ProgramInv
<1>5. ExpectedInv'
  BY <1>1, <1>2 DEF LoadInv, ExpectedInv
<1>6. CopiedInv'
  BY <1>1, <1>2, <1>3 DEF LoadInv, CopiedInv
<1>7. FirstInv'
  <2> SUFFICES ASSUME pc = "segment"
               PROVE  FirstInv'
    BY <1>1 DEF FirstInv
  <2> DEFINE v == Head(segments).virt
             g == Region(v, stackAddr, 1, RwUser)
  <2>1. g.pages = 1
    BY DEF Region
  <2>2. todo = <<g>>
    BY <1>1 DEF LoadInv, FirstInv
  <2>3. Head(todo) = g /\ Tail(todo) = <<>>
    <3> HIDE DEF g
    <3> QED
      BY <2>2
  <2>4. at # 0 /\ todo' = <<>>
    BY <1>1, <2>1, <2>3
  <2>5. Mapped[space][v] = {[frame |-> stackAddr, flags |-> RwUser]}
    BY <2>4 DEF LoadInv, FirstInv
  <2>6. Mapped'[space] = Mapped[space]
    <3>1. Kept(Mapped, Mapped')
      BY <1>1, NotStored, MappedKept
    <3>2. space \in DOMAIN Mapped
      BY DEF LoadInv, ExpectedInv, OnlyExpected
    <3> QED
      BY <3>1, <3>2 DEF Kept
  <2>7. \A f \in Fresh' : f \in Frames /\ owner'[f].use = "segment"
    BY <1>3, OwnersNext DEF LoadInv, FirstInv
  <2> QED
    BY <1>1, <2>4, <2>5, <2>6, <2>7 DEF FirstInv
<1> QED
  BY <1>4, <1>5, <1>6, <1>7 DEF LoadInv

LEMMA FailLoad ==
  ASSUME Inv, LoadInv, [Next]_vars, NEW t \in Users, LoadFails(t)
  PROVE  LoadInv'
<1>1. /\ pc = "idle" /\ pc' = "idle" /\ program[t] = None
      /\ program' = [program EXCEPT ![t] = Unloadable]
      /\ UNCHANGED <<image, added, at>>
  BY DEF LoadFails, loadVars, walkVars
<1>2. \A r \in added : program'[r] = program[r]
  <2>1. program = [r \in Threads |-> program[r]] /\ added \subseteq Threads
    BY DEF Inv, MoreTypes, TypeOK
  <2>2. t \notin added
    <3>1. t # BspThread /\ None \notin Programs
      BY NamesAssumption
    <3> QED
      BY <1>1, <3>1 DEF LoadInv, ProgramInv, ProgramsOf
  <2> QED
    BY <1>1, <2>1, <2>2
<1>3. /\ \A r \in added : program'[r] \in ProgramsOf(r)
      /\ \A r \in added : OnlyExpected(Mapped', r, program'[r], machine')
      /\ \A r \in added :
           CopiedUpTo(Mapped', owner', image', Fresh', r, program'[r], Len(program'[r]))
  BY <1>1, <1>2, NotStored, LoadKept
<1> QED
  BY <1>1, <1>3 DEF LoadInv, ProgramInv, ExpectedInv, CopiedInv, FirstInv

LEMMA StartLoad ==
  ASSUME Inv, LoadInv, [Next]_vars, NEW t \in Users, NEW p \in Programs, LoadAndExecuteElf(t, p)
  PROVE  LoadInv'
<1>1. t # BspThread /\ t \in Threads /\ None \notin Programs
  BY NamesAssumption DEF Threads
<1>2. program[t] = None /\ NewThread(t, p)
  BY DEF LoadAndExecuteElf
<1>3. p \in ProgramsOf(t) /\ t \notin added
  BY <1>1, <1>2 DEF LoadInv, ProgramInv, ProgramsOf
<1> QED
  BY <1>1, <1>2, <1>3, NewThreadLoad

LEMMA LoadNext ==
  ASSUME SegmentsApart, Inv, LayoutInv, LoadInv, [Next]_vars
  PROVE  LoadInv'
<1>1. ASSUME MakeTable \/ Descend \/ (\E t \in added : SwitchTo(t)) \/ UNCHANGED vars
      PROVE  LoadInv'
  <2>1. UNCHANGED <<image, added, pc, space, stackAddr, segments, program, todo, at>>
    BY <1>1 DEF MakeTable, Descend, SwitchTo, vars, loadVars, walkVars, ghosts
  <2> QED
    BY <2>1, NotStored, LoadQuiet
<1>2. ASSUME \/ MakeKernelDir \/ MapFramebuffer \/ NoFramebuffer \/ SwapToPageTable
             \/ MakeKernelStack \/ CopyOverruns \/ OutOfMemory \/ PageFault
      PROVE  LoadInv'
  <2>1. /\ UNCHANGED <<image, added, program>> /\ at' \in {at, 0}
        /\ pc' \in {"dir", "framebuffer", "halted", "cpus", "overrun", "fault"}
    BY <1>2 DEF MakeKernelDir, MapFramebuffer, NoFramebuffer, SwapToPageTable, MakeKernelStack,
                CopyOverruns, OutOfMemory, PageFault, NewTables, loadVars, walkVars, ghosts
  <2> QED
    BY <2>1, NotStored, LoadElsewhere
<1> QED
  BY <1>1, <1>2, StoreLoad, RegionDoneLoad, ThreadLoad, FailLoad, StartLoad, SkipLoad,
     MakeSegmentLoad, CopyLoad, AddLoad, Zenon DEF Next

LEMMA LoadInit == Init => LoadInv
<1> SUFFICES ASSUME Init
             PROVE  LoadInv
  OBVIOUS
<1>1. pc = "boot" /\ added = {}
  BY DEF Init
<1> QED
  BY <1>1 DEF LoadInv, ProgramInv, ExpectedInv, CopiedInv, FirstInv

\* How many pages the bytes of a segment take.
LEMMA PageCount ==
  ASSUME NEW x \in Nat, NEW b \in Nat
  PROVE  LET q == (x + b + PageBytes - 1) \div PageBytes
         IN  /\ q \in Nat
             /\ x + b <= PageBytes => q <= 1
             /\ x + b > PageBytes => q >= 2
             /\ q >= 1 <=> x + b > 0
<1> DEFINE c == x + b
           d == c + PageBytes - 1
           q == d \div PageBytes
<1>1. c \in Nat /\ PageBytes \in Nat \ {0}
  BY SizesAssumption
<1> HIDE DEF c
<1>2. d \in Nat
  BY <1>1
<1>3. q \in Nat /\ q * PageBytes <= d /\ d < q * PageBytes + PageBytes
  <2> HIDE DEF d
  <2>1. /\ d \div PageBytes \in Nat /\ d % PageBytes \in 0 .. (PageBytes - 1)
        /\ d = ((d \div PageBytes) * PageBytes) + (d % PageBytes)
    BY <1>1, <1>2, Quotient
  <2> QED
    BY <1>1, <1>2, <2>1
<1> HIDE DEF q
<1>4. q = 0 => d < PageBytes
  BY <1>1, <1>2, <1>3
<1>5. q = 1 => PageBytes <= d /\ d < 2 * PageBytes
  BY <1>1, <1>2, <1>3
<1>6. q >= 2 => 2 * PageBytes <= d
  <2> SUFFICES ASSUME q >= 2
               PROVE  2 * PageBytes <= d
    OBVIOUS
  <2>1. 1 * PageBytes + PageBytes <= q * PageBytes
    BY <1>1, <1>3, Scaled, 1 \in Nat
  <2> HIDE DEF d
  <2> QED
    BY <1>1, <1>2, <1>3, <2>1
<1>7. q = 0 \/ q = 1 \/ q >= 2
  BY <1>3
<1>8. /\ c <= PageBytes => q <= 1
      /\ c > PageBytes => q >= 2
      /\ q >= 1 <=> c > 0
  BY <1>1, <1>3, <1>4, <1>5, <1>6, <1>7
<1> QED
  BY <1>3, <1>8 DEF c, q

\* A segment is where the file says exactly when it fits in its one page.
LEMMA InPlaceIs ==
  ASSUME SegmentsApart, Inv, LoadInv, NEW t \in added, NEW k \in DOMAIN program[t]
  PROVE  InPlace(t, k) <=> PageSized(program[t][k])
<1> DEFINE p == program[t]
           s == p[k]
           v == s.virt
           q == (s.offset + s.filesz + PageBytes - 1) \div PageBytes
<1>1. CASE ~ Loads(s)
  BY <1>1 DEF InPlace, PageSized, Loads
<1>2. CASE Loads(s)
  <2>1. p \in ProgramsOf(t) /\ TypeOK
    BY DEF LoadInv, ProgramInv, Inv
  <2>2. /\ s \in Segment /\ v \in Virt /\ PagesOf(s) \subseteq Virt \ CommonPages(machine)
        /\ \A i \in DOMAIN p : i # k /\ Loads(p[i]) => p[i].virt \notin PagesOf(s)
    <3>1. k \in DOMAIN p /\ Loads(p[k])
      BY <1>2
    <3> HIDE DEF p
    <3> QED
      BY <2>1, <3>1, ApartIs
  <2>3. s.offset \in Nat /\ s.filesz \in Nat /\ v \in Nat /\ PageBytes \in Nat \ {0}
    BY <2>2, VirtIn, SizesAssumption DEF Segment
  <2>4. t \in Live /\ \A w \in Virt : Mapped[t][w] = Translation(rootTable[t], w)
    <3>1. t \in DOMAIN Mapped
      BY DEF LoadInv, ExpectedInv, OnlyExpected
    <3> QED
      BY <3>1 DEF Mapped
  <2> DEFINE x == s.offset
             b == s.filesz
  <2>5. /\ q \in Nat
        /\ x + b <= PageBytes => q <= 1
        /\ x + b > PageBytes => q >= 2
        /\ q >= 1 <=> x + b > 0
    BY <2>3, PageCount
  <2>6. InPlace(t, k) <=> \A j \in 0 .. (q - 1) : \E e \in Translation(rootTable[t], v + j) :
                            /\ e.frame \in Frames /\ image[e.frame] = <<t, k, j>> /\ x = 0
    BY <1>2 DEF InPlace, Loads
  <2>7. PageSized(s) <=> x = 0 /\ b <= PageBytes
    BY <1>2 DEF PageSized, Loads
  <2>8. k \in 1 .. Len(p)
    <3>1. p = <<>> \/ p \in Programs
      BY <2>1 DEF ProgramsOf
    <3>2. <<>> \in Seq(Segment)
      OBVIOUS
    <3>3. p \in Seq(Segment)
      BY <3>1, <3>2, ProgramsAssumption
    <3> HIDE DEF p
    <3> QED
      BY <3>3 DEF p
  <2>9. b > 0 => Copied(Mapped, owner, image, Fresh, t, k, s)
    BY <1>2, <2>8 DEF LoadInv, CopiedInv, CopiedUpTo
  <2>10. v + 1 \in Virt => Translation(rootTable[t], v + 1) = {} \/ v + 1 \notin PagesOf(s)
    <3> SUFFICES ASSUME v + 1 \in Virt, Translation(rootTable[t], v + 1) # {}, v + 1 \in PagesOf(s)
                 PROVE  FALSE
      OBVIOUS
    <3>1. Expected(p, machine, v + 1)
      BY <2>4 DEF LoadInv, ExpectedInv, OnlyExpected
    <3>2. PICK i \in DOMAIN p : Loads(p[i]) /\ p[i].virt = v + 1
      BY <2>2, <3>1 DEF Expected
    <3>3. v # v + 1
      <4> HIDE DEF v
      <4> QED
        BY <2>3
    <3>4. i # k
      BY <3>2, <3>3
    <3> QED
      BY <2>2, <3>2, <3>4
  <2>11. q >= 2 => v + 1 \in PagesOf(s)
    <3> SUFFICES ASSUME q >= 2
                 PROVE  v + 1 \in PagesOf(s)
      OBVIOUS
    <3>1. PagesOf(s) = {v} \cup (v .. (v + q - 1))
      BY DEF PagesOf
    <3> HIDE DEF q, v
    <3>2. v + 1 \in v .. (v + q - 1)
      BY <2>3, <2>5
    <3> QED
      BY <3>1, <3>2
  <2>12. ASSUME x = 0, b <= PageBytes
         PROVE  InPlace(t, k)
    <3> SUFFICES ASSUME NEW j \in 0 .. (q - 1)
                 PROVE  \E e \in Translation(rootTable[t], v + j) :
                          e.frame \in Frames /\ image[e.frame] = <<t, k, j>> /\ x = 0
      BY <2>6
    <3>1. j = 0 /\ q >= 1 /\ b > 0 /\ v + j = v
      <4> HIDE DEF q, x, b, v
      <4> QED
        BY <2>3, <2>5, <2>12 DEF x, b, v
    <3>2. PICK e \in Mapped[t][v] : e.frame \in Frames \ Fresh /\ image[e.frame] = <<t, k, 0>>
      BY <2>9, <3>1 DEF Copied
    <3>3. e \in Translation(rootTable[t], v)
      BY <2>2, <2>4
    <3> HIDE DEF v, x
    <3> QED
      BY <2>12, <3>1, <3>2, <3>3
  <2>13. ASSUME InPlace(t, k)
         PROVE  x = 0 /\ b <= PageBytes
    <3>1. x = 0
      <4> SUFFICES ASSUME x # 0
                   PROVE  FALSE
        OBVIOUS
      <4>1. 0 \in 0 .. (q - 1)
        <5> HIDE DEF q, x, b
        <5> QED
          BY <2>3, <2>5 DEF x, b
      <4> QED
        BY <2>6, <2>13, <4>1
    <3>2. b <= PageBytes
      <4> SUFFICES ASSUME ~ (b <= PageBytes)
                   PROVE  FALSE
        OBVIOUS
      <4>1. q >= 2 /\ 1 \in 0 .. (q - 1)
        <5> HIDE DEF q, x, b
        <5> QED
          BY <2>3, <2>5, <3>1 DEF x, b
      <4>2. v + 1 \in PagesOf(s) /\ v + 1 \in Virt
        BY <2>2, <2>11, <4>1
      <4>3. Translation(rootTable[t], v + 1) # {}
        BY <2>6, <2>13, <4>1
      <4> QED
        BY <2>10, <4>2, <4>3
    <3> QED
      BY <3>1, <3>2
  <2> QED
    BY <2>7, <2>12, <2>13
<1> QED
  BY <1>1, <1>2

\* Of the programs that umode_link.ld lays out, those are loaded whole, for every machine and
\* whatever else is in memory, whose segments fit in one page each and begin at its start:
\* one page of a segment is mapped, and to the first of its frames (util.cpp:82-88).
THEOREM ProgramsLoadWhole == SegmentsApart => (Spec => []LoadedIffPageSized)
<1> SUFFICES ASSUME SegmentsApart
             PROVE  Spec => []LoadedIffPageSized
  OBVIOUS
<1>1. Init => LoadInv
  BY LoadInit
<1>2. Inv /\ LayoutInv /\ LoadInv /\ [Next]_vars => LoadInv'
  BY LoadNext
<1>3. Inv /\ LoadInv => LoadedIffPageSized
  BY InPlaceIs DEF LoadedIffPageSized
<1> QED
  BY <1>1, <1>2, <1>3, InductiveInvariant, LayoutInvariant, PTL DEF Spec
=============================================================================
