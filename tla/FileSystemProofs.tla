-------------------------- MODULE FileSystemProofs --------------------------
(***************************************************************************)
(* Proofs about FileSystem: for any files, paths, counts and offsets and   *)
(* any size of the hash tables, descriptors are fresh, both tables are     *)
(* whole, and calls do what FileAccess promises.                           *)
(***************************************************************************)
EXTENDS FileSystem, NaturalLemmas, SequenceTheorems

-----------------------------------------------------------------------------
(* The inductive invariant *)

Entries(V) == [key : Int, value : V]
HashTables(V) == [0 .. (TableSize - 1) -> Seq(Entries(V))]

Names == UNION {{in[i].name : i \in DOMAIN in} : in \in Inputs}
Infos == [name : Names, size : Nat, data : Nat, cur_pos : Int]

TypeInv ==
  /\ phase \in {"boot", "ready", "halted", "garbage"}
  /\ input \in Inputs
  /\ files \in Seq(Infos)
  /\ cur_fd \in Fds
  /\ orderly \in BOOLEAN

TypesOfTables ==
  /\ open_files \in HashTables(Nat)
  /\ openFilesystems \in HashTables({"initrd"})

\* Descriptors name files of the list, which is there once an image is mounted.
FilesInv ==
  /\ Len(files) = IF phase = "ready" THEN Len(input) ELSE 0
  /\ \A fd \in Keys(open_files) : get(open_files, fd) \in 1 .. Len(files)

FreshInv == Fresh /\ (orderly => cur_fd \in Nat)

IInv == TypeInv /\ TypesOfTables /\ FilesInv /\ TablesWhole /\ FreshInv

-----------------------------------------------------------------------------
(* The hash table *)

LEMMA HashRange ==
  ASSUME NEW k \in Int
  PROVE  Hash(k) \in 0 .. (TableSize - 1)
<1>1. k % Word \in Int
  BY SizesAssumption
<1> DEFINE w == k % Word
<1>2. w % TableSize \in 0 .. (TableSize - 1)
  <2> HIDE DEF w
  <2> QED
    BY <1>1, SizesAssumption DEF w
<1> QED
  BY <1>2 DEF Hash

\* Where a key is in its chain.
LEMMA PlaceOf ==
  ASSUME NEW V, NEW t \in HashTables(V), NEW k \in Int
  PROVE  /\ t[Hash(k)] \in Seq(Entries(V)) /\ Len(t[Hash(k)]) \in Nat
         /\ \/ /\ Place(t, k) = 0 /\ ~has(t, k)
               /\ \A i \in 1 .. Len(t[Hash(k)]) : t[Hash(k)][i].key # k
            \/ /\ Place(t, k) \in 1 .. Len(t[Hash(k)]) /\ has(t, k)
               /\ t[Hash(k)][Place(t, k)].key = k
<1> DEFINE c == t[Hash(k)]
           I == {i \in 1 .. Len(c) : c[i].key = k}
<1>1. c \in Seq(Entries(V)) /\ Len(c) \in Nat
  <2>1. Hash(k) \in 0 .. (TableSize - 1)
    BY HashRange
  <2>2. t \in [0 .. (TableSize - 1) -> Seq(Entries(V))]
    BY DEF HashTables
  <2>3. c \in Seq(Entries(V))
    BY <2>1, <2>2
  <2> HIDE DEF c
  <2> QED
    BY <2>3, LenProperties
<1>2. Place(t, k) = IF I # {} THEN Min(I) ELSE 0
  BY DEF Place, SelectInSeq
<1>3. CASE I = {}
  BY <1>1, <1>2, <1>3 DEF has
<1>4. CASE I # {}
  <2>1. I \in SUBSET Nat
    BY <1>1
  <2>2. Min(I) \in I
    <3> HIDE DEF I
    <3> QED
      BY <2>1, <1>4, LeastNat DEF Min
  <2>3. Place(t, k) \in I
    BY <1>2, <1>4, <2>2
  <2>4. Place(t, k) # 0
    BY <1>1, <2>3
  <2> QED
    BY <1>1, <2>3, <2>4 DEF has
<1> QED
  BY <1>3, <1>4

\* A table's keys are those of the chains of their hash values.
LEMMA KeysOf ==
  ASSUME NEW V, NEW t \in HashTables(V), KeptOnce(t)
  PROVE  /\ Keys(t) \subseteq Int
         /\ \A k \in Int : k \in Keys(t) <=>
              \E i \in 1 .. Len(t[Hash(k)]) : t[Hash(k)][i].key = k
<1>1. DOMAIN t = 0 .. (TableSize - 1)
  BY DEF HashTables
<1>2. ASSUME NEW h \in DOMAIN t
      PROVE  t[h] \in Seq(Entries(V)) /\ DOMAIN t[h] = 1 .. Len(t[h])
             /\ \A i \in DOMAIN t[h] : t[h][i] \in Entries(V)
  <2>1. t[h] \in Seq(Entries(V))
    BY DEF HashTables
  <2> QED
    BY <2>1, LenProperties, ElementOfSeq
<1>3. \A k : k \in Keys(t) <=> \E h \in DOMAIN t : \E i \in DOMAIN t[h] : t[h][i].key = k
  BY DEF Keys, ToSet
<1>4. Keys(t) \subseteq Int
  BY <1>2, <1>3 DEF Entries
<1>5. ASSUME NEW k \in Int
      PROVE  k \in Keys(t) <=> \E i \in 1 .. Len(t[Hash(k)]) : t[Hash(k)][i].key = k
  <2>1. Hash(k) \in DOMAIN t
    BY <1>1, HashRange
  <2>2. \A h \in DOMAIN t : \A i \in DOMAIN t[h] : t[h][i].key = k => Hash(k) = h
    BY DEF KeptOnce
  <2> QED
    BY <1>2, <1>3, <2>1, <2>2
<1> QED
  BY <1>4, <1>5

\* has tells which they are.
LEMMA HasIsKey ==
  ASSUME NEW V, NEW t \in HashTables(V), KeptOnce(t), NEW k \in Int
  PROVE  has(t, k) <=> k \in Keys(t)
BY KeysOf, PlaceOf

\* get finds the value of the one entry with the key.
LEMMA GetIs ==
  ASSUME NEW V, NEW t \in HashTables(V), KeptOnce(t), NEW k \in Int,
         NEW c \in Seq(Entries(V)), c = t[Hash(k)], NEW i \in 1 .. Len(c), c[i].key = k
  PROVE  get(t, k) = c[i].value /\ get(t, k) \in V /\ k \in Keys(t)
<1>1. Hash(k) \in DOMAIN t
  BY HashRange DEF HashTables
<1>2. DOMAIN c = 1 .. Len(c)
  BY LenProperties
<1>3. Place(t, k) \in 1 .. Len(c) /\ c[Place(t, k)].key = k
  BY PlaceOf
<1>4. Place(t, k) = i
  BY <1>1, <1>2, <1>3 DEF KeptOnce
<1>5. c[i] \in Entries(V)
  BY ElementOfSeq
<1>6. k \in Keys(t)
  BY <1>1, <1>2 DEF Keys, ToSet
<1> QED
  BY <1>4, <1>5, <1>6 DEF get, Entries

\* Two tables say the same of a key.
SameOn(t, u, j) ==
  /\ j \in Keys(u) <=> j \in Keys(t)
  /\ j \in Keys(t) => get(u, j) = get(t, j)

\* Tables that differ in one chain only.
LEMMA OtherChains ==
  ASSUME NEW V, NEW t \in HashTables(V), KeptOnce(t), NEW k \in Int,
         NEW c \in Seq(Entries(V)),
         \A i \in 1 .. Len(c) : Hash(c[i].key) = Hash(k),
         \A i, j \in 1 .. Len(c) : c[i].key = c[j].key => i = j,
         NEW u \in HashTables(V), c = u[Hash(k)],
         \A h \in 0 .. (TableSize - 1) : h # Hash(k) => u[h] = t[h]
  PROVE  /\ KeptOnce(u)
         /\ \A j \in Int : Hash(j) # Hash(k) => SameOn(t, u, j)
<1>1. Hash(k) \in 0 .. (TableSize - 1) /\ DOMAIN t = 0 .. (TableSize - 1)
  BY HashRange DEF HashTables
<1>3. DOMAIN u = DOMAIN t /\ \A h \in DOMAIN t : h # Hash(k) => u[h] = t[h]
  BY <1>1 DEF HashTables
<1>4. DOMAIN c = 1 .. Len(c)
  BY LenProperties
<1>5. KeptOnce(u)
  <2> SUFFICES ASSUME NEW h \in DOMAIN t
               PROVE  \A i, j \in DOMAIN u[h] : /\ Hash(u[h][i].key) = h
                                               /\ u[h][i].key = u[h][j].key => i = j
    BY <1>3 DEF KeptOnce
  <2>1. CASE h = Hash(k)
    BY <1>3, <1>4, <2>1
  <2>2. CASE h # Hash(k)
    <3>1. u[h] = t[h]
      BY <1>3, <2>2
    <3> QED
      BY <3>1 DEF KeptOnce
  <2> QED
    BY <2>1, <2>2
<1>7. ASSUME NEW j \in Int, Hash(j) # Hash(k)
      PROVE  SameOn(t, u, j)
  <2>1. u[Hash(j)] = t[Hash(j)]
    BY <1>1, <1>3, <1>7, HashRange
  <2>2. j \in Keys(u) <=> j \in Keys(t)
    BY <1>5, <2>1, KeysOf
  <2>3. Place(u, j) = Place(t, j)
    BY <2>1 DEF Place
  <2> QED
    BY <2>1, <2>2, <2>3 DEF get, SameOn
<1> QED
  BY <1>5, <1>7

\* Chain c is b but for k's entry.
Rechained(b, c, k) ==
  /\ \A i \in 1 .. Len(c) : Hash(c[i].key) = Hash(k)
  /\ \A i, j \in 1 .. Len(c) : c[i].key = c[j].key => i = j
  /\ \A i \in 1 .. Len(c) : c[i].key # k => \E j \in 1 .. Len(b) : b[j] = c[i]
  /\ \A j \in 1 .. Len(b) : b[j].key # k => \E i \in 1 .. Len(c) : b[j] = c[i]

\* What a change of k's chain to c does to the table, when c holds k no longer or
\* with the value v, and the other keys as before.
LEMMA ChainChange ==
  ASSUME NEW V, NEW t \in HashTables(V), KeptOnce(t), NEW k \in Int,
         NEW b \in Seq(Entries(V)), b = t[Hash(k)],
         NEW c \in Seq(Entries(V)), Rechained(b, c, k),
         NEW u \in HashTables(V), c = u[Hash(k)],
         \A h \in 0 .. (TableSize - 1) : h # Hash(k) => u[h] = t[h]
  PROVE  /\ KeptOnce(u)
         /\ \A j \in Int \ {k} : SameOn(t, u, j)
         /\ \A i \in 1 .. Len(c) : c[i].key = k => k \in Keys(u) /\ get(u, k) = c[i].value
         /\ (\A i \in 1 .. Len(c) : c[i].key # k) => k \notin Keys(u)
<1>1. KeptOnce(u) /\ \A j \in Int : Hash(j) # Hash(k) => SameOn(t, u, j)
  <2>1. /\ \A i \in 1 .. Len(c) : Hash(c[i].key) = Hash(k)
        /\ \A i, j \in 1 .. Len(c) : c[i].key = c[j].key => i = j
    BY DEF Rechained
  <2> QED
    BY <2>1, OtherChains
<1>2. KeptOnce(u)
  BY <1>1
<1>3. ASSUME NEW j \in Int \ {k}, Hash(j) = Hash(k)
      PROVE  SameOn(t, u, j)
  <2>1. b = t[Hash(j)] /\ c = u[Hash(j)] /\ j \in Int
    BY <1>3
  <2>2. j \in Keys(t) <=> \E i \in 1 .. Len(b) : b[i].key = j
    BY <2>1, KeysOf
  <2>3. j \in Keys(u) <=> \E i \in 1 .. Len(c) : c[i].key = j
    BY <1>2, <2>1, KeysOf
  <2>4. ASSUME NEW i \in 1 .. Len(b), b[i].key = j
        PROVE  get(t, j) = b[i].value
    BY <2>1, <2>4, GetIs
  <2>5. ASSUME NEW i \in 1 .. Len(c), c[i].key = j
        PROVE  get(u, j) = c[i].value
    BY <1>2, <2>1, <2>5, GetIs
  <2>6. \A i \in 1 .. Len(b) : b[i].key = j => \E n \in 1 .. Len(c) : b[i] = c[n]
    BY DEF Rechained
  <2>7. \A n \in 1 .. Len(c) : c[n].key = j => \E i \in 1 .. Len(b) : b[i] = c[n]
    BY DEF Rechained
  <2>8. ASSUME j \in Keys(t)
        PROVE  j \in Keys(u) /\ get(u, j) = get(t, j)
    <3>1. PICK i \in 1 .. Len(b) : b[i].key = j
      BY <2>2, <2>8
    <3>2. PICK n \in 1 .. Len(c) : b[i] = c[n]
      BY <2>6, <3>1
    <3>3. c[n].key = j
      BY <3>1, <3>2
    <3> QED
      BY <2>3, <2>4, <2>5, <3>1, <3>2, <3>3
  <2>9. j \in Keys(u) => j \in Keys(t)
    BY <2>2, <2>3, <2>7
  <2> QED
    BY <2>8, <2>9 DEF SameOn
<1>4. \A j \in Int \ {k} : SameOn(t, u, j)
  BY <1>1, <1>3
<1>5. ASSUME NEW i \in 1 .. Len(c), c[i].key = k
      PROVE  k \in Keys(u) /\ get(u, k) = c[i].value
  BY <1>2, <1>5, GetIs
<1>6. (\A i \in 1 .. Len(c) : c[i].key # k) => k \notin Keys(u)
  BY <1>2, KeysOf
<1> QED
  BY <1>2, <1>4, <1>5, <1>6

\* put: the key has the value, every other key what it had.
LEMMA PutIs ==
  ASSUME NEW V, NEW t \in HashTables(V), KeptOnce(t), NEW k \in Int, NEW v \in V
  PROVE  /\ put(t, k, v) \in HashTables(V) /\ KeptOnce(put(t, k, v))
         /\ Keys(put(t, k, v)) = Keys(t) \cup {k}
         /\ get(put(t, k, v), k) = v
         /\ \A j \in Keys(t) \ {k} : get(put(t, k, v), j) = get(t, j)
<1> DEFINE c == t[Hash(k)]
           p == Place(t, k)
           e == [key |-> k, value |-> v]
           d == IF has(t, k) THEN [c EXCEPT ![p] = e] ELSE Append(c, e)
           u == [t EXCEPT ![Hash(k)] = d]
<1>1. c \in Seq(Entries(V)) /\ Len(c) \in Nat /\ e \in Entries(V)
  BY PlaceOf DEF Entries
<1>2. \A i \in 1 .. Len(c) : /\ c[i] \in Entries(V) /\ Hash(c[i].key) = Hash(k)
                            /\ \A j \in 1 .. Len(c) : c[i].key = c[j].key => i = j
  <2>1. DOMAIN c = 1 .. Len(c) /\ Hash(k) \in DOMAIN t
    BY <1>1, LenProperties, HashRange DEF HashTables
  <2> QED
    BY <1>1, <2>1, ElementOfSeq DEF KeptOnce
<1>3. \/ /\ p = 0 /\ ~has(t, k)
         /\ \A i \in 1 .. Len(c) : c[i].key # k
      \/ p \in 1 .. Len(c) /\ has(t, k) /\ c[p].key = k
  BY PlaceOf
<1>4. put(t, k, v) = u
  <2>1. CASE has(t, k)
    <3>1. [c[p] EXCEPT !.value = v] = e
      BY <1>2, <1>3, <2>1 DEF Entries
    <3>2. put(t, k, v) = [t EXCEPT ![Hash(k)] = [c EXCEPT ![p] = [c[p] EXCEPT !.value = v]]]
      BY <2>1 DEF put
    <3> QED
      BY <2>1, <3>1, <3>2
  <2>2. CASE ~has(t, k)
    BY <2>2 DEF put
  <2> QED
    BY <2>1, <2>2
<1>5. /\ d \in Seq(Entries(V))
      /\ \A i \in 1 .. Len(d) : d[i] = e \/ (i \in 1 .. Len(c) /\ d[i] = c[i] /\ c[i].key # k)
      /\ \A i, j \in 1 .. Len(d) : d[i] = e /\ d[j] = e => i = j
      /\ \A j \in 1 .. Len(c) : c[j].key # k => j \in 1 .. Len(d) /\ d[j] = c[j]
      /\ \E i \in 1 .. Len(d) : d[i] = e
  <2> HIDE DEF e
  <2>1. e.key = k
    BY DEF e
  <2>2. CASE has(t, k)
    <3>1. d = [c EXCEPT ![p] = e]
      BY <2>2
    <3> HIDE DEF c, p, d
    <3>2. d \in Seq(Entries(V)) /\ Len(d) = Len(c) /\ d[p] = e
          /\ \A i \in 1 .. Len(c) : i # p => d[i] = c[i]
      BY <1>1, <1>3, <2>2, <3>1, ExceptSeq
    <3> QED
      BY <1>1, <1>2, <1>3, <2>1, <2>2, <3>2
  <2>3. CASE ~has(t, k)
    <3>1. d = Append(c, e)
      BY <2>3
    <3> HIDE DEF c, p, d
    <3>2. d \in Seq(Entries(V)) /\ Len(d) = Len(c) + 1 /\ d[Len(c) + 1] = e
          /\ \A i \in 1 .. Len(c) : d[i] = c[i]
      BY <1>1, <3>1, AppendProperties
    <3> QED
      BY <1>1, <1>2, <1>3, <2>1, <2>3, <3>2
  <2> QED
    BY <2>2, <2>3
<1> HIDE DEF d
<1>6. Rechained(c, d, k)
  <2>1. e.key = k
    OBVIOUS
  <2> HIDE DEF e, c
  <2> QED
    BY <1>2, <1>5, <2>1 DEF Rechained
<1>7. /\ u \in HashTables(V) /\ d = u[Hash(k)] /\ c = t[Hash(k)]
      /\ \A h \in 0 .. (TableSize - 1) : h # Hash(k) => u[h] = t[h]
  BY <1>5, HashRange DEF HashTables
<1>8. d \in Seq(Entries(V)) /\ c \in Seq(Entries(V))
  BY <1>1, <1>5
<1> HIDE DEF u, c, e, p
<1>9. /\ KeptOnce(u)
      /\ \A j \in Int \ {k} : SameOn(t, u, j)
      /\ \A i \in 1 .. Len(d) : d[i].key = k => k \in Keys(u) /\ get(u, k) = d[i].value
      /\ (\A i \in 1 .. Len(d) : d[i].key # k) => k \notin Keys(u)
  BY <1>6, <1>7, <1>8, ChainChange
<1>10. k \in Keys(u) /\ get(u, k) = v
  BY <1>5, <1>9 DEF e
<1>11. Keys(u) \subseteq Int /\ Keys(t) \subseteq Int
  BY <1>9, <1>7, KeysOf
<1>12. Keys(u) = Keys(t) \cup {k} /\ \A j \in Keys(t) \ {k} : get(u, j) = get(t, j)
  BY <1>9, <1>10, <1>11 DEF SameOn
<1> QED
  BY <1>4, <1>9, <1>10, <1>7, <1>12

\* What is left of a sequence without its element at p.
LEMMA RemoveAtIs ==
  ASSUME NEW S, NEW c \in Seq(S), NEW p \in 1 .. Len(c), NEW d, d = RemoveAt(c, p)
  PROVE  /\ d \in Seq(S) /\ Len(d) = Len(c) - 1
         /\ \A i \in 1 .. Len(d) : d[i] = IF i < p THEN c[i] ELSE c[i + 1]
<1> DEFINE a == SubSeq(c, 1, p - 1)
           b == SubSeq(c, p + 1, Len(c))
<1>1. Len(c) \in Nat /\ p \in Nat /\ p - 1 \in Int /\ p + 1 \in Int /\ Len(c) \in Int
  BY LenProperties
<1>2. \A i \in 1 .. Len(c) : c[i] \in S
  BY ElementOfSeq
<1>3. /\ a \in Seq(S) /\ Len(a) = p - 1
      /\ \A i \in 1 .. (p - 1) : a[i] = c[i]
  <2>1. \A i \in 1 .. (p - 1) : c[i] \in S
    BY <1>1, <1>2
  <2>2. /\ a \in Seq(S) /\ Len(a) = IF 1 <= p - 1 THEN p - 1 - 1 + 1 ELSE 0
        /\ \A i \in 1 .. p - 1 - 1 + 1 : a[i] = c[1 + i - 1]
    BY <1>1, <2>1, SubSeqProperties
  <2> HIDE DEF a
  <2> QED
    BY <1>1, <2>2
<1>4. /\ b \in Seq(S) /\ Len(b) = Len(c) - p
      /\ \A i \in 1 .. (Len(c) - p) : b[i] = c[p + i]
  <2>1. \A i \in (p + 1) .. Len(c) : c[i] \in S
    BY <1>1, <1>2
  <2>2. /\ b \in Seq(S) /\ Len(b) = IF p + 1 <= Len(c) THEN Len(c) - (p + 1) + 1 ELSE 0
        /\ \A i \in 1 .. Len(c) - (p + 1) + 1 : b[i] = c[p + 1 + i - 1]
    BY <1>1, <2>1, SubSeqProperties
  <2> HIDE DEF b
  <2> QED
    BY <1>1, <2>2
<1>5. d = a \o b
  BY DEF RemoveAt
<1> HIDE DEF a, b
<1>6. /\ d \in Seq(S) /\ Len(d) = Len(a) + Len(b)
      /\ \A i \in 1 .. Len(a) + Len(b) : d[i] = IF i <= Len(a) THEN a[i] ELSE b[i - Len(a)]
  <2>1. a \in Seq(S) /\ b \in Seq(S)
    BY <1>3, <1>4
  <2>2. /\ a \o b \in Seq(S) /\ Len(a \o b) = Len(a) + Len(b)
        /\ \A i \in 1 .. Len(a) + Len(b) :
             (a \o b)[i] = IF i <= Len(a) THEN a[i] ELSE b[i - Len(a)]
    BY <2>1, ConcatProperties, Zenon
  <2> QED
    BY <2>2, <1>5, Zenon
<1>7. ASSUME NEW i \in 1 .. (Len(c) - 1)
      PROVE  d[i] = IF i < p THEN c[i] ELSE c[i + 1]
  <2>0. Len(a) + Len(b) = Len(c) - 1
    BY <1>1, <1>3, <1>4
  <2>1. CASE i < p
    <3>1. i <= Len(a) /\ i \in 1 .. (p - 1) /\ i \in 1 .. Len(a) + Len(b)
      BY <1>1, <1>3, <2>0, <2>1
    <3>2. d[i] = a[i]
      BY <1>6, <3>1, Zenon
    <3> QED
      BY <1>3, <2>1, <3>1, <3>2
  <2>2. CASE ~(i < p)
    <3>1. d[i] = b[i - (p - 1)]
      <4>1. ~(i <= Len(a)) /\ i \in 1 .. Len(a) + Len(b) /\ Len(a) = p - 1
        BY <1>1, <1>3, <2>0, <2>2
      <4> QED
        BY <1>6, <4>1, Zenon
    <3>2. i - (p - 1) \in 1 .. (Len(c) - p) /\ p + (i - (p - 1)) = i + 1
      BY <1>1, <2>2
    <3> QED
      BY <1>4, <2>2, <3>1, <3>2
  <2> QED
    BY <2>1, <2>2
<1>8. d \in Seq(S) /\ Len(d) = Len(c) - 1
  BY <1>1, <1>3, <1>4, <1>6
<1> QED
  BY <1>7, <1>8

\* remove: the key is gone, every other key keeps what it had.
LEMMA RemoveIs ==
  ASSUME NEW V, NEW t \in HashTables(V), KeptOnce(t), NEW k \in Int
  PROVE  /\ remove(t, k) \in HashTables(V) /\ KeptOnce(remove(t, k))
         /\ Keys(remove(t, k)) = Keys(t) \ {k}
         /\ \A j \in Keys(t) \ {k} : get(remove(t, k), j) = get(t, j)
<1> DEFINE c == t[Hash(k)]
           p == Place(t, k)
           d == RemoveAt(c, p)
           u == [t EXCEPT ![Hash(k)] = d]
<1>1. c \in Seq(Entries(V)) /\ Len(c) \in Nat
  BY PlaceOf
<1>2. \A i \in 1 .. Len(c) : /\ Hash(c[i].key) = Hash(k)
                            /\ \A j \in 1 .. Len(c) : c[i].key = c[j].key => i = j
  <2>1. DOMAIN c = 1 .. Len(c) /\ Hash(k) \in DOMAIN t
    BY <1>1, LenProperties, HashRange DEF HashTables
  <2> QED
    BY <1>1, <2>1 DEF KeptOnce
<1>3. CASE ~has(t, k)
  <2>1. remove(t, k) = t
    BY <1>3 DEF remove
  <2>2. k \notin Keys(t)
    BY <1>3, HasIsKey
  <2> QED
    BY <2>1, <2>2
<1>4. CASE has(t, k)
  <2>1. remove(t, k) = u
    BY <1>4 DEF remove
  <2>2. p \in 1 .. Len(c) /\ c[p].key = k
    BY <1>4, PlaceOf
  <2> HIDE DEF c, p
  <2>3. /\ d \in Seq(Entries(V)) /\ Len(d) = Len(c) - 1
        /\ \A i \in 1 .. Len(d) : d[i] = IF i < p THEN c[i] ELSE c[i + 1]
    BY <1>1, <2>2, RemoveAtIs
  <2> HIDE DEF d
  <2>4. \A i \in 1 .. Len(d) :
          \E j \in 1 .. Len(c) : j # p /\ d[i] = c[j] /\ j = IF i < p THEN i ELSE i + 1
    BY <1>1, <2>2, <2>3
  <2>5. \A i \in 1 .. Len(d) : d[i].key # k /\ Hash(d[i].key) = Hash(k)
    BY <1>2, <2>2, <2>4
  <2>6. \A i, j \in 1 .. Len(d) : d[i].key = d[j].key => i = j
    <3> SUFFICES ASSUME NEW i \in 1 .. Len(d), NEW j \in 1 .. Len(d), d[i].key = d[j].key
                 PROVE  i = j
      OBVIOUS
    <3> DEFINE m == IF i < p THEN i ELSE i + 1
               n == IF j < p THEN j ELSE j + 1
    <3>1. m \in 1 .. Len(c) /\ d[i] = c[m] /\ n \in 1 .. Len(c) /\ d[j] = c[n]
      BY <2>4
    <3>2. m = n
      BY <1>2, <3>1
    <3> QED
      BY <1>1, <2>2, <2>3, <3>2
  <2>7. \A j \in 1 .. Len(c) : c[j].key # k => \E i \in 1 .. Len(d) : c[j] = d[i]
    <3> SUFFICES ASSUME NEW j \in 1 .. Len(c), c[j].key # k
                 PROVE  \E i \in 1 .. Len(d) : c[j] = d[i]
      OBVIOUS
    <3>1. CASE j < p
      BY <1>1, <2>2, <2>3, <3>1
    <3>2. CASE j > p
      <4>1. j - 1 \in 1 .. Len(d) /\ ~(j - 1 < p) /\ j - 1 + 1 = j
        BY <1>1, <2>2, <2>3, <3>2
      <4> QED
        BY <2>3, <4>1
    <3> QED
      BY <1>1, <2>2, <3>1, <3>2
  <2>8. Rechained(c, d, k)
    BY <2>4, <2>5, <2>6, <2>7 DEF Rechained
  <2>9. /\ u \in HashTables(V) /\ d = u[Hash(k)] /\ c = t[Hash(k)]
        /\ \A h \in 0 .. (TableSize - 1) : h # Hash(k) => u[h] = t[h]
    BY <2>3, HashRange DEF HashTables, c
  <2>10. d \in Seq(Entries(V)) /\ c \in Seq(Entries(V))
    BY <1>1, <2>3
  <2> HIDE DEF u
  <2>11. /\ KeptOnce(u)
         /\ \A j \in Int \ {k} : SameOn(t, u, j)
         /\ (\A i \in 1 .. Len(d) : d[i].key # k) => k \notin Keys(u)
    BY <2>8, <2>9, <2>10, ChainChange
  <2>12. Keys(u) \subseteq Int /\ Keys(t) \subseteq Int
    BY <2>9, <2>11, KeysOf
  <2>13. Keys(u) = Keys(t) \ {k} /\ \A j \in Keys(t) \ {k} : get(u, j) = get(t, j)
    BY <2>5, <2>11, <2>12 DEF SameOn
  <2> QED
    BY <2>1, <2>9, <2>11, <2>13
<1> QED
  BY <1>3, <1>4

\* A table with nothing in it.
LEMMA EmptyTableIs ==
  /\ \A V : EmptyTable \in HashTables(V)
  /\ KeptOnce(EmptyTable) /\ Keys(EmptyTable) = {}
<1>1. ASSUME NEW V
      PROVE  EmptyTable \in HashTables(V)
  BY DEF EmptyTable, HashTables
<1>2. \A h \in DOMAIN EmptyTable : EmptyTable[h] = << >>
  BY DEF EmptyTable
<1>3. DOMAIN << >> = {}
  OBVIOUS
<1>4. KeptOnce(EmptyTable)
  BY <1>2, <1>3 DEF KeptOnce
<1>5. Keys(EmptyTable) = {}
  BY <1>2, <1>3 DEF Keys, ToSet
<1> QED
  BY <1>1, <1>4, <1>5

-----------------------------------------------------------------------------
(* The invariant *)

\* A list whose i-th file stands at x.
Moved(fs, i, x) == [fs EXCEPT ![i] = [name |-> fs[i].name, size |-> fs[i].size,
                                      data |-> fs[i].data, cur_pos |-> x]]

LEMMA MovedIs ==
  ASSUME NEW fs \in Seq(Infos), NEW i \in 1 .. Len(fs), NEW x \in Int
  PROVE  /\ Moved(fs, i, x) \in Seq(Infos) /\ Len(Moved(fs, i, x)) = Len(fs)
         /\ [fs EXCEPT ![i].cur_pos = x] = Moved(fs, i, x)
<1> DEFINE f == [name |-> fs[i].name, size |-> fs[i].size, data |-> fs[i].data, cur_pos |-> x]
<1>1. fs[i] \in Infos
  BY ElementOfSeq
<1>2. f \in Infos /\ f.cur_pos = x /\ [fs[i] EXCEPT !.cur_pos = x] = f
  BY <1>1 DEF Infos
<1>3. [fs EXCEPT ![i].cur_pos = x] = [fs EXCEPT ![i] = f]
  BY <1>2
<1> HIDE DEF f
<1>4. /\ [fs EXCEPT ![i] = f] \in Seq(Infos) /\ Len([fs EXCEPT ![i] = f]) = Len(fs)
      /\ \A j \in 1 .. Len(fs) : [fs EXCEPT ![i] = f][j] = IF j = i THEN f ELSE fs[j]
  BY <1>2, ExceptSeq
<1>5. Moved(fs, i, x) = [fs EXCEPT ![i] = f]
  BY DEF Moved, f
<1> QED
  BY <1>2, <1>3, <1>4, <1>5

LEMMA FoundIs ==
  ASSUME files \in Seq(Infos), NEW path
  PROVE  Found(path) = 0 \/ Found(path) \in 1 .. Len(files)
<1> DEFINE I == {i \in 1 .. Len(files) : SameTo(files[i].name, Below(path))}
<1>1. I \in SUBSET Nat
  BY LenProperties
<1>2. Found(path) = IF I # {} THEN Min(I) ELSE 0
  BY DEF Found, SelectInSeq
<1>3. I # {} => Min(I) \in I
  <2> HIDE DEF I
  <2> QED
    BY <1>1, LeastNat DEF Min
<1> QED
  BY <1>2, <1>3

LEMMA FileInfosIs ==
  ASSUME NEW in \in Inputs
  PROVE  FileInfos(in) \in Seq(Infos) /\ Len(FileInfos(in)) = Len(in)
<1>1. Len(in) \in Nat /\ DOMAIN in = 1 .. Len(in)
  BY InputsAssumption
<1>2. DataStart(in) \in Nat
  BY <1>1, SizesAssumption DEF DataStart
<1>3. FileInfos(in) = [i \in 1 .. Len(in) |->
        [name |-> in[i].name, size |-> in[i].size, data |-> DataStart(in), cur_pos |-> 0]]
  BY <1>1 DEF FileInfos, Headers
<1>4. ASSUME NEW i \in 1 .. Len(in)
      PROVE  [name |-> in[i].name, size |-> in[i].size, data |-> DataStart(in), cur_pos |-> 0]
               \in Infos
  BY <1>1, <1>2, InputsAssumption DEF Infos, Names
<1>5. FileInfos(in) \in [1 .. Len(in) -> Infos]
  BY <1>3, <1>4
<1> HIDE DEF Infos
<1> QED
  BY <1>1, <1>5

\* The file a known descriptor names.
LEMMA FileOfIs ==
  ASSUME IInv, NEW fd \in Fds, Known(fd)
  PROVE  /\ fd \in Keys(open_files) /\ FileOf(fd) \in 1 .. Len(files)
         /\ files[FileOf(fd)] \in Infos
<1>1. fd \in Int
  BY SizesAssumption DEF Fds
<1>2. fd \in Keys(open_files)
  BY <1>1, HasIsKey DEF IInv, TypesOfTables, TablesWhole, Known, Unknown
<1>3. FileOf(fd) \in 1 .. Len(files)
  BY <1>2 DEF IInv, FilesInv, FileOf
<1> QED
  BY <1>2, <1>3, ElementOfSeq DEF IInv, TypeInv

LEMMA InitInv == Init => IInv
<1> SUFFICES ASSUME Init PROVE IInv
  OBVIOUS
<1>1. TypeInv
  <2>1. << >> \in Seq(Infos)
    BY EmptySeq
  <2> QED
    BY <2>1, SizesAssumption DEF Init, TypeInv, Fds
<1>2. TypesOfTables /\ TablesWhole
  BY EmptyTableIs DEF Init, TypesOfTables, TablesWhole
<1>3. FilesInv
  BY EmptyTableIs DEF Init, FilesInv
<1>4. FreshInv
  BY EmptyTableIs DEF Init, FreshInv, Fresh, InUse
<1> QED
  BY <1>1, <1>2, <1>3, <1>4 DEF IInv

\* Nothing that the invariant speaks of changes.
Kept == UNCHANGED <<boot, files, tables, cur_fd, orderly>>

LEMMA KeptInv ==
  ASSUME IInv, Kept
  PROVE  IInv'
<1> USE DEF Kept, boot, tables
<1>1. TypeInv' /\ TypesOfTables'
  BY DEF IInv, TypeInv, TypesOfTables
<1>2. FilesInv'
  BY DEF IInv, FilesInv
<1>3. TablesWhole'
  BY DEF IInv, TablesWhole
<1>4. FreshInv'
  BY DEF IInv, FreshInv, Fresh, InUse
<1> QED
  BY <1>1, <1>2, <1>3, <1>4 DEF IInv

LEMMA BootInv ==
  ASSUME IInv, Mount \/ NoModules \/ MountGarbage
  PROVE  IInv'
<1>1. /\ phase = "boot" /\ UNCHANGED <<input, open_files, openFilesystems, cur_fd, orderly>>
      /\ \/ phase' = "ready" /\ files' = FileInfos(input)
         \/ phase' \in {"halted", "garbage"} /\ files' = files
  BY DEF Mount, NoModules, MountGarbage, tables
<1>2. Keys(open_files) = {}
  <2>1. Len(files) = 0
    BY <1>1 DEF IInv, FilesInv
  <2> QED
    BY <2>1 DEF IInv, FilesInv
<1>3. FileInfos(input) \in Seq(Infos) /\ Len(FileInfos(input)) = Len(input)
  BY FileInfosIs DEF IInv, TypeInv
<1>4. TypeInv' /\ TypesOfTables'
  BY <1>1, <1>3 DEF IInv, TypeInv, TypesOfTables
<1>5. FilesInv'
  BY <1>1, <1>2, <1>3 DEF IInv, FilesInv
<1>6. TablesWhole' /\ FreshInv'
  BY <1>1 DEF IInv, TablesWhole, FreshInv, Fresh, InUse
<1> QED
  BY <1>4, <1>5, <1>6 DEF IInv

LEMMA OpenMissingInv ==
  ASSUME IInv, NEW path \in Paths, OpenMissing(path)
  PROVE  IInv'
<1>1. /\ UNCHANGED <<phase, input, files, open_files, cur_fd, orderly>>
      /\ openFilesystems' = put(openFilesystems, -1, "initrd")
  BY DEF OpenMissing, boot
<1>2. /\ put(openFilesystems, -1, "initrd") \in HashTables({"initrd"})
      /\ KeptOnce(put(openFilesystems, -1, "initrd"))
      /\ Keys(openFilesystems) \subseteq Keys(put(openFilesystems, -1, "initrd"))
  BY PutIs DEF IInv, TypesOfTables, TablesWhole
<1>3. TypeInv' /\ TypesOfTables'
  BY <1>1, <1>2 DEF IInv, TypeInv, TypesOfTables
<1>4. FilesInv' /\ FreshInv'
  BY <1>1 DEF IInv, FilesInv, FreshInv, Fresh, InUse
<1>5. TablesWhole'
  BY <1>1, <1>2 DEF IInv, TablesWhole
<1> QED
  BY <1>3, <1>4, <1>5 DEF IInv

\* What open does to the list and to both tables.
LEMMA OpenIs ==
  ASSUME IInv, NEW path \in Paths, Open(path)
  PROVE  /\ phase' = phase /\ input' = input /\ orderly' = orderly
         /\ Found(path) \in 1 .. Len(files) /\ files' = Moved(files, Found(path), 0)
         /\ cur_fd \in Int /\ cur_fd' = cur_fd + 1 /\ cur_fd' \in Fds
         /\ open_files' \in HashTables(Nat) /\ KeptOnce(open_files')
         /\ Keys(open_files') = Keys(open_files) \cup {cur_fd}
         /\ get(open_files', cur_fd) = Found(path)
         /\ \A d \in Keys(open_files) \ {cur_fd} : get(open_files', d) = get(open_files, d)
         /\ openFilesystems' \in HashTables({"initrd"}) /\ KeptOnce(openFilesystems')
         /\ Keys(openFilesystems') = Keys(openFilesystems) \cup {cur_fd}
<1>1. /\ phase' = phase /\ input' = input /\ orderly' = orderly
      /\ cur_fd < MaxFd /\ cur_fd' = cur_fd + 1 /\ Found(path) # 0
      /\ files' = [files EXCEPT ![Found(path)].cur_pos = 0]
      /\ open_files' = put(open_files, cur_fd, Found(path))
      /\ openFilesystems' = put(openFilesystems, cur_fd, "initrd")
  BY DEF Open, boot, Opened
<1>2. Found(path) \in 1 .. Len(files) /\ Found(path) \in Nat
  BY <1>1, FoundIs DEF IInv, TypeInv
<1>3. files' = Moved(files, Found(path), 0)
  BY <1>1, <1>2, MovedIs DEF IInv, TypeInv
<1>4. cur_fd \in Int /\ cur_fd' \in Fds
  BY <1>1, SizesAssumption DEF IInv, TypeInv, Fds
<1>5. /\ put(open_files, cur_fd, Found(path)) \in HashTables(Nat)
      /\ KeptOnce(put(open_files, cur_fd, Found(path)))
      /\ Keys(put(open_files, cur_fd, Found(path))) = Keys(open_files) \cup {cur_fd}
      /\ get(put(open_files, cur_fd, Found(path)), cur_fd) = Found(path)
      /\ \A d \in Keys(open_files) \ {cur_fd} :
           get(put(open_files, cur_fd, Found(path)), d) = get(open_files, d)
  BY <1>2, <1>4, PutIs DEF IInv, TypesOfTables, TablesWhole
<1>6. /\ put(openFilesystems, cur_fd, "initrd") \in HashTables({"initrd"})
      /\ KeptOnce(put(openFilesystems, cur_fd, "initrd"))
      /\ Keys(put(openFilesystems, cur_fd, "initrd")) = Keys(openFilesystems) \cup {cur_fd}
  BY <1>4, PutIs DEF IInv, TypesOfTables, TablesWhole
<1> QED
  BY <1>1, <1>2, <1>3, <1>4, <1>5, <1>6

LEMMA OpenInv ==
  ASSUME IInv, NEW path \in Paths, Open(path)
  PROVE  IInv'
<1> DEFINE i == Found(path)
<1>1. /\ phase' = phase /\ input' = input /\ orderly' = orderly
      /\ i \in 1 .. Len(files) /\ files' = Moved(files, i, 0)
      /\ cur_fd \in Int /\ cur_fd' = cur_fd + 1 /\ cur_fd' \in Fds
      /\ open_files' \in HashTables(Nat) /\ KeptOnce(open_files')
      /\ Keys(open_files') = Keys(open_files) \cup {cur_fd}
      /\ get(open_files', cur_fd) = i
      /\ \A d \in Keys(open_files) \ {cur_fd} : get(open_files', d) = get(open_files, d)
      /\ openFilesystems' \in HashTables({"initrd"}) /\ KeptOnce(openFilesystems')
      /\ Keys(openFilesystems') = Keys(openFilesystems) \cup {cur_fd}
  BY OpenIs
<1> HIDE DEF i
<1>2. files' \in Seq(Infos) /\ Len(files') = Len(files)
  BY <1>1, MovedIs DEF IInv, TypeInv
<1>3. TypeInv' /\ TypesOfTables'
  BY <1>1, <1>2 DEF IInv, TypeInv, TypesOfTables
<1>4. FilesInv'
  <2>1. \A d \in Keys(open_files) : get(open_files, d) \in 1 .. Len(files)
    BY DEF IInv, FilesInv
  <2>2. \A d \in Keys(open_files') : get(open_files', d) \in 1 .. Len(files')
    BY <1>1, <1>2, <2>1
  <2> QED
    BY <1>1, <1>2, <2>2 DEF IInv, FilesInv
<1>5. TablesWhole'
  BY <1>1 DEF IInv, TablesWhole
<1>6. FreshInv'
  <2>1. orderly => cur_fd \in Nat /\ Keys(open_files) = 0 .. (cur_fd - 1)
    BY DEF IInv, FreshInv, Fresh, InUse
  <2> QED
    BY <1>1, <2>1 DEF FreshInv, Fresh, InUse
<1> QED
  BY <1>3, <1>4, <1>5, <1>6 DEF IInv

\* read and lseek move the position of the descriptor's file.
LEMMA MovesAre ==
  ASSUME IInv, NEW fd \in Fds,
         \/ \E n \in Counts : Read(fd, n)
         \/ \E o \in Offsets, w \in {"SEEK_SET", "SEEK_CUR", "SEEK_END"} : lseek(fd, o, w)
  PROVE  /\ UNCHANGED <<phase, input, open_files, openFilesystems, cur_fd, orderly>>
         /\ Known(fd)
         /\ \E x \in Int :
              /\ files' = Moved(files, FileOf(fd), x)
              /\ \/ x = reply'
                 \/ reply' \in Nat /\ x = files[FileOf(fd)].cur_pos + reply'
<1> DEFINE i == FileOf(fd)
<1>1. CASE \E n \in Counts : Read(fd, n)
  <2>1. PICK n \in Counts : Read(fd, n)
    BY <1>1
  <2>2. Known(fd) /\ reply' = n /\ files' = [files EXCEPT ![i].cur_pos = @ + n]
    BY <2>1 DEF Read
  <2>3. i \in 1 .. Len(files) /\ files[i].cur_pos \in Int
    BY <2>2, FileOfIs DEF Infos
  <2>4. n \in Nat /\ files[i].cur_pos + n \in Int
    BY <2>3, CallsAssumption
  <2>5. files' = Moved(files, i, files[i].cur_pos + n)
    <3>1. files' = [files EXCEPT ![i].cur_pos = files[i].cur_pos + n]
      BY <2>2
    <3> HIDE DEF i
    <3> QED
      BY <2>3, <2>4, <3>1, MovedIs DEF IInv, TypeInv
  <2>6. UNCHANGED <<phase, input, open_files, openFilesystems, cur_fd, orderly>>
    BY <2>1 DEF Read, boot, tables
  <2> QED
    BY <2>2, <2>4, <2>5, <2>6
<1>2. CASE \E o \in Offsets, w \in {"SEEK_SET", "SEEK_CUR", "SEEK_END"} : lseek(fd, o, w)
  <2>1. PICK o \in Offsets, w \in {"SEEK_SET", "SEEK_CUR", "SEEK_END"} : lseek(fd, o, w)
    BY <1>2
  <2>2. PICK x \in MinPos .. MaxPos : files' = [files EXCEPT ![i].cur_pos = x] /\ reply' = x
    BY <2>1 DEF lseek, Replies
  <2>3. Known(fd) /\ UNCHANGED <<phase, input, open_files, openFilesystems, cur_fd, orderly>>
    BY <2>1 DEF lseek, boot, tables
  <2>4. i \in 1 .. Len(files) /\ x \in Int
    BY <2>3, FileOfIs, SizesAssumption
  <2>5. files' = Moved(files, i, x)
    <3> HIDE DEF i
    <3> QED
      BY <2>2, <2>4, MovedIs DEF IInv, TypeInv
  <2> QED
    BY <2>2, <2>3, <2>4, <2>5
<1> QED
  BY <1>1, <1>2

LEMMA MovesInv ==
  ASSUME IInv, NEW fd \in Fds,
         \/ \E n \in Counts : Read(fd, n)
         \/ \E o \in Offsets, w \in {"SEEK_SET", "SEEK_CUR", "SEEK_END"} : lseek(fd, o, w)
  PROVE  IInv'
<1>1. /\ UNCHANGED <<phase, input, open_files, openFilesystems, cur_fd, orderly>>
      /\ Known(fd) /\ \E x \in Int : files' = Moved(files, FileOf(fd), x)
  BY MovesAre
<1>2. FileOf(fd) \in 1 .. Len(files)
  BY <1>1, FileOfIs
<1>3. files' \in Seq(Infos) /\ Len(files') = Len(files)
  BY <1>1, <1>2, MovedIs DEF IInv, TypeInv
<1>4. TypeInv' /\ TypesOfTables'
  BY <1>1, <1>3 DEF IInv, TypeInv, TypesOfTables
<1>5. FilesInv'
  BY <1>1, <1>3 DEF IInv, FilesInv
<1>6. TablesWhole' /\ FreshInv'
  BY <1>1 DEF IInv, TablesWhole, FreshInv, Fresh, InUse
<1> QED
  BY <1>4, <1>5, <1>6 DEF IInv

LEMMA CloseInv ==
  ASSUME IInv, NEW fd \in Fds, close(fd)
  PROVE  IInv'
<1>1. /\ UNCHANGED <<phase, input, files, openFilesystems>> /\ Known(fd)
      /\ cur_fd > MinFd /\ cur_fd' = cur_fd - 1
      /\ open_files' = remove(open_files, fd) /\ orderly' = (orderly /\ fd = cur_fd - 1)
  BY DEF close, CountDown, boot
<1>2. fd \in Int /\ fd \in Keys(open_files)
  BY <1>1, FileOfIs, SizesAssumption DEF Fds
<1>3. /\ open_files' \in HashTables(Nat) /\ KeptOnce(open_files')
      /\ Keys(open_files') = Keys(open_files) \ {fd}
      /\ \A d \in Keys(open_files) \ {fd} : get(open_files', d) = get(open_files, d)
  <2>1. /\ remove(open_files, fd) \in HashTables(Nat) /\ KeptOnce(remove(open_files, fd))
        /\ Keys(remove(open_files, fd)) = Keys(open_files) \ {fd}
        /\ \A d \in Keys(open_files) \ {fd} :
             get(remove(open_files, fd), d) = get(open_files, d)
    BY <1>2, RemoveIs DEF IInv, TypesOfTables, TablesWhole
  <2> QED
    BY <1>1, <2>1
<1>4. cur_fd' \in Fds /\ cur_fd \in Int
  BY <1>1, SizesAssumption DEF IInv, TypeInv, Fds
<1>5. TypeInv' /\ TypesOfTables'
  BY <1>1, <1>3, <1>4 DEF IInv, TypeInv, TypesOfTables
<1>6. FilesInv'
  BY <1>1, <1>3 DEF IInv, FilesInv
<1>7. TablesWhole'
  BY <1>1, <1>3 DEF IInv, TablesWhole
<1>8. FreshInv'
  <2>1. orderly => cur_fd \in Nat /\ Keys(open_files) = 0 .. (cur_fd - 1)
    BY DEF IInv, FreshInv, Fresh, InUse
  <2>2. ASSUME orderly'
        PROVE  cur_fd' \in Nat /\ Keys(open_files') = 0 .. (cur_fd' - 1)
    <3>1. orderly /\ fd = cur_fd - 1
      BY <1>1, <2>2
    <3>2. fd \in 0 .. (cur_fd - 1) /\ Keys(open_files') = (0 .. (cur_fd - 1)) \ {fd}
      BY <1>2, <1>3, <2>1, <3>1
    <3>3. cur_fd \in Nat /\ cur_fd' = fd /\ cur_fd' \in Nat
      BY <1>1, <2>1, <3>1, <3>2
    <3>4. (0 .. (cur_fd - 1)) \ {fd} = 0 .. (cur_fd' - 1)
      BY <3>1, <3>3
    <3> QED
      BY <3>2, <3>3, <3>4
  <2> QED
    BY <2>2 DEF FreshInv, Fresh, InUse
<1> QED
  BY <1>5, <1>6, <1>7, <1>8 DEF IInv

LEMMA CloseUnknownInv ==
  ASSUME IInv, NEW fd \in Fds, CloseUnknown(fd)
  PROVE  IInv'
<1>1. CASE CountDown /\ orderly' = FALSE
  <2>1. /\ UNCHANGED <<phase, input, files, open_files, openFilesystems>>
        /\ cur_fd > MinFd /\ cur_fd' = cur_fd - 1 /\ orderly' = FALSE
    BY <1>1 DEF CloseUnknown, CountDown, boot, tables
  <2>2. cur_fd' \in Fds
    BY <2>1, SizesAssumption DEF IInv, TypeInv, Fds
  <2>3. TypeInv' /\ TypesOfTables'
    BY <2>1, <2>2 DEF IInv, TypeInv, TypesOfTables
  <2>4. FilesInv' /\ TablesWhole' /\ FreshInv'
    BY <2>1 DEF IInv, FilesInv, TablesWhole, FreshInv, Fresh, InUse
  <2> QED
    BY <2>3, <2>4 DEF IInv
<1>2. CASE UNCHANGED <<cur_fd, orderly>>
  BY <1>2, KeptInv DEF CloseUnknown, Kept
<1> QED
  BY <1>1, <1>2 DEF CloseUnknown

\* The other calls change nothing but their reply.
LEMMA OthersKeep ==
  ASSUME \/ \E path \in Paths : OpenOutside(path)
         \/ \E fd \in Fds, n \in Counts : ReadRefused(fd, n)
         \/ \E fd \in Fds : tell(fd) \/ ReadUnknown(fd)
         \/ UNCHANGED vars
  PROVE  Kept
BY DEF OpenOutside, ReadRefused, tell, ReadUnknown, vars, Kept, boot, tables

\* The invariant holds initially, and every step keeps it.
THEOREM InductiveInvariant == Spec => []IInv
<1>1. Init => IInv
  BY InitInv
<1>2. IInv /\ [Next]_vars => IInv'
  <2> SUFFICES ASSUME IInv, [Next]_vars
               PROVE  IInv'
    OBVIOUS
  <2>1. CASE Mount \/ NoModules \/ MountGarbage
    BY <2>1, BootInv
  <2>2. CASE \E path \in Paths : OpenMissing(path)
    BY <2>2, OpenMissingInv
  <2>3. CASE \E path \in Paths : Open(path)
    BY <2>3, OpenInv
  <2>4. CASE \/ \E fd \in Fds, n \in Counts : Read(fd, n)
             \/ \E fd \in Fds, o \in Offsets, w \in {"SEEK_SET", "SEEK_CUR", "SEEK_END"} :
                  lseek(fd, o, w)
    BY <2>4, MovesInv
  <2>5. CASE \E fd \in Fds : close(fd)
    BY <2>5, CloseInv
  <2>6. CASE \E fd \in Fds : CloseUnknown(fd)
    BY <2>6, CloseUnknownInv
  <2>7. CASE \/ \E path \in Paths : OpenOutside(path)
             \/ \E fd \in Fds, n \in Counts : ReadRefused(fd, n)
             \/ \E fd \in Fds : tell(fd) \/ ReadUnknown(fd)
             \/ UNCHANGED vars
    BY <2>7, OthersKeep, KeptInv
  <2> QED
    BY <2>1, <2>2, <2>3, <2>4, <2>5, <2>6, <2>7 DEF Next
<1> QED
  BY <1>1, <1>2, PTL DEF Spec

\* Callers that close the newest descriptor first are never handed one that
\* is in use; the first that does not is handed one next, or has driven the counter below
\* zero (initrd.cpp:110-112, 133-144).
THEOREM DescriptorsAreFresh == Spec => DescriptorsFresh
<1> DEFINE Disorder == orderly /\ ~orderly' => cur_fd' < 0 \/ cur_fd' \in InUse'
<1>1. IInv' => Fresh'
  BY DEF IInv, FreshInv
<1>2. IInv /\ [Next]_vars => [Disorder]_vars
  <2> SUFFICES ASSUME IInv, [Next]_vars, orderly, ~orderly'
               PROVE  cur_fd' < 0 \/ cur_fd' \in InUse'
    OBVIOUS
  <2>1. cur_fd \in Nat /\ Keys(open_files) = 0 .. (cur_fd - 1)
    BY DEF IInv, FreshInv, Fresh, InUse
  <2>2. CASE \E fd \in Fds : close(fd)
    <3>1. PICK fd \in Fds : close(fd)
      BY <2>2
    <3>2. /\ Known(fd) /\ cur_fd' = cur_fd - 1 /\ fd # cur_fd - 1
          /\ open_files' = remove(open_files, fd)
      BY <3>1 DEF close, CountDown
    <3>3. fd \in Int /\ fd \in Keys(open_files)
      BY <3>2, FileOfIs, SizesAssumption DEF Fds
    <3>4. Keys(open_files') = Keys(open_files) \ {fd}
      <4>1. Keys(remove(open_files, fd)) = Keys(open_files) \ {fd}
        BY <3>3, RemoveIs DEF IInv, TypesOfTables, TablesWhole
      <4> QED
        BY <3>2, <4>1
    <3>5. cur_fd - 1 \in 0 .. (cur_fd - 1)
      BY <2>1, <3>3
    <3> QED
      BY <2>1, <3>2, <3>4, <3>5 DEF InUse
  <2>3. CASE \E fd \in Fds : CloseUnknown(fd)
    <3>1. cur_fd' = cur_fd - 1 /\ open_files' = open_files
      BY <2>3 DEF CloseUnknown, CountDown, tables
    <3> QED
      BY <2>1, <3>1 DEF InUse
  <2>4. orderly' # orderly
    OBVIOUS
  <2>5. ~UNCHANGED vars
    BY <2>4 DEF vars
  <2> QED
    BY <2>2, <2>3, <2>4, <2>5
      DEF Next, Mount, NoModules, MountGarbage, OpenOutside, OpenMissing, Open, ReadRefused, Read,
          lseek, tell, ReadUnknown
<1>3. IInv /\ IInv' /\ [Next]_vars => [Fresh' /\ Disorder]_vars
  BY <1>1, <1>2
<1> QED
  BY <1>3, InductiveInvariant, PTL DEF Spec, DescriptorsFresh

\* Whatever is opened, read and closed, both hash tables hold a key once and
\* in its chain, and VFS knows every descriptor that Initrd knows
\* (hash.h:61-131, vfs.cpp:47-48).
THEOREM TablesAreWhole == Spec => []TablesWhole
<1>1. IInv => TablesWhole
  BY DEF IInv
<1> QED
  BY <1>1, InductiveInvariant, PTL

-----------------------------------------------------------------------------
(* Where reads lie *)

\* Positions are those callers seek or lie in their file, whose size is the
\* one the image was made with and whose bytes begin where the first file's do;
\* a read has been of a file of the list.
PositionsInv ==
  \A i \in 1 .. Len(files) :
    /\ files[i].size = input[i].size /\ files[i].data = DataStart(input)
    /\ files[i].cur_pos \in MinPos .. MaxPos \/ files[i].cur_pos \in 0 .. files[i].size

GotInv ==
  /\ got.count > 0 => got.file \in 1 .. Len(files)
  /\ phase = "boot" => got = Nothing

ReadInv == PositionsInv /\ GotInv /\ ReadsStayInside

\* A call that moves no file and delivers nothing, or does nothing at all.
LEMMA NothingRead ==
  ASSUME ReadInv, files' = files, input' = input,
         got' = Nothing \/ (got' = got /\ (phase' = "boot" => phase = "boot"))
  PROVE  ReadInv'
<1>1. PositionsInv'
  BY DEF ReadInv, PositionsInv
<1>2. CASE got' = Nothing
  <2>1. ~ (got'.count > 0)
    BY <1>2 DEF Nothing
  <2> QED
    BY <1>1, <1>2, <2>1 DEF ReadInv, GotInv, ReadsStayInside
<1>3. CASE got' = got /\ (phase' = "boot" => phase = "boot")
  BY <1>1, <1>3 DEF ReadInv, GotInv, ReadsStayInside, Extent
<1> QED
  BY <1>2, <1>3

\* A file that is moved keeps its size and its bytes, as all others do.
LEMMA MovedKeeps ==
  ASSUME NEW fs \in Seq(Infos), NEW i \in 1 .. Len(fs), NEW x \in Int,
         NEW j \in 1 .. Len(fs)
  PROVE  /\ Moved(fs, i, x)[j].size = fs[j].size /\ Moved(fs, i, x)[j].data = fs[j].data
         /\ Moved(fs, i, x)[j].cur_pos = IF j = i THEN x ELSE fs[j].cur_pos
<1>1. i \in DOMAIN fs /\ j \in DOMAIN fs
  BY LenProperties
<1>2. CASE j = i
  BY <1>1, <1>2 DEF Moved
<1>3. CASE j # i
  BY <1>1, <1>3 DEF Moved
<1> QED
  BY <1>2, <1>3

LEMMA MovedPositions ==
  ASSUME IInv, PositionsInv, input' = input, NEW i \in 1 .. Len(files), NEW x \in Int,
         files' = Moved(files, i, x), x \in MinPos .. MaxPos \/ x \in 0 .. files[i].size
  PROVE  PositionsInv' /\ Len(files') = Len(files)
<1>1. files \in Seq(Infos)
  BY DEF IInv, TypeInv
<1>2. Len(files') = Len(files)
  BY <1>1, MovedIs
<1>3. ASSUME NEW j \in 1 .. Len(files)
      PROVE  /\ files'[j].size = input'[j].size /\ files'[j].data = DataStart(input)'
             /\ files'[j].cur_pos \in MinPos .. MaxPos \/ files'[j].cur_pos \in 0 .. files'[j].size
  <2>1. /\ files'[j].size = files[j].size /\ files'[j].data = files[j].data
        /\ files'[j].cur_pos = IF j = i THEN x ELSE files[j].cur_pos
    BY <1>1, MovedKeeps
  <2>2. DataStart(input)' = DataStart(input)
    BY DEF DataStart
  <2> QED
    BY <2>1, <2>2 DEF PositionsInv
<1> QED
  BY <1>2, <1>3 DEF PositionsInv

\* The unsigned check of read: the bytes lie in the file, or the position was
\* below zero and the count reaches back over it.
LEMMA UnsignedCheck ==
  ASSUME NEW c \in Int, NEW n \in Nat, NEW size \in Nat, NEW k \in Nat \ {0},
         (n + c) % k <= size, c < 0 => size - c < k, n + c < k
  PROVE  c + n <= size /\ (c < 0 => 0 <= c + n)
<1>1. CASE 0 <= n + c
  <2>1. (n + c) % k = n + c
    BY <1>1
  <2> QED
    BY <1>1, <2>1
<1>2. CASE n + c < 0
  <2> DEFINE a == n + c
             r == n + c + k
  <2>1. r \in 0 .. (k - 1) /\ a = (-1) * k + r /\ a \in Int
    BY <1>2
  <2>2. \A b \in Int : \A s \in 0 .. (k - 1) : b = (-1) * k + s => b % k = s
    OBVIOUS
  <2> HIDE DEF a, r
  <2>3. a % k = r
    BY <2>1, <2>2
  <2>4. r <= size
    BY <2>3 DEF a
  <2> QED
    BY <1>2, <2>4 DEF r
<1> QED
  BY <1>1, <1>2

LEMMA ReadIsInside ==
  ASSUME IInv, ReadInv, NEW fd \in Fds, NEW n \in Counts, Read(fd, n)
  PROVE  ReadInv'
<1> DEFINE i == FileOf(fd)
           f == files[i]
           c == files[i].cur_pos
           x == c + n
<1>1. /\ Known(fd) /\ Fits(f, n) /\ files' = [files EXCEPT ![i].cur_pos = c + n]
      /\ got' = [file |-> i, at |-> f.data + c, count |-> n]
      /\ phase' = phase /\ input' = input /\ phase = "ready"
  BY DEF Read, boot, Known
<1>2. i \in 1 .. Len(files) /\ f \in Infos
  BY <1>1, FileOfIs
<1>3. f.size \in Nat /\ f.data \in Nat /\ c \in Int /\ n \in Nat /\ x \in Int
  BY <1>2, CallsAssumption DEF Infos
<1>4. files' = Moved(files, i, x)
  <2> HIDE DEF i
  <2> QED
    BY <1>1, <1>2, <1>3, MovedIs DEF IInv, TypeInv
<1>5. f.size = input[i].size /\ (c \in MinPos .. MaxPos \/ c \in 0 .. f.size)
  BY <1>2 DEF ReadInv, PositionsInv
<1>6. /\ f.size - MinPos < Word /\ n + MaxPos < Word /\ n + f.size < Word
  <2>1. input \in Inputs /\ i \in DOMAIN input
    <3>1. DOMAIN input = 1 .. Len(input) /\ input \in Inputs
      BY InputsAssumption DEF IInv, TypeInv
    <3>2. Len(files) = Len(input)
      BY <1>1 DEF IInv, FilesInv
    <3> QED
      BY <1>2, <3>1, <3>2
  <2> QED
    BY <1>5, <2>1, NumbersAssumption
<1>7. x <= f.size /\ (c < 0 => 0 <= x)
  <2>1. (n + c) % Word <= f.size
    BY <1>1 DEF Fits
  <2>2. (c < 0 => f.size - c < Word) /\ n + c < Word
    BY <1>3, <1>5, <1>6, SizesAssumption
  <2> DEFINE z == f.size
             k == Word
  <2>3. k \in Nat \ {0} /\ z \in Nat
    BY <1>3, SizesAssumption
  <2> HIDE DEF c, z, k
  <2>4. c \in Int /\ n \in Nat /\ (n + c) % k <= z /\ (c < 0 => z - c < k) /\ n + c < k
    BY <1>3, <2>1, <2>2 DEF z, k
  <2>5. c + n <= z /\ (c < 0 => 0 <= c + n)
    BY <2>3, <2>4, UnsignedCheck
  <2> QED
    BY <2>5 DEF z
<1> HIDE DEF f, c, x, i
<1>8. x \in MinPos .. MaxPos \/ x \in 0 .. f.size
  BY <1>3, <1>5, <1>7 DEF x
<1>9. PositionsInv' /\ Len(files') = Len(files)
  BY <1>1, <1>2, <1>3, <1>4, <1>8, MovedPositions DEF ReadInv, f
<1>10. files'[i].size = f.size /\ files'[i].data = f.data
  BY <1>2, <1>3, <1>4, MovedKeeps DEF IInv, TypeInv, f
<1>11. got'.file = i /\ got'.at = f.data + c /\ got'.count = n
  BY <1>1 DEF f, c
<1>12. ReadsStayInside'
  <2> DEFINE bytes == (f.data + c) .. (f.data + c + n - 1)
  <2>1. CASE n > 0 /\ c >= 0
    <3>1. f.data + c >= f.data /\ bytes \subseteq f.data .. (f.data + f.size - 1)
      BY <1>3, <1>7, <2>1 DEF x
    <3> QED
      BY <1>10, <1>11, <3>1 DEF ReadsStayInside, Extent
  <2>2. CASE n > 0 /\ c < 0
    <3>1. ~ (f.data + c >= f.data) /\ f.data - 1 \in bytes
      BY <1>3, <1>7, <2>2 DEF x
    <3> QED
      BY <1>10, <1>11, <3>1 DEF ReadsStayInside
  <2>3. CASE ~ (n > 0)
    BY <1>11, <2>3 DEF ReadsStayInside
  <2> QED
    BY <1>3, <2>1, <2>2, <2>3
<1> QED
  BY <1>1, <1>2, <1>9, <1>11, <1>12 DEF ReadInv, GotInv

LEMMA MountReads ==
  ASSUME IInv, ReadInv, Mount
  PROVE  ReadInv'
<1>1. /\ phase = "boot" /\ phase' = "ready" /\ files' = FileInfos(input)
      /\ input' = input /\ got' = got
  BY DEF Mount
<1>2. got' = Nothing
  BY <1>1 DEF ReadInv, GotInv
<1>3. ~ (got'.count > 0)
  BY <1>2 DEF Nothing
<1>4. input \in Inputs /\ Len(FileInfos(input)) = Len(input)
  BY FileInfosIs DEF IInv, TypeInv
<1>5. Len(input) \in Nat /\ DOMAIN input = 1 .. Len(input)
      /\ \A i \in 1 .. Len(input) : input[i].size \in Nat
  BY <1>4, InputsAssumption
<1>6. \A i \in 1 .. Len(input) :
        /\ files'[i].size = input[i].size /\ files'[i].cur_pos = 0
        /\ files'[i].data = DataStart(input)
  BY <1>1, <1>5 DEF FileInfos, Headers
<1>7. DataStart(input)' = DataStart(input)
  BY <1>1 DEF DataStart
<1>8. PositionsInv'
  BY <1>1, <1>4, <1>5, <1>6, <1>7, SizesAssumption DEF PositionsInv
<1> QED
  BY <1>1, <1>3, <1>8 DEF ReadInv, GotInv, ReadsStayInside

\* A call that moves a file and reads nothing.
LEMMA MoveReads ==
  ASSUME IInv, ReadInv, input' = input, phase' = phase, got' = Nothing,
         NEW i \in 1 .. Len(files), NEW x \in Int, files' = Moved(files, i, x),
         x \in MinPos .. MaxPos
  PROVE  ReadInv'
<1>1. PositionsInv'
  BY MovedPositions DEF ReadInv
<1>2. ~ (got'.count > 0)
  BY DEF Nothing
<1> QED
  BY <1>1, <1>2 DEF ReadInv, GotInv, ReadsStayInside

LEMMA SeekReads ==
  ASSUME IInv, ReadInv, NEW fd \in Fds, NEW o \in Offsets,
         NEW w \in {"SEEK_SET", "SEEK_CUR", "SEEK_END"}, lseek(fd, o, w)
  PROVE  ReadInv'
<1> DEFINE i == FileOf(fd)
<1>1. PICK x \in MinPos .. MaxPos : files' = [files EXCEPT ![i].cur_pos = x] /\ reply' = x
  BY DEF lseek, Replies
<1>2. Known(fd) /\ phase' = phase /\ input' = input /\ got' = Nothing
  BY DEF lseek, boot, Replies
<1>3. i \in 1 .. Len(files) /\ x \in Int
  BY <1>2, FileOfIs, SizesAssumption
<1> HIDE DEF i
<1>4. files' = Moved(files, i, x)
  BY <1>1, <1>3, MovedIs DEF IInv, TypeInv
<1> QED
  BY <1>1, <1>2, <1>3, <1>4, MoveReads

LEMMA OpenReads ==
  ASSUME IInv, ReadInv, NEW path \in Paths, Open(path)
  PROVE  ReadInv'
<1> DEFINE i == Found(path)
<1>1. phase' = phase /\ input' = input /\ i \in 1 .. Len(files) /\ files' = Moved(files, i, 0)
  BY OpenIs
<1>2. got' = Nothing
  BY DEF Open, Replies
<1>3. 0 \in MinPos .. MaxPos /\ 0 \in Int
  BY SizesAssumption
<1> HIDE DEF i
<1> QED
  BY <1>1, <1>2, <1>3, MoveReads

\* The other steps move no file.
LEMMA OthersRead ==
  ASSUME ReadInv,
         \/ NoModules \/ MountGarbage
         \/ \E path \in Paths : OpenOutside(path) \/ OpenMissing(path)
         \/ \E fd \in Fds, n \in Counts : ReadRefused(fd, n)
         \/ \E fd \in Fds : tell(fd) \/ ReadUnknown(fd) \/ close(fd) \/ CloseUnknown(fd)
         \/ UNCHANGED vars
  PROVE  ReadInv'
<1>1. files' = files /\ input' = input
  BY DEF NoModules, MountGarbage, OpenOutside, OpenMissing, ReadRefused, tell, ReadUnknown,
         close, CloseUnknown, vars, boot, tables
<1>2. got' = Nothing \/ (got' = got /\ (phase' = "boot" => phase = "boot"))
  BY DEF NoModules, MountGarbage, OpenOutside, OpenMissing, ReadRefused, Refused, Replies, tell,
         ReadUnknown, close, CloseUnknown, vars
<1> QED
  BY <1>1, <1>2, NothingRead

\* Every step keeps what is known of reads.
LEMMA ReadInvariant == Spec => []ReadInv
<1>1. Init => ReadInv
  <2> SUFFICES ASSUME Init PROVE ReadInv
    OBVIOUS
  <2>1. files = << >> /\ got = Nothing /\ ~ (got.count > 0)
    BY DEF Init, Nothing
  <2>2. Len(files) = 0
    BY <2>1
  <2>3. PositionsInv
    BY <2>2 DEF PositionsInv
  <2> QED
    BY <2>1, <2>3 DEF ReadInv, GotInv, ReadsStayInside
<1>2. IInv /\ ReadInv /\ [Next]_vars => ReadInv'
  <2> SUFFICES ASSUME IInv, ReadInv, [Next]_vars
               PROVE  ReadInv'
    OBVIOUS
  <2>1. CASE Mount
    BY <2>1, MountReads
  <2>2. CASE \E path \in Paths : Open(path)
    BY <2>2, OpenReads
  <2>3. CASE \E fd \in Fds, n \in Counts : Read(fd, n)
    BY <2>3, ReadIsInside
  <2>4. CASE \E fd \in Fds, o \in Offsets, w \in {"SEEK_SET", "SEEK_CUR", "SEEK_END"} :
               lseek(fd, o, w)
    BY <2>4, SeekReads
  <2>5. CASE \/ NoModules \/ MountGarbage
             \/ \E path \in Paths : OpenOutside(path) \/ OpenMissing(path)
             \/ \E fd \in Fds, n \in Counts : ReadRefused(fd, n)
             \/ \E fd \in Fds : tell(fd) \/ ReadUnknown(fd) \/ close(fd) \/ CloseUnknown(fd)
             \/ UNCHANGED vars
    BY <2>5, OthersRead
  <2> QED
    BY <2>1, <2>2, <2>3, <2>4, <2>5 DEF Next
<1> QED
  BY <1>1, <1>2, InductiveInvariant, PTL DEF Spec

\* A read that succeeds lies inside its file, unless a position below zero made
\* the sum in read's check wrap (initrd.cpp:121-127).
THEOREM ReadsAreInside == Spec => []ReadsStayInside
<1>1. ReadInv => ReadsStayInside
  BY DEF ReadInv
<1> QED
  BY <1>1, ReadInvariant, PTL

-----------------------------------------------------------------------------
(* Where the bytes of each file are in the image *)

\* The first n of some sequences are empty.
EmptyTo(s, n) == \A j \in 1 .. n : s[j] = <<>>

\* In u, which the first n of s make, an element <<i, m>> stands at its own place
\* m exactly if nothing comes before s[i], which is then where u begins.
Placed(s, u, n) ==
  /\ u \in Seq(Nat \X Nat)
  /\ u = <<>> <=> EmptyTo(s, n)
  /\ \A k \in 1 .. Len(u) :
       u[k][1] \in 1 .. n /\ (u[k][2] = k <=> EmptyTo(s, u[k][1] - 1))
  /\ \A i \in 1 .. n : EmptyTo(s, i - 1) => Begins(s[i], u)

\* Sequences whose elements are named for them.
NamedParts(s) ==
  /\ s \in Seq(Seq(Nat \X Nat))
  /\ \A i \in 1 .. Len(s) : \A m \in 1 .. Len(s[i]) : s[i][m] = <<i, m>>

LEMMA PlacedFirst ==
  ASSUME NEW s, NamedParts(s), Len(s) > 0
  PROVE  Placed(s, s[1], 1)
<1>1. 1 \in 1 .. Len(s) /\ s[1] \in Seq(Nat \X Nat) /\ Len(s[1]) \in Nat
  BY DEF NamedParts
<1>2. \A k \in 1 .. Len(s[1]) : s[1][k] = <<1, k>>
  BY <1>1 DEF NamedParts
<1>3. EmptyTo(s, 0) /\ (EmptyTo(s, 1) <=> s[1] = <<>>)
  BY DEF EmptyTo
<1>4. \A k \in 1 .. Len(s[1]) : s[1][k][1] = 1 /\ s[1][k][2] = k
  BY <1>2
<1>5. Begins(s[1], s[1])
  BY <1>1 DEF Begins
<1> QED
  BY <1>1, <1>3, <1>4, <1>5 DEF Placed

LEMMA PlacedNext ==
  ASSUME NEW s, NamedParts(s), NEW n \in Nat \ {0}, n + 1 <= Len(s), NEW u, Placed(s, u, n)
  PROVE  Placed(s, u \o s[n + 1], n + 1)
<1> DEFINE v == s[n + 1]
           w == u \o v
<1>1. n + 1 \in 1 .. Len(s) /\ v \in Seq(Nat \X Nat) /\ u \in Seq(Nat \X Nat)
  BY DEF NamedParts, Placed
<1>2. \A m \in 1 .. Len(v) : v[m] = <<n + 1, m>>
  BY <1>1 DEF NamedParts
<1>3. EmptyTo(s, n + 1) <=> EmptyTo(s, n) /\ v = <<>>
  <2>1. 1 .. (n + 1) = (1 .. n) \cup {n + 1}
    OBVIOUS
  <2> QED
    BY <2>1 DEF EmptyTo
<1>4. (n + 1) - 1 = n
  OBVIOUS
<1> HIDE DEF v
<1>5. /\ w \in Seq(Nat \X Nat) /\ Len(w) = Len(u) + Len(v) /\ Len(u) \in Nat /\ Len(v) \in Nat
      /\ \A j \in 1 .. Len(u) : w[j] = u[j]
      /\ \A j \in 1 .. Len(v) : w[Len(u) + j] = v[j]
  BY <1>1, Concatenated
<1>6. (u = <<>> <=> Len(u) = 0) /\ (v = <<>> <=> Len(v) = 0) /\ (w = <<>> <=> Len(w) = 0)
  BY <1>1, <1>5
<1> HIDE DEF w
<1>7. w = <<>> <=> EmptyTo(s, n + 1)
  BY <1>3, <1>5, <1>6 DEF Placed
<1>8. ASSUME NEW k \in 1 .. Len(w)
      PROVE  w[k][1] \in 1 .. (n + 1) /\ (w[k][2] = k <=> EmptyTo(s, w[k][1] - 1))
  <2>1. CASE k <= Len(u)
    <3>1. k \in 1 .. Len(u) /\ w[k] = u[k]
      BY <1>5, <2>1
    <3> QED
      BY <3>1 DEF Placed
  <2>2. CASE k > Len(u)
    <3> DEFINE m == k - Len(u)
    <3>1. m \in 1 .. Len(v) /\ k = Len(u) + m
      BY <1>5, <2>2
    <3> HIDE DEF m
    <3>2. w[k] = <<n + 1, m>>
      BY <1>2, <1>5, <3>1
    <3>3. w[k][1] = n + 1 /\ w[k][2] = m
      BY <3>2
    <3>4. m = k <=> Len(u) = 0
      <4>1. m \in Int /\ Len(u) \in Nat /\ k = Len(u) + m
        BY <1>5, <3>1
      <4> QED
        BY <4>1
    <3> QED
      BY <1>4, <1>6, <3>3, <3>4 DEF Placed
  <2> QED
    BY <1>5, <2>1, <2>2
<1>9. ASSUME NEW i \in 1 .. (n + 1), EmptyTo(s, i - 1)
      PROVE  Begins(s[i], w)
  <2>1. CASE i \in 1 .. n
    <3>1. Begins(s[i], u) /\ s[i] \in Seq(Nat \X Nat)
      BY <1>9, <2>1 DEF Placed, NamedParts
    <3> QED
      BY <1>1, <3>1, BeginsOn DEF w
  <2>2. CASE i = n + 1
    <3>1. Len(u) = 0 /\ s[i] = v
      BY <1>4, <1>6, <1>9, <2>2 DEF Placed, v
    <3>2. \A j \in 1 .. Len(v) : w[j] = v[j]
      BY <1>5, <3>1
    <3> QED
      BY <1>5, <3>1, <3>2 DEF Begins
  <2> QED
    BY <2>1, <2>2
<1>10. Placed(s, w, n + 1)
  BY <1>5, <1>7, <1>8, <1>9 DEF Placed
<1> QED
  BY <1>10 DEF w, v

LEMMA JoinPlaced ==
  ASSUME NEW s, NamedParts(s), NEW f, JoinOf(f, s, Len(s))
  PROVE  \A n \in 1 .. Len(s) : Placed(s, f[n], n)
<1> DEFINE T == {n \in Nat : n \in 1 .. Len(s) => Placed(s, f[n], n)}
<1>1. 0 \in T
  OBVIOUS
<1>2. ASSUME NEW k \in Nat, k \in T
      PROVE  k + 1 \in T
  <2> DEFINE n == k + 1
  <2> SUFFICES ASSUME n \in 1 .. Len(s)
               PROVE  Placed(s, f[n], n)
    OBVIOUS
  <2>1. n - 1 = k /\ (n # 1 => k \in 1 .. Len(s)) /\ n <= Len(s) /\ n \in Nat
        /\ Len(s) > 0
    BY DEF NamedParts
  <2>2. n # 1 => Placed(s, f[k], k)
    BY <1>2, <2>1
  <2>3. f[n] = IF n = 1 THEN s[n] ELSE f[n - 1] \o s[n]
    BY <2>1 DEF JoinOf
  <2>4. CASE n = 1
    <3>1. f[n] = s[1]
      BY <2>3, <2>4
    <3> QED
      BY <2>1, <2>4, <3>1, PlacedFirst
  <2>5. CASE n # 1
    <3>1. k \in Nat \ {0} /\ k + 1 <= Len(s)
      BY <2>1, <2>5
    <3>2. f[n] = f[k] \o s[k + 1] /\ Placed(s, f[k], k)
      <4>1. f[n] = f[n - 1] \o s[n] /\ Placed(s, f[k], k)
        BY <2>2, <2>3, <2>5
      <4>2. n - 1 = k
        BY <2>1
      <4> HIDE DEF n
      <4>3. f[n] = f[k] \o s[n]
        BY <4>1, <4>2
      <4> QED
        BY <4>1, <4>3 DEF n
    <3>3. Placed(s, f[k] \o s[k + 1], k + 1)
      BY <3>1, <3>2, PlacedNext
    <3> QED
      BY <3>2, <3>3
  <2> QED
    BY <2>4, <2>5
<1>3. T = Nat
  <2> HIDE DEF T
  <2>1. T \in SUBSET Nat
    BY DEF T
  <2> QED
    BY <1>1, <1>2, <2>1, NatInduct
<1> QED
  BY <1>3

\* The k-th byte is the k-th of file i exactly if no file before i has any.
LEMMA BytesPlaced ==
  ASSUME NEW in \in Inputs, NEW i \in DOMAIN in, NEW k \in 1 .. in[i].size
  PROVE  k \in DOMAIN FileBytes(in) /\ FileBytes(in)[k] = <<i, k>>
           <=> \A j \in 1 .. (i - 1) : in[j].size = 0
<1> DEFINE s == [j \in DOMAIN in |-> [m \in 1 .. in[j].size |-> <<j, m>>]]
           n == Len(in)
           f == CHOOSE g : JoinOf(g, s, Len(s))
           b == FileBytes(in)
<1>1. n \in Nat \ {0} /\ DOMAIN in = 1 .. n /\ \A j \in 1 .. n : in[j].size \in Nat
  BY InputsAssumption
<1>2. s \in Seq(Seq(Nat \X Nat)) /\ Len(s) = n
  <2>1. \A j \in 1 .. n : [m \in 1 .. in[j].size |-> <<j, m>>] \in Seq(Nat \X Nat)
    BY <1>1
  <2>2. s = [j \in 1 .. n |-> [m \in 1 .. in[j].size |-> <<j, m>>]]
    BY <1>1
  <2> QED
    BY <1>1, <2>1, <2>2
<1>3. ASSUME NEW j \in 1 .. n
      PROVE  /\ Len(s[j]) = in[j].size /\ in[j].size \in Nat
             /\ \A m \in 1 .. Len(s[j]) : s[j][m] = <<j, m>>
             /\ s[j] = <<>> <=> in[j].size = 0
  <2>1. j \in DOMAIN in /\ in[j].size \in Nat
    BY <1>1
  <2>2. s[j] = [m \in 1 .. in[j].size |-> <<j, m>>]
    BY <2>1
  <2>3. \A z \in Nat : /\ Len([m \in 1 .. z |-> <<j, m>>]) = z
                       /\ [m \in 1 .. z |-> <<j, m>>] = <<>> <=> z = 0
    OBVIOUS
  <2> HIDE DEF s
  <2>4. Len(s[j]) = in[j].size /\ (s[j] = <<>> <=> in[j].size = 0)
    BY <2>1, <2>2, <2>3
  <2>5. \A m \in 1 .. in[j].size : s[j][m] = <<j, m>>
    BY <2>2
  <2> QED
    BY <2>1, <2>4, <2>5
<1> HIDE DEF s
<1>4. NamedParts(s)
  BY <1>2, <1>3 DEF NamedParts
<1>5. b = f[n]
  BY <1>1, <1>2 DEF FileBytes, FlattenSeq, JoinOf, s
<1>6. JoinOf(f, s, Len(s))
  BY <1>1, <1>2, JoinExists
<1>7. Placed(s, b, n)
  <2> HIDE DEF f, b, n
  <2>1. n \in 1 .. Len(s)
    BY <1>1, <1>2
  <2> QED
    BY <1>4, <1>5, <1>6, <2>1, JoinPlaced
<1>8. i \in 1 .. n /\ k \in 1 .. Len(s[i]) /\ i \in Nat /\ k \in Nat
  BY <1>1, <1>3
<1>9. EmptyTo(s, i - 1) <=> \A j \in 1 .. (i - 1) : in[j].size = 0
  <2>1. \A j \in 1 .. (i - 1) : j \in 1 .. n
    BY <1>1, <1>8
  <2> QED
    BY <1>3, <2>1 DEF EmptyTo
<1> HIDE DEF b, f, n
<1>10. DOMAIN b = 1 .. Len(b)
  BY <1>7 DEF Placed
<1>11. ASSUME k \in DOMAIN b, b[k] = <<i, k>>
       PROVE  EmptyTo(s, i - 1)
  <2>1. b[k][1] = i /\ b[k][2] = k /\ k \in 1 .. Len(b)
    BY <1>10, <1>11
  <2> QED
    BY <1>7, <2>1 DEF Placed
<1>12. ASSUME EmptyTo(s, i - 1)
       PROVE  k \in DOMAIN b /\ b[k] = <<i, k>>
  <2>1. Begins(s[i], b)
    BY <1>7, <1>8, <1>12 DEF Placed
  <2>2. k <= Len(b) /\ b[k] = s[i][k] /\ s[i][k] = <<i, k>>
    <3>1. Len(b) \in Nat /\ Len(s[i]) \in Nat
      BY <1>2, <1>3, <1>7, <1>8 DEF Placed
    <3> QED
      BY <1>3, <1>8, <2>1, <3>1 DEF Begins
  <2> QED
    BY <1>8, <1>10, <2>2
<1> QED
  BY <1>9, <1>11, <1>12 DEF b

\* Files read back byte for byte exactly if no file before them has any bytes, for any
\* image and any calls (make_initrd.cpp:23-45, initrd.cpp:79-91, 127).
THEOREM FilesReadBack == Spec => []FilesReadBackIffFirst
<1>1. IInv /\ ReadInv => FilesReadBackIffFirst
  <2> SUFFICES ASSUME IInv, ReadInv, got.count > 0, got.at >= files[got.file].data,
                      NEW x \in got.at .. (got.at + got.count - 1)
               PROVE  ByteAt(input, x) = <<got.file, x - files[got.file].data + 1>>
                        <=> \A j \in 1 .. (got.file - 1) : input[j].size = 0
    BY DEF FilesReadBackIffFirst
  <2> DEFINE i == got.file
             k == x - DataStart(input) + 1
             size == input[i].size
  <2>1. /\ i \in 1 .. Len(files) /\ files[i].data = DataStart(input) /\ files[i].size = size
    BY DEF ReadInv, GotInv, PositionsInv
  <2>2. input \in Inputs /\ files[i] \in Infos /\ i \in DOMAIN input /\ i \in Nat
    <3>1. DOMAIN input = 1 .. Len(input) /\ input \in Inputs
      BY InputsAssumption DEF IInv, TypeInv
    <3>2. Len(files) = Len(input)
      BY <2>1, LenProperties DEF IInv, FilesInv, TypeInv
    <3> QED
      BY <2>1, <3>1, <3>2 DEF IInv, TypeInv
  <2>3. size \in Nat /\ DataStart(input) \in Nat
    BY <2>1, <2>2 DEF Infos
  <2>4. x \in DataStart(input) .. (DataStart(input) + size - 1)
    <3>1. x \in Extent(i)
      BY DEF ReadInv, ReadsStayInside
    <3> QED
      BY <2>1, <3>1 DEF Extent
  <2>5. k \in 1 .. size /\ k \in Nat
    BY <2>3, <2>4
  <2>6. k = x - (HeaderSize * Len(input) + 4) + 1
    BY DEF DataStart
  <2>7. k \in DOMAIN FileBytes(input) /\ FileBytes(input)[k] = <<i, k>>
          <=> \A j \in 1 .. (i - 1) : input[j].size = 0
    BY <2>2, <2>5, BytesPlaced
  <2>8. ByteAt(input, x) = IF k \in DOMAIN FileBytes(input) THEN FileBytes(input)[k] ELSE <<0, 0>>
    <3> HIDE DEF k
    <3> QED
      BY <2>6 DEF ByteAt
  <2>9. <<0, 0>> # <<i, k>>
    BY <2>1, <2>5
  <2>10. x - files[i].data + 1 = k
    BY <2>1
  <2> HIDE DEF k, i
  <2>11. ByteAt(input, x) = <<i, k>> <=> \A j \in 1 .. (i - 1) : input[j].size = 0
    BY <2>7, <2>8, <2>9
  <2> QED
    BY <2>10, <2>11 DEF i
<1> QED
  BY <1>1, InductiveInvariant, ReadInvariant, PTL

-----------------------------------------------------------------------------
(* The calls implement FileAccess *)

AllFiles == UNION {DOMAIN in : in \in Inputs}

\* FileAccess's opened and pos.
OpenedMap(t) == [d \in Keys(t) |-> get(t, d)]
Positions(fs) == [i \in AllFiles |-> IF i \in DOMAIN fs THEN fs[i].cur_pos ELSE 0]

LEMMA PlacesAreFiles ==
  ASSUME IInv, NEW i \in 1 .. Len(files)
  PROVE  i \in AllFiles
<1>1. i \in DOMAIN input /\ input \in Inputs
  <2>1. DOMAIN input = 1 .. Len(input) /\ input \in Inputs
    BY InputsAssumption DEF IInv, TypeInv
  <2>2. Len(files) = Len(input)
    BY LenProperties DEF IInv, FilesInv, TypeInv
  <2> QED
    BY <2>1, <2>2
<1> QED
  BY <1>1 DEF AllFiles

\* Moving a file in the list is moving it in the abstract positions.
LEMMA PositionsMove ==
  ASSUME IInv, NEW i \in 1 .. Len(files), NEW x \in Int
  PROVE  Positions(Moved(files, i, x)) = [Positions(files) EXCEPT ![i] = x]
<1>1. i \in DOMAIN files /\ i \in AllFiles
  BY PlacesAreFiles, LenProperties DEF IInv, TypeInv
<1>2. /\ DOMAIN Moved(files, i, x) = DOMAIN files
      /\ \A j \in DOMAIN files \ {i} : Moved(files, i, x)[j] = files[j]
  BY <1>1 DEF Moved
<1>3. Moved(files, i, x)[i].cur_pos = x
  BY <1>1 DEF Moved
<1>4. \A j \in AllFiles :
        Positions(Moved(files, i, x))[j] = IF j = i THEN x ELSE Positions(files)[j]
  BY <1>1, <1>2, <1>3 DEF Positions
<1> QED
  BY <1>1, <1>4 DEF Positions

LEMMA RefinesInit == Init => Access!Init
<1> SUFFICES ASSUME Init PROVE Access!Init
  OBVIOUS
<1>1. OpenedMap(open_files) = [d \in {} |-> 0]
  BY EmptyTableIs DEF Init, OpenedMap
<1>2. Positions(files) = [f \in AllFiles |-> 0]
  BY DEF Init, Positions
<1> QED
  BY <1>1, <1>2 DEF Init, Access!Init, OpenedMap, Positions, AllFiles

LEMMA OpenRefines ==
  ASSUME IInv, NEW path \in Paths, Open(path)
  PROVE  Access!Next
<1>1. /\ Found(path) \in 1 .. Len(files) /\ files' = Moved(files, Found(path), 0)
      /\ Keys(open_files') = Keys(open_files) \cup {cur_fd}
      /\ get(open_files', cur_fd) = Found(path)
      /\ \A d \in Keys(open_files) \ {cur_fd} : get(open_files', d) = get(open_files, d)
  BY OpenIs
<1>2. PICK c \in Fds : reply' = c /\ c = cur_fd
  BY DEF Open, Replies, Opened, IInv, TypeInv
<1>3. PICK i \in AllFiles : i = Found(path)
  BY <1>1, PlacesAreFiles
<1>4. Positions(files)' = [Positions(files) EXCEPT ![i] = 0]
  <2>1. Positions(files)' = Positions(files')
    BY DEF Positions
  <2> QED
    BY <1>1, <1>3, <2>1, PositionsMove
<1>5. OpenedMap(open_files)' =
        [e \in DOMAIN OpenedMap(open_files) \cup {c} |->
           IF e = c THEN i ELSE OpenedMap(open_files)[e]]
  BY <1>1, <1>2, <1>3 DEF OpenedMap
<1>6. Access!Open(c, i)
  BY <1>2, <1>4, <1>5 DEF Access!Open, OpenedMap, Positions, AllFiles
<1>7. \E d \in Fds, f \in AllFiles : Access!Open(d, f)
  BY <1>6
<1> QED
  BY <1>7, Zenon DEF Access!Next, AllFiles

LEMMA MovesRefine ==
  ASSUME IInv, NEW fd \in Fds,
         \/ \E n \in Counts : Read(fd, n)
         \/ \E o \in Offsets, w \in {"SEEK_SET", "SEEK_CUR", "SEEK_END"} : lseek(fd, o, w)
  PROVE  Access!Next
<1> DEFINE i == FileOf(fd)
<1>1. UNCHANGED open_files /\ Known(fd)
  BY MovesAre
<1>2. PICK x \in Int : /\ files' = Moved(files, i, x)
                       /\ \/ x = reply'
                          \/ reply' \in Nat /\ x = files[i].cur_pos + reply'
  BY MovesAre
<1>3. fd \in Keys(open_files) /\ i \in 1 .. Len(files)
  BY <1>1, FileOfIs
<1>4. fd \in DOMAIN OpenedMap(open_files) /\ OpenedMap(open_files)[fd] = i
  BY <1>3 DEF OpenedMap, FileOf
<1>5. Positions(files)[i] = files[i].cur_pos
  <2>1. i \in AllFiles /\ i \in DOMAIN files
    BY <1>3, PlacesAreFiles, LenProperties DEF IInv, TypeInv
  <2> QED
    BY <2>1 DEF Positions
<1> HIDE DEF i
<1>6. Positions(files') = [Positions(files) EXCEPT ![i] = x]
  BY <1>2, <1>3, PositionsMove
<1>7. OpenedMap(open_files') = OpenedMap(open_files)
  BY <1>1
<1>8. CASE x = reply'
  <2>1. Access!Seek(fd)
    BY <1>4, <1>6, <1>7, <1>8 DEF Access!Seek, OpenedMap, Positions, AllFiles
  <2> QED
    BY <1>4, <2>1 DEF Access!Next, OpenedMap
<1>9. CASE reply' \in Nat /\ x = files[i].cur_pos + reply'
  <2>1. Access!Read(fd)
    <3>1. reply' >= 0 /\ x = Positions(files)[OpenedMap(open_files)[fd]] + reply'
      BY <1>4, <1>5, <1>9
    <3>2. Positions(files)' = [Positions(files) EXCEPT ![OpenedMap(open_files)[fd]] =
                                 Positions(files)[OpenedMap(open_files)[fd]] + reply']
      BY <1>4, <1>6, <3>1
    <3>3. OpenedMap(open_files)' = OpenedMap(open_files)
      BY <1>7
    <3> QED
      BY <3>1, <3>2, <3>3 DEF Access!Read, OpenedMap, Positions, AllFiles
  <2> QED
    BY <1>4, <2>1 DEF Access!Next, OpenedMap
<1> QED
  BY <1>2, <1>8, <1>9

\* tell is a seek to where the file stands already.
LEMMA TellRefines ==
  ASSUME IInv, NEW fd \in Fds, tell(fd)
  PROVE  Access!Next
<1> DEFINE i == FileOf(fd)
<1>1. Known(fd) /\ reply' = files[i].cur_pos /\ UNCHANGED <<files, open_files>>
  BY DEF tell, Replies, tables
<1>2. fd \in Keys(open_files) /\ i \in 1 .. Len(files)
  BY <1>1, FileOfIs
<1>3. fd \in DOMAIN OpenedMap(open_files) /\ OpenedMap(open_files)[fd] = i
  BY <1>2 DEF OpenedMap, FileOf
<1>4. i \in AllFiles /\ i \in DOMAIN files
  BY <1>2, PlacesAreFiles, LenProperties DEF IInv, TypeInv
<1>5. Positions(files)[i] = files[i].cur_pos
  BY <1>4 DEF Positions
<1> HIDE DEF i
<1>6. Positions(files') = [Positions(files) EXCEPT ![i] = reply']
  <2>1. Positions(files') = Positions(files) /\ reply' = Positions(files)[i]
    BY <1>1, <1>5
  <2> QED
    BY <2>1 DEF Positions
<1>7. Access!Seek(fd)
  BY <1>1, <1>3, <1>6 DEF Access!Seek, OpenedMap, Positions, AllFiles
<1> QED
  BY <1>3, <1>7 DEF Access!Next, OpenedMap

LEMMA CloseRefines ==
  ASSUME IInv, NEW fd \in Fds, close(fd)
  PROVE  Access!Next
<1>1. /\ Known(fd) /\ UNCHANGED files /\ reply' = 0
      /\ open_files' = remove(open_files, fd)
  BY DEF close, Replies
<1>2. fd \in Int /\ fd \in Keys(open_files)
  BY <1>1, FileOfIs, SizesAssumption DEF Fds
<1>3. /\ Keys(remove(open_files, fd)) = Keys(open_files) \ {fd}
      /\ \A d \in Keys(open_files) \ {fd} : get(remove(open_files, fd), d) = get(open_files, d)
  BY <1>2, RemoveIs DEF IInv, TypesOfTables, TablesWhole
<1>4. OpenedMap(open_files') =
        [e \in DOMAIN OpenedMap(open_files) \ {fd} |-> OpenedMap(open_files)[e]]
  BY <1>1, <1>3 DEF OpenedMap
<1>5. fd \in DOMAIN OpenedMap(open_files) /\ Positions(files') = Positions(files)
  BY <1>1, <1>2 DEF OpenedMap
<1>6. Access!Close(fd)
  BY <1>1, <1>4, <1>5 DEF Access!Close, OpenedMap, Positions, AllFiles
<1> QED
  BY <1>5, <1>6 DEF Access!Next, OpenedMap

\* Calls that fail.
LEMMA RefusalsRefine ==
  ASSUME \/ \E path \in Paths : OpenOutside(path) \/ OpenMissing(path)
         \/ \E fd \in Fds, n \in Counts : ReadRefused(fd, n)
         \/ \E fd \in Fds : ReadUnknown(fd) \/ CloseUnknown(fd)
  PROVE  Access!Next
<1>1. reply' = -1 /\ UNCHANGED <<files, open_files>>
  BY DEF OpenOutside, OpenMissing, ReadRefused, ReadUnknown, CloseUnknown, Refused, Replies, tables
<1>2. Access!Refuse
  BY <1>1 DEF Access!Refuse
<1> QED
  BY <1>2 DEF Access!Next

\* Mounting finds every file at its beginning.
LEMMA BootStutters ==
  ASSUME IInv, Mount \/ NoModules \/ MountGarbage \/ UNCHANGED vars
  PROVE  UNCHANGED Access!vars
<1>1. CASE NoModules \/ MountGarbage \/ UNCHANGED vars
  <2>1. UNCHANGED <<files, open_files, reply>>
    BY <1>1 DEF NoModules, MountGarbage, vars, tables
  <2> QED
    BY <2>1 DEF Access!vars
<1>2. CASE Mount
  <2>1. files' = FileInfos(input) /\ phase = "boot" /\ UNCHANGED <<open_files, reply>>
    BY <1>2 DEF Mount, tables
  <2>2. DOMAIN files = {}
    BY <2>1, LenProperties DEF IInv, TypeInv, FilesInv
  <2>3. \A i \in DOMAIN files' : files'[i].cur_pos = 0
    BY <2>1 DEF FileInfos
  <2>4. Positions(files') = Positions(files)
    BY <2>2, <2>3 DEF Positions
  <2> QED
    BY <2>1, <2>4 DEF Access!vars, Positions, AllFiles
<1> QED
  BY <1>1, <1>2

\* Through both tables and all their chains, a call does to the file of its
\* descriptor what FileAccess promises and nothing to any other
\* (vfs.cpp:24-86, initrd.cpp:94-176).
THEOREM Implementation == Spec => ImplementsFileAccess
<1>1. Init => Access!Init
  BY RefinesInit
<1>2. IInv /\ [Next]_vars => [Access!Next]_(Access!vars)
  <2> SUFFICES ASSUME IInv, [Next]_vars
               PROVE  Access!Next \/ UNCHANGED Access!vars
    OBVIOUS
  <2>1. CASE Mount \/ NoModules \/ MountGarbage \/ UNCHANGED vars
    BY <2>1, BootStutters
  <2>2. CASE \E path \in Paths : Open(path)
    BY <2>2, OpenRefines
  <2>3. CASE \/ \E fd \in Fds, n \in Counts : Read(fd, n)
             \/ \E fd \in Fds, o \in Offsets, w \in {"SEEK_SET", "SEEK_CUR", "SEEK_END"} :
                  lseek(fd, o, w)
    BY <2>3, MovesRefine
  <2>4. CASE \E fd \in Fds : tell(fd)
    BY <2>4, TellRefines
  <2>5. CASE \E fd \in Fds : close(fd)
    BY <2>5, CloseRefines
  <2>6. CASE \/ \E path \in Paths : OpenOutside(path) \/ OpenMissing(path)
             \/ \E fd \in Fds, n \in Counts : ReadRefused(fd, n)
             \/ \E fd \in Fds : ReadUnknown(fd) \/ CloseUnknown(fd)
    BY <2>6, RefusalsRefine
  <2> QED
    BY <2>1, <2>2, <2>3, <2>4, <2>5, <2>6 DEF Next
<1> QED
  BY <1>1, <1>2, InductiveInvariant, PTL DEF Spec, ImplementsFileAccess, Access!Spec
=============================================================================
